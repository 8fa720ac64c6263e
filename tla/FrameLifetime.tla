---------------------------- MODULE FrameLifetime ----------------------------
(***************************************************************************)
(* The lifetime of FrameMirror objects of mirror-delay.js across breaks.   *)
(* A FrameMirror(break_id, index) copies the frame's details from the VM   *)
(* when it is created (FrameDetails, %GetFrameDetails) and answers every   *)
(* later question from that copy, after %CheckExecutionState(break_id)     *)
(* has confirmed that the break it was made in is still the current one.  *)
(* A mirror can be kept by its user past the end of its break; the VM      *)
(* meanwhile resumes, stops again with another stack and a new break id.   *)
(*                                                                         *)
(* Data abstraction: a frame's details are a record of a few fields, each  *)
(* holding one of a small set of values.                                   *)
(***************************************************************************)
EXTENDS Integers, Sequences

CONSTANTS
    Fields,       \* the detail fields read (receiver, function, ...)
    DetailValues, \* the values a field may hold
    MaxDepth,     \* deepest stack
    MaxBreaks,    \* bound on the number of breaks
    MaxMirrors,   \* bound on the number of frame mirrors made
    None,         \* no access made yet
    Thrown        \* the access threw (the break is over)

VARIABLES
    breakId,  \* the VM's current break id (the number of breaks so far)
    stopped,  \* the VM is in a break
    stack,    \* the VM's frames in the current break, frame 0 first
    mirrors,  \* the FrameMirror objects made so far
    last      \* the result of the last accessor call

vars == <<breakId, stopped, stack, mirrors, last>>

Details == [Fields -> DetailValues]
Stacks == UNION {[1..n -> Details] : n \in 1..MaxDepth}

\* %CheckExecutionState(break_id): the VM throws unless break_id is the
\* id of the break it is in.
ExecutionStateValid(bid) == stopped /\ bid = breakId

Init ==
    /\ breakId = 0
    /\ stopped = FALSE
    /\ stack = <<>>
    /\ mirrors = <<>>
    /\ last = None

\* The VM stops: a new break id and a new stack.
Break ==
    /\ ~stopped
    /\ breakId < MaxBreaks
    /\ breakId' = breakId + 1
    /\ stopped' = TRUE
    /\ stack' \in Stacks
    /\ UNCHANGED <<mirrors, last>>

\* The VM resumes; its frames are gone.
Resume ==
    /\ stopped
    /\ stopped' = FALSE
    /\ stack' = <<>>
    /\ UNCHANGED <<breakId, mirrors, last>>

\* new FrameMirror(break_id, index): FrameDetails copies the details of
\* frame 'index' of break 'break_id'; %GetFrameDetails itself checks the
\* break, so a mirror is only ever made from a current break.
NewFrameMirror ==
    /\ Len(mirrors) < MaxMirrors
    /\ \E bid \in 1..breakId, i \in 0..MaxDepth - 1 :
        /\ ExecutionStateValid(bid)
        /\ i < Len(stack)
        /\ mirrors' = Append(mirrors, [breakId |-> bid, index |-> i,
                                       details |-> stack[i + 1]])
    /\ UNCHANGED <<breakId, stopped, stack, last>>

\* Mutant: an accessor that reads the copy without checking the break.
DetailAccessUnchecked(m, f) == [mirror |-> m, field |-> f, value |-> m.details[f]]

\* Mutant: an accessor returning the whole details array, not its entry.
DetailAccessWholeRecord(m, f) ==
    IF ExecutionStateValid(m.breakId)
    THEN [mirror |-> m, field |-> f, value |-> m.details]
    ELSE Thrown

\* FrameDetails.prototype.<field>: %CheckExecutionState(this.break_id_),
\* then this.details_[index of the field].
DetailAccess(m, f) ==
    IF ExecutionStateValid(m.breakId)
    THEN [mirror |-> m, field |-> f, value |-> m.details[f]]
    ELSE Thrown

\* A user of a mirror calls one of its accessors (receiver(), func(),
\* isConstructCall(), sourcePosition(), ... all go through FrameDetails).
Access ==
    /\ \E k \in DOMAIN mirrors, f \in Fields : last' = DetailAccess(mirrors[k], f)
    /\ UNCHANGED <<breakId, stopped, stack, mirrors>>

Next == Break \/ Resume \/ NewFrameMirror \/ Access

Spec == Init /\ [][Next]_vars

-----------------------------------------------------------------------------
(* Properties.                                                              *)

Mirrors == [breakId : 1..MaxBreaks, index : 0..MaxDepth - 1, details : Details]

TypeOK ==
    /\ breakId \in 0..MaxBreaks
    /\ stopped \in BOOLEAN
    /\ stack \in Stacks \cup {<<>>}
    /\ mirrors \in Seq(Mirrors) /\ Len(mirrors) <= MaxMirrors
    /\ last \in {None, Thrown} \cup [mirror : Mirrors, field : Fields, value : DetailValues]

\* What an accessor returned is what the VM's current stack holds for that
\* frame and field.
AccessResultCurrent ==
    last \notin {None, Thrown} =>
        /\ stopped
        /\ last.mirror.index < Len(stack)
        /\ last.value = stack[last.mirror.index + 1][last.field]

\* Spec 9: a frame lookup anchored to a stale break id fails instead of
\* returning stale data.  Every call of a frame mirror's accessor either
\* throws or returns what the VM's current stack holds for that frame now,
\* however long ago the mirror was made and however many breaks came in
\* between.
FrameDataCurrent == [][Access => AccessResultCurrent']_vars
=============================================================================
