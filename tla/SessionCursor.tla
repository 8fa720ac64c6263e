---------------------------- MODULE SessionCursor ----------------------------
(***************************************************************************)
(* What the d8 debugger session promises its user, without the parser,     *)
(* the JSON requests or the formatter: while the debuggee is stopped the   *)
(* session shows a cursor on one frame of the current stack together with  *)
(* that frame's source line; a stop puts it on the top frame (or on no     *)
(* frame when the stop has no stack); the user asks one question at a time *)
(* and every question is answered; an answer leaves the cursor where it    *)
(* was, moves it to another frame of the same stack, or resumes the        *)
(* debuggee.  DebugSession is shown to implement this specification.      *)
(***************************************************************************)
EXTENDS Integers, Sequences

CONSTANTS
    FrameRecords, \* the frames a stack is made of; each has a line
    MaxDepth,     \* deepest stack
    NoFrame,      \* the cursor's frame when there is none
    NoLine        \* the cursor's line when there is no frame

VARIABLES
    stopped,  \* the debuggee is stopped and the user may ask
    frames,   \* the stack of the current stop, top frame first
    cursor,   \* the frame the session shows, and its line
    pending   \* a question has been asked and not yet answered

vars == <<stopped, frames, cursor, pending>>

NoCursor == [frame |-> NoFrame, line |-> NoLine]
CursorAt(s, i) == [frame |-> i, line |-> s[i + 1].line]
StackSeqs == UNION {[1..n -> FrameRecords] : n \in 0..MaxDepth}

Init ==
    /\ stopped = FALSE
    /\ frames = <<>>
    /\ cursor = NoCursor
    /\ pending = FALSE

\* The debuggee stops with some stack; the cursor goes to its top frame.
Stop ==
    /\ ~stopped
    /\ stopped' = TRUE
    /\ \E s \in StackSeqs :
        /\ frames' = s
        /\ cursor' = IF s = <<>> THEN NoCursor ELSE CursorAt(s, 0)
    /\ UNCHANGED pending

\* The user asks a question.
Ask ==
    /\ stopped
    /\ ~pending
    /\ pending' = TRUE
    /\ UNCHANGED <<stopped, frames, cursor>>

\* The question is answered: nothing moves, the cursor moves to a frame of
\* the current stack, or the debuggee resumes and its frames are gone.
Answer ==
    /\ pending
    /\ pending' = FALSE
    /\ \/ UNCHANGED <<stopped, frames, cursor>>
       \/ /\ \E i \in 0..Len(frames) - 1 : cursor' = CursorAt(frames, i)
          /\ UNCHANGED <<stopped, frames>>
       \/ /\ stopped' = FALSE
          /\ frames' = <<>>
          /\ UNCHANGED cursor

Next == Stop \/ Ask \/ Answer

\* A question asked is eventually answered.
Spec == Init /\ [][Next]_vars /\ WF_vars(Answer)
=============================================================================
