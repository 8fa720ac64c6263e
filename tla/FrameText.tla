------------------------------ MODULE FrameText ------------------------------
(***************************************************************************)
(* FrameMirror.invocationText of mirror-delay.js: how a stack frame names  *)
(* the function it runs.  For a constructor frame 'new' and the function's *)
(* name, for the debugger's own frame '[debugger]'; otherwise the function *)
(* is looked up, by identity, among the properties of the receiver and of *)
(* each object on its prototype chain, and the frame is shown as           *)
(* receiver.name, receiver[index] or the function's own name.             *)
(* The operators are those of FrameMirror; this module makes one call.    *)
(***************************************************************************)
EXTENDS FrameMirror

CONSTANT NotRun     \* invocationText has not been called yet

VARIABLES
    heap,   \* the debuggee heap
    frame,  \* the frame's details (%GetFrameDetails)
    text    \* what invocationText returns

vars == <<heap, frame, text>>

Init ==
    /\ heap \in Heaps
    /\ frame \in FrameDetailsOf(heap)
    /\ text = NotRun

\* frame.invocationText(), as DebugEventToText and FrameMirror.toText call it.
RenderInvocation ==
    /\ text = NotRun
    /\ text' = InvocationText(heap, frame)
    /\ UNCHANGED <<heap, frame>>

Next == RenderInvocation

\* One call; nothing follows it.
Spec == Init /\ [][Next]_vars

-----------------------------------------------------------------------------
(* Properties.                                                              *)

\* A found property is shown as an index exactly when its name is one.
TypeOK ==
    /\ heap \in [Objects -> ObjectShapes]
    /\ frame \in FrameDetailsOf(heap)
    /\ text \in {NotRun, Thrown}
       \/ /\ text.form \in {"new", "debugger", "indexed", "method", "function"}
          /\ text.form = "indexed" => text.property.prop.name = "0"
          /\ text.form = "method" => text.property.prop.name # "0"

\* The receiver and the objects on its prototype chain, nearest first.
RECURSIVE Chain(_, _)
Chain(h, v) == IF v \in Objects THEN <<v>> \o Chain(h, h[v].proto) ELSE <<>>

\* The own data properties of o that hold v, in properties() order.
DataHolding(h, o, v) ==
    SelectSeq(h[o].named \o h[o].indexed,
              LAMBDA p : p.ptype # PropertyType.Callbacks /\ p.value = v)

\* For a normal frame whose receiver is null, undefined, or an object whose
\* own toText returns, invocationText returns: the walk up the prototype
\* chain stops at null and never reaches a primitive.  The frame is named
\* after the first data property holding the function on the nearest
\* object of the receiver's chain that has one, and after the function
\* itself when no object on the chain holds it; accessors are never called
\* to compare (spec 4.1, the lookupProperty contract).
NamedAfterNearestHolder ==
    /\ text # NotRun
    /\ frame.receiver \in Objects \cup {"null", "undefined"}
    /\ ValueText(heap, frame.receiver) # Thrown
    /\ ~frame.constructCall /\ ~frame.debuggerFrame
    => LET ch == Chain(heap, frame.receiver)
           held == {i \in DOMAIN ch : DataHolding(heap, ch[i], frame.func) # <<>>}
       IN  /\ text # Thrown
           /\ IF held = {} THEN text.form = "function"
              ELSE LET o == ch[Min(held)]
                   IN  text.property = PropertyMirrorOf(o, Head(DataHolding(heap, o, frame.func)))
=============================================================================
