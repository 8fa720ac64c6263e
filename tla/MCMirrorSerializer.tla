------------------------- MODULE MCMirrorSerializer -------------------------
(* Two debuggee objects.  o1 takes every shape; o2 is a plain object, an   *)
(* array or a function whose only links are a property back to o1 and its  *)
(* constructor o1, so the heaps include the self-cycle o1.p = o1 and the   *)
(* two-object cycle o1.p = o2, o2.p = o1 without enumerating every pair of *)
(* shapes, and o2's toText throws exactly when o2 is not a function and o1 *)
(* is not one either.  o2 has no script; o1 is a function with a script  *)
(* or without one.                                                         *)
EXTENDS MirrorSerializer

CONSTANTS o1, o2

MCObjects == {o1, o2}

O2Shapes ==
    {s \in ObjectShapes :
        /\ s.named \in {<<>>, <<[name |-> "p", value |-> o1, ptype |-> PropertyType.Normal]>>}
        /\ s.indexed = <<>> /\ s.proto = "null" /\ s.ctor = o1
        /\ ~s.script
        /\ ~s.namedInterceptor}

\* Frames: a normal or constructor frame whose receiver is o1 or a number,
\* with one argument, named and holding o1 or unnamed and holding a number,
\* and one local holding o2.
MCFrameDetailsOf(h) ==
    [receiver : {o1, "number"},
     func : {f \in MCObjects : h[f].kind = "function"} \cup {Unresolved},
     constructCall : BOOLEAN, debuggerFrame : {FALSE}]
MCArgumentLists ==
    {<<[name |-> "a", value |-> o1]>>, <<[name |-> "", value |-> "number"]>>}
MCLocalLists == {<<[name |-> "x", value |-> o2]>>}

MCHeaps ==
    {h \in {o1 :> s1 @@ o2 :> s2 : s1 \in ObjectShapes, s2 \in O2Shapes} : Acyclic(h)}
=============================================================================
