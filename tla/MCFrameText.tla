----------------------------- MODULE MCFrameText -----------------------------
(* Two objects without interceptors.  o1 takes every such shape; o2 is a   *)
(* plain object or a function with at most one named property and one      *)
(* element and __proto__ null or o1, so a function can sit on the receiver, *)
(* on its prototype or nowhere, behind an accessor or a data property,     *)
(* named, indexed or both.  Both constructors are o2, so the toText of a   *)
(* receiver that is not a function throws exactly when o2 is not one.     *)
(* invocationText never reads a script.                                    *)
EXTENDS FrameText

CONSTANTS o1, o2

MCObjects == {o1, o2}

NoInterceptor(s) == ~s.namedInterceptor /\ s.ctor = o2 /\ ~s.script

MCHeaps ==
    {h \in {o1 :> s1 @@ o2 :> s2 :
              s1 \in {s \in ObjectShapes : NoInterceptor(s)},
              s2 \in {s \in ObjectShapes : NoInterceptor(s) /\ s.kind # "array"}}
       : Acyclic(h)}
=============================================================================
