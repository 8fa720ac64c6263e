--------------------------- MODULE MCDebugSession ---------------------------
(* Model-checking instance of DebugSession: two-frame stacks at line 0 (the *)
(* default window clamps at 0) or line 7 (it does not) or without a script, *)
(* two stops, and argument tokens covering a valid frame number, an         *)
(* out-of-range one, a negative one and a word.                           *)
EXTENDS DebugSession

MCLines == {0, 7}
\* Frames whose receiver is an object; the receivers that make
\* invocationText throw are MCDebugSession_break.cfg's.
MCReceivers == {"object"}
MCAllReceivers == {"object", "number", "badConstructor"}
MCArgTokens == {"1", "3", "-1", "x", "in"}
MCRawRequests == {RequestJSON(Req("frame", "number" :> "1")),
                  RequestJSON(Req("continue", ("stepaction" :> "out")
                                              @@ ("stepcount" :> 1)))}
=============================================================================
