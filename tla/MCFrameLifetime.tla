--------------------------- MODULE MCFrameLifetime ---------------------------
(* FrameLifetime with model values for fields and detail values.           *)
EXTENDS FrameLifetime
=============================================================================
