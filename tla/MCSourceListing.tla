--------------------------- MODULE MCSourceListing ---------------------------
(* Windows starting at the top of a script, just below line 100, around    *)
(* line 1000 and around line 10000, of up to four pieces, with the session *)
(* on a line inside or outside the window or on none.                      *)
EXTENDS SourceListing

MCFromLines == {0, 97, 995, 997, 9996}
MCCurrentLines == {-1, 0, 98, 998}
=============================================================================
