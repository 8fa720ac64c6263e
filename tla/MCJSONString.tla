---------------------------- MODULE MCJSONString ----------------------------
(* Strings of up to three characters over: 0x01 and 0x1F (no named escape, *)
(* the two ends of the \u00XX range), 0x0B (hex digit b), '\n' (named      *)
(* escape), '"', '\', 'a' and 'u' (plain, and the letter of \u).           *)
EXTENDS JSONString

MCAlphabet == {1, 11, 31, 10, 34, 92, 97, 117}
=============================================================================
