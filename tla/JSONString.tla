----------------------------- MODULE JSONString -----------------------------
(***************************************************************************)
(* StringToJSON_, the routine both d8.js and mirror-delay.js use to write  *)
(* a string as a JSON string literal.  The two files carry their own copy: *)
(* mirror-delay.js writes an unmapped control character as \u00 and two    *)
(* hex digits, d8.js still has the TODO that writes \u0000.                *)
(*                                                                         *)
(* A string is a sequence of character codes.  Each encoder is one call,  *)
(* an action computing its output from the input; the output is checked   *)
(* against JsonDecode, a decoder written from the JSON grammar (RFC 8259). *)
(***************************************************************************)
EXTENDS Integers, Sequences, SequencesExt

CONSTANTS
    Alphabet,   \* character codes the input strings are made of
    MaxLen,     \* longest input string
    MaxProtocolStringLength, \* kMaxProtocolStringLength: longest value sent
    NotRun,     \* an encoder has not been called yet
    Malformed   \* JsonDecode's result for text that is no JSON string

VARIABLES
    str,        \* the string passed to StringToJSON_
    mirrorJson, \* the pairs mirror-delay.js's serializer writes for the string
    shellJson   \* the result of d8.js's StringToJSON_

vars == <<str, mirrorJson, shellJson>>

Quote == 34
Backslash == 92

\* Mutant: a character class that lost its control-character range.
IsSpecialNoControls(c) == c \in {Quote, Backslash}

\* ctrlCharTest_/ctrlCharMatch_: '"', '\' and the control characters 0x00-0x1F.
IsSpecial(c) == c \in {Quote, Backslash} \/ c <= 31

\* ctrlCharMap_: the characters written as a backslash and one letter,
\* mapped to that letter ('\b' -> b, '\t' -> t, ...).
CtrlCharMap == (8 :> 98) @@ (9 :> 116) @@ (10 :> 110) @@ (12 :> 102)
               @@ (13 :> 114) @@ (Quote :> Quote) @@ (Backslash :> Backslash)

\* %NumberToRadixString(d, 16) of a digit 0..15: '0'-'9', 'a'-'f'.
HexDigit(d) == IF d < 10 THEN 48 + d ELSE 87 + d

\* Mutant: the two hex digits written in the wrong order.
MirrorEscapeSwapped(c) ==
    IF c \in DOMAIN CtrlCharMap THEN <<Backslash, CtrlCharMap[c]>>
    ELSE <<Backslash, 117, 48, 48, HexDigit(c % 16), HexDigit(c \div 16)>>

\* The replacement callback of mirror-delay.js: the map, else \u00XX.
MirrorEscape(c) ==
    IF c \in DOMAIN CtrlCharMap THEN <<Backslash, CtrlCharMap[c]>>
    ELSE <<Backslash, 117, 48, 48, HexDigit(c \div 16), HexDigit(c % 16)>>

\* The replacement callback of d8.js: both hex digits are the TODO's '0'.
ShellEscape(c) ==
    IF c \in DOMAIN CtrlCharMap THEN <<Backslash, CtrlCharMap[c]>>
    ELSE <<Backslash, 117, 48, 48, 48, 48>>

\* value.replace(ctrlCharMatch_, callback) wrapped in quotes, or the value
\* wrapped in quotes when ctrlCharTest_ finds no special character.
Quoted(s, Escape(_)) ==
    IF \E i \in DOMAIN s : IsSpecial(s[i])
    THEN <<Quote>> \o FlattenSeq([i \in DOMAIN s |->
                          IF IsSpecial(s[i]) THEN Escape(s[i]) ELSE <<s[i]>>])
         \o <<Quote>>
    ELSE <<Quote>> \o s \o <<Quote>>

MirrorStringToJSON(s) == Quoted(s, MirrorEscape)
ShellStringToJSON(s) == Quoted(s, ShellEscape)

-----------------------------------------------------------------------------
(* Reference: the JSON grammar of a string literal, as a decoder.           *)

\* The value of a hex digit character, or -1.
HexValue(c) ==
    IF c \in 48..57 THEN c - 48
    ELSE IF c \in 97..102 THEN c - 87
    ELSE IF c \in 65..70 THEN c - 55
    ELSE -1

\* unescaped = %x20-21 / %x23-5B / %x5D-10FFFF
Unescaped(c) == c >= 32 /\ c # Quote /\ c # Backslash

\* escape = '\' ( '"' | '\' | '/' | 'b' | 'f' | 'n' | 'r' | 't' | 'u' 4HEXDIG )
SimpleEscapes == (Quote :> Quote) @@ (Backslash :> Backslash) @@ (47 :> 47)
                 @@ (98 :> 8) @@ (102 :> 12) @@ (110 :> 10) @@ (114 :> 13)
                 @@ (116 :> 9)

RECURSIVE DecodeBody(_)
DecodeBody(b) ==
    IF b = <<>> THEN <<>>
    ELSE IF Head(b) = Backslash
    THEN IF Len(b) >= 2 /\ b[2] \in DOMAIN SimpleEscapes
         THEN LET rest == DecodeBody(SubSeq(b, 3, Len(b)))
              IN  IF rest = Malformed THEN Malformed
                  ELSE <<SimpleEscapes[b[2]]>> \o rest
         ELSE IF Len(b) >= 6 /\ b[2] = 117
                 /\ \A k \in 3..6 : HexValue(b[k]) >= 0
         THEN LET code == ((HexValue(b[3]) * 16 + HexValue(b[4])) * 16
                           + HexValue(b[5])) * 16 + HexValue(b[6])
                  rest == DecodeBody(SubSeq(b, 7, Len(b)))
              IN  IF rest = Malformed THEN Malformed ELSE <<code>> \o rest
         ELSE Malformed
    ELSE IF ~Unescaped(Head(b)) THEN Malformed    \* must be escaped
    ELSE LET rest == DecodeBody(Tail(b))
         IN  IF rest = Malformed THEN Malformed ELSE <<Head(b)>> \o rest

JsonDecode(t) ==
    IF Len(t) >= 2 /\ t[1] = Quote /\ t[Len(t)] = Quote
    THEN DecodeBody(SubSeq(t, 2, Len(t) - 1))
    ELSE Malformed

\* The string case of JSONProtocolSerializer.serialize: the value, cut to
\* its first kMaxProtocolStringLength characters with fromIndex and
\* toIndex when the string is longer, and the string's length.
SerializeString(s) ==
    IF Len(s) > MaxProtocolStringLength
    THEN [value |-> MirrorStringToJSON(SubSeq(s, 1, MaxProtocolStringLength)),
          fromIndex |-> 0, toIndex |-> MaxProtocolStringLength, length |-> Len(s)]
    ELSE [value |-> MirrorStringToJSON(s), length |-> Len(s)]

-----------------------------------------------------------------------------

Init ==
    /\ str \in SeqOf(Alphabet, MaxLen)
    /\ mirrorJson = NotRun
    /\ shellJson = NotRun

\* The serializer of mirror-delay.js writes the string.
MirrorEncode ==
    /\ mirrorJson = NotRun
    /\ mirrorJson' = SerializeString(str)
    /\ UNCHANGED <<str, shellJson>>

\* The request writer of d8.js writes the string.
ShellEncode ==
    /\ shellJson = NotRun
    /\ shellJson' = ShellStringToJSON(str)
    /\ UNCHANGED <<str, mirrorJson>>

Next == MirrorEncode \/ ShellEncode

\* Each encoder is called once; the model stops after both calls.
Spec == Init /\ [][Next]_vars

-----------------------------------------------------------------------------
(* Properties.                                                              *)

\* The protocol text is printable ASCII: no raw control character in it.
TypeOK ==
    /\ str \in SeqOf(Alphabet, MaxLen)
    /\ mirrorJson = NotRun \/ mirrorJson.value \in Seq(32..126)
    /\ shellJson = NotRun \/ shellJson \in Seq(32..126)

\* The serialization of a string mirror carries a JSON string literal that
\* a JSON parser reads back as the string, or, exactly when the string is
\* longer than kMaxProtocolStringLength, as its first that many characters
\* with fromIndex and toIndex spanning them (spec 4.2 and the string
\* properties of spec 8); a value without '"', '\' or control characters
\* is written verbatim between quotes.
MirrorRoundTrip ==
    mirrorJson # NotRun =>
        LET shown == JsonDecode(mirrorJson.value)
            cut   == Len(str) > MaxProtocolStringLength
        IN  /\ shown # Malformed
            /\ IsPrefix(shown, str)
            /\ mirrorJson.length = Len(str)
            /\ ("fromIndex" \in DOMAIN mirrorJson) <=> cut
            /\ IF cut THEN /\ Len(shown) = MaxProtocolStringLength
                           /\ mirrorJson.toIndex - mirrorJson.fromIndex = Len(shown)
                      ELSE shown = str
            /\ (\A i \in DOMAIN shown : Unescaped(shown[i])) =>
                   mirrorJson.value = <<Quote>> \o shown \o <<Quote>>

\* The same for the request text d8.js writes (command names, expressions,
\* breakpoint targets and conditions): spec 4.2 asks for \u00XX with the
\* character's two hex digits.
ShellRoundTrip ==
    shellJson # NotRun => JsonDecode(shellJson) = str
=============================================================================
