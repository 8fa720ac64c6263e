---------------------------- MODULE SourceListing ----------------------------
(***************************************************************************)
(* The 'source' branch of DebugResponseDetails (d8.js): the response body  *)
(* holds fromLine (0-based) and the source text of the window; the text is *)
(* split at '\n' and printed one line per row behind a right-aligned       *)
(* 1-based line number, or behind a '>' marker on the session's current   *)
(* line.  The model is one call: Format computes the rows from an input.  *)
(*                                                                         *)
(* Data abstraction: a line of the split text is "text" or "empty" (only  *)
(* emptiness steers the code); a row records the characters of its prefix *)
(* (markers, spaces, the number) and the index of the line it shows.      *)
(***************************************************************************)
EXTENDS Integers, Sequences, SequencesExt, FiniteSets

CONSTANTS
    FromLines,     \* fromLine values of source responses
    MaxPieces,     \* most pieces the source text splits into
    CurrentLines,  \* values of Debug.State.currentSourceLine
    Undef,         \* JavaScript undefined (no current line)
    NoRows         \* Format has not run yet

VARIABLES
    fromLine,   \* response.body.fromLine
    pieces,     \* source.split('\n'), each piece "text" or "empty"
    current,    \* Debug.State.currentSourceLine
    rows        \* the listing produced, one record per printed row

vars == <<fromLine, pieces, current, rows>>

\* Number of decimal digits of n >= 1, as String(n) prints it.
RECURSIVE DecimalDigits(_)
DecimalDigits(n) == IF n < 10 THEN 1 ELSE 1 + DecimalDigits(n \div 10)

\* 1 + Math.floor(log10(n)) with log10(n) = Math.log(n)/Math.log(10) in
\* IEEE double arithmetic.  The quotient is exact except just below a power
\* of ten: log(1000)/log(10) evaluates to 2.9999999999999996, so 1000 is
\* given three digits (for 1 <= n <= 200000 it is the only such n).
LogDigits(n) == IF n = 1000 THEN 3 ELSE DecimalDigits(n)

\* var maxdigits = 1 + Math.floor(log10(from_line + lines.length)), at least 3
MaxDigits(from, n) ==
    LET d == LogDigits(from + n) IN IF d < 3 THEN 3 ELSE d

\* Mutants of Listing: the marker compared with the 0-based line, and the
\* spacer loop run before the marker test.
ListingMarkerOffByOne(from0, p, cur) ==
    LET from_line == from0 + 1
        maxdigits == MaxDigits(from_line, Len(p))
        shown == IF p[Len(p)] = "empty" THEN Len(p) - 1 ELSE Len(p)
        Row(num) ==
            LET current_line == from_line + num
                spacer == maxdigits - LogDigits(current_line)
            IN  IF cur # Undef /\ current_line = cur
                THEN [marks |-> maxdigits, spaces |-> 0, number |-> 0,
                      line |-> num + 1]
                ELSE [marks |-> 0, spaces |-> IF spacer > 0 THEN spacer ELSE 0,
                      number |-> current_line, line |-> num + 1]
    IN  [i \in 1..shown |-> Row(i - 1)]

ListingSpacerFirst(from0, p, cur) ==
    LET from_line == from0 + 1
        maxdigits == MaxDigits(from_line, Len(p))
        shown == IF p[Len(p)] = "empty" THEN Len(p) - 1 ELSE Len(p)
        Row(num) ==
            LET current_line == from_line + num
                spacer == maxdigits - LogDigits(current_line)
                pad == IF spacer > 0 THEN spacer ELSE 0
            IN  IF cur # Undef /\ current_line = cur + 1
                THEN [marks |-> maxdigits, spaces |-> pad, number |-> 0,
                      line |-> num + 1]
                ELSE [marks |-> 0, spaces |-> pad,
                      number |-> current_line, line |-> num + 1]
    IN  [i \in 1..shown |-> Row(i - 1)]

\* The rows printed for pieces p, starting at 1-based line from_line, with
\* the session on 0-based line cur.  The loop breaks at the last piece
\* when it is empty (the text ended with a newline).
Listing(from0, p, cur) ==
    LET from_line == from0 + 1
        maxdigits == MaxDigits(from_line, Len(p))
        shown == IF p[Len(p)] = "empty" THEN Len(p) - 1 ELSE Len(p)
        Row(num) ==
            LET current_line == from_line + num
                spacer == maxdigits - LogDigits(current_line)
            IN  IF cur # Undef /\ current_line = cur + 1
                THEN [marks |-> maxdigits, spaces |-> 0, number |-> 0,
                      line |-> num + 1]
                ELSE [marks |-> 0, spaces |-> IF spacer > 0 THEN spacer ELSE 0,
                      number |-> current_line, line |-> num + 1]
    IN  [i \in 1..shown |-> Row(i - 1)]

\* Characters before the line text: the markers and two spaces, or the
\* spaces, the number and ': '.
PrefixWidth(r) ==
    IF r.marks > 0 THEN r.marks + 2
    ELSE r.spaces + DecimalDigits(r.number) + 2

Pieces == UNION {[1..n -> {"text", "empty"}] : n \in 1..MaxPieces}

Init ==
    /\ fromLine \in FromLines
    /\ pieces \in Pieces
    /\ current \in CurrentLines \cup {Undef}
    /\ rows = NoRows

\* DebugResponseDetails formats one source response.
Format ==
    /\ rows = NoRows
    /\ rows' = Listing(fromLine, pieces, current)
    /\ UNCHANGED <<fromLine, pieces, current>>

\* The call returns after one listing; nothing follows it.
Spec == Init /\ [][Format]_vars

-----------------------------------------------------------------------------
(* Properties, stated against spec section 4.4 ("Source listing").         *)

\* A row behind the '>' marker prints no spaces and no number; a numbered
\* row prints no marker.
MarkerRow == [marks : Nat \ {0}, spaces : {0}, number : {0}, line : 1..MaxPieces]
NumberRow == [marks : {0}, spaces : Nat, number : Nat \ {0}, line : 1..MaxPieces]

TypeOK ==
    /\ fromLine \in FromLines
    /\ pieces \in Pieces
    /\ current \in CurrentLines \cup {Undef}
    /\ rows = NoRows \/ rows \in Seq(MarkerRow \cup NumberRow)

\* The 1-based numbers of the lines the window shows: every piece of the
\* text but a final empty one.
ShownNumbers(from0, p) ==
    (from0 + 1)..(from0 + Len(p) - (IF Last(p) = "empty" THEN 1 ELSE 0))

\* The listing shows each line of the window once, in order, and marks
\* exactly the row of the session's current line (currentSourceLine is
\* 0-based, the printed numbers 1-based); every other row carries its own
\* number.
ListingShowsWindow ==
    rows # NoRows =>
        /\ Len(rows) = Cardinality(ShownNumbers(fromLine, pieces))
        /\ \A i \in DOMAIN rows :
            /\ rows[i].line = i
            /\ (rows[i].marks > 0) <=> (current # Undef /\ fromLine + i = current + 1)
            /\ rows[i].marks = 0 => rows[i].number = fromLine + i

\* Spec 4.4: the line numbers are right-aligned at the width of the
\* highest line number printed (at least 3 digits): every row's prefix has
\* exactly that width.  The code takes the width from a floating-point
\* log10 of from_line + lines.length.
ListingWidthMinimal ==
    rows # NoRows /\ rows # <<>> =>
        LET top == Max(ShownNumbers(fromLine, pieces))
            width == IF DecimalDigits(top) < 3 THEN 3 ELSE DecimalDigits(top)
        IN  \A i \in DOMAIN rows : PrefixWidth(rows[i]) = width + 2
=============================================================================
