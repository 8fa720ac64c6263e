CONSTANTS
    FromLines <- MCFromLines
    MaxPieces = 4
    CurrentLines <- MCCurrentLines
    Undef = Undef
    NoRows = NoRows

SPECIFICATION Spec

INVARIANT ListingWidthMinimal

\* One formatting call: the model stops once the rows are produced.
CHECK_DEADLOCK FALSE
