CONSTANTS
    Alphabet <- MCAlphabet
    MaxLen = 3
    MaxProtocolStringLength = 2
    NotRun = NotRun
    Malformed = Malformed

SPECIFICATION Spec

INVARIANT TypeOK
INVARIANT MirrorRoundTrip

\* kMaxProtocolStringLength is 80 in the code; 2 puts strings of up to 3
\* characters below, at and above it.
\* Both encoders are called once; the model stops after that.
CHECK_DEADLOCK FALSE
