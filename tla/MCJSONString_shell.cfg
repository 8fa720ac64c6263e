CONSTANTS
    Alphabet <- MCAlphabet
    MaxLen = 3
    MaxProtocolStringLength = 2
    NotRun = NotRun
    Malformed = Malformed

SPECIFICATION Spec

INVARIANT ShellRoundTrip

\* Both encoders are called once; the model stops after that.
CHECK_DEADLOCK FALSE
