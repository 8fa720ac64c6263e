CONSTANTS
    Lines <- MCLines
    MaxDepth = 2
    MaxEpisodes = 2
    Receivers <- MCReceivers
    ArgTokens <- MCArgTokens
    RawRequests <- MCRawRequests
    NaN = NaN
    Undef = Undef
    Invalid = Invalid
    NoRequest = NoRequest
    NoResponse = NoResponse
    Garbage = Garbage

SPECIFICATION Spec

INVARIANT RequestArgumentsValidated


\* After the last bounded stop the debuggee runs on; the debugger then
\* waits for an event that need not come.
CHECK_DEADLOCK FALSE
