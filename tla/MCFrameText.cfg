\* invocationText of every frame over every heap of two objects.
CONSTANTS
    o1 = o1
    o2 = o2
    Objects <- MCObjects
    Heaps <- MCHeaps
    Unresolved = Unresolved
    Thrown = Thrown
    NotRun = NotRun

SPECIFICATION Spec

INVARIANT TypeOK
INVARIANT NamedAfterNearestHolder

\* invocationText is one call: once it has returned nothing follows.
CHECK_DEADLOCK FALSE
