\* Serialization of every mirror of every heap of two objects, cyclic ones
\* included, with and without details.
CONSTANTS
    o1 = o1
    o2 = o2
    Objects <- MCObjects
    Heaps <- MCHeaps
    FrameDetailsOf <- MCFrameDetailsOf
    ArgumentLists <- MCArgumentLists
    LocalLists <- MCLocalLists
    Fuel = 8
    Thrown = Thrown
    Unresolved = Unresolved
    Diverged = Diverged
    NotRun = NotRun

SPECIFICATION Spec

INVARIANT TypeOK
INVARIANT SerializationTerminates
INVARIANT DetailsListProperties
INVARIANT FrameSerialization

\* serialize is one call: once it has returned nothing follows.
CHECK_DEADLOCK FALSE
