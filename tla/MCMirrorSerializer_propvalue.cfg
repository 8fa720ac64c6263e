\* Looks for a property mirror serialized with details and an object value.
CONSTANTS
    o1 = o1
    o2 = o2
    Objects <- MCObjects
    Heaps <- MCHeaps
    FrameDetailsOf <- MCFrameDetailsOf
    ArgumentLists <- MCArgumentLists
    LocalLists <- MCLocalLists
    Fuel = 8
    Thrown = Thrown
    Unresolved = Unresolved
    Diverged = Diverged
    NotRun = NotRun

SPECIFICATION Spec

INVARIANT PropertyValueWithoutDetails

\* serialize is one call: once it has returned nothing follows.
CHECK_DEADLOCK FALSE
