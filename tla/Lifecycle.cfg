\* The reference count, the critical section of start, and termination.
CONSTANTS
    Callers = {c1, c2, c3}
    MaxListeners = 2
SPECIFICATION FairSpec
INVARIANTS
    TypeOK
    RefsCounted
    OneStarter
    QuietMeansStopped
PROPERTIES
    ListenersStop
CHECK_DEADLOCK TRUE
