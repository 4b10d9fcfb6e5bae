\* A library whose std::atomic has no value unless it is given one.
CONSTANTS
    Acquirers = {"acquire"}
    Consumers = {"consumer"}
    Counters = 2
    Uninitialised = {"null", "dangling"}
    Garbage = 13
SPECIFICATION Spec
INVARIANT NeverDangling
