\* More threads than the program has, where they may be more.
CONSTANTS
    Acquirers = {"acquire1", "acquire2"}
    Consumers = {"consumer1", "consumer2", "consumer3"}
    Counters = 4
    Uninitialised = {"null"}
    Garbage = 13
SPECIFICATION FairSpec
INVARIANTS
    PrintsFortyTwo
    FlagInOrder
    ConsumeOrders
    PrintsTotal
PROPERTIES
    LoopsEnd
