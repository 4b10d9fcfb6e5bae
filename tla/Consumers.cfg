\* Three consumers, one more than the program has.
CONSTANTS
    Producer = p
    Consumers = {c1, c2, c3}
    Nobody = Nobody
    MaxItems = 5
    MaxSpurious = 1
SPECIFICATION FairSpec
INVARIANTS
    TypeOK
    InOrder
    FlagMeansItem
PROPERTIES
    FlagLoweredByPop
    NotificationServed
