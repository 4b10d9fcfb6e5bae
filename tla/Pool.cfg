\* Two workers, a client and the owner as callers, three tasks.
CONSTANTS
    Workers = {w1, w2}
    Clients = {c1}
    Owner = owner
    Tasks = {t1, t2, t3}
    NoThread = NoThread
    NoTask = NoTask
    OwnerJoinsClients = TRUE
    MaxSpurious = 1
SPECIFICATION FairSpec
INVARIANTS
    TypeOK
    NoLostWakeup
    StartedInOrder
    OnePlacePerPromise
    NoUseAfterDestroy
    DrainedWhenDestroyed
PROPERTIES
    DestructorReturns
    ImplementsExecutor
