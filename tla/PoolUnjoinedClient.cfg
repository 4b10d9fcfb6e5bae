\* The owner destroys the pool while a client is still in enqueue().
CONSTANTS
    Workers = {w1}
    Clients = {c1}
    Owner = owner
    Tasks = {t1}
    NoThread = NoThread
    NoTask = NoTask
    OwnerJoinsClients = FALSE
    MaxSpurious = 0
SPECIFICATION Spec
INVARIANT NoUseAfterDestroy
