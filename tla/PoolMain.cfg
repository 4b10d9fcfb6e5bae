\* The shape of main(): more tasks than workers.
CONSTANTS
    Workers = {w1, w2}
    Clients = {}
    Owner = owner
    NumTasks = 4
    Tasks <- MCTasks
    NoThread = NoThread
    NoTask = NoTask
    OwnerJoinsClients = TRUE
    MaxSpurious = 1
SPECIFICATION MainSpec
INVARIANTS
    PrintedInOrder
PROPERTIES
    MainTerminates
