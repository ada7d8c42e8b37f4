SPECIFICATION FairQueueSpec
CONSTANTS
    Appointments = {a1}
    Messages = {m1}
    Lead = 1
    Nights <- MCNights
    Attempts = 2
    MaxStalls = 1
    Workers = 1
    MaxTime = 3
    NoTime = NoTime
INVARIANT QueueConsistent
PROPERTIES RemindsOfTheRow EveryJobEnds
CHECK_DEADLOCK FALSE
