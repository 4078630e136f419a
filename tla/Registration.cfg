CONSTANTS
    c1 = c1
    a1 = a1
    a2 = a2
    t1 = t1
    t2 = t2
    p1 = p1
    p2 = p2
    Null = Null
    Clients <- MCClients
    Callers <- MCCallers
    Threads <- MCThreads
    Procs <- MCProcs
    Version <- MCVersion
    Lists <- MCLists
    StartPorts <- MCStartPorts
    LibVersion = 5
    MaxChanges = 3
    MaxAttempts = 2
    MaxStarts = 2
    MaxCalls = 2
    MaxSignals = 1
SPECIFICATION FairSpec
INVARIANTS
    TypeOK
    ChangeAnnounced
    SubscriberFollows
    AnswerExact
    NameOwnerServes
    CallsMatch
PROPERTIES
    AnnouncementArrives
    EveryAttemptEnds
CHECK_DEADLOCK FALSE
