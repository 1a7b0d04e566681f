CONSTANTS
    s1 = s1
    s2 = s2
    Senders = {s1, s2}
    Owner = app
    Ops = {"start", "stop", "close", "destroy"}
    Fragments = 2
    PingInterval = 1
    PongTimeout = 1
    WaitTimeout = 1
    Reconnects = {TRUE, FALSE}
    CloseTimesOut = TRUE
    CutFrames = TRUE
    Prompt = TRUE
    Careful = TRUE
    MaxConns = 2
    MaxTasks = 2
    MaxInbox = 1
SYMMETRY Symmetry
SPECIFICATION Spec
INVARIANTS OneLoopTask MessagesIntact ReadFresh PongOfThisConnection FlagFollows
