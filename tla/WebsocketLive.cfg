CONSTANTS
    s1 = s1
    Senders = {s1}
    Owner = app
    Ops = {"start", "stop", "close", "destroy"}
    Fragments = 1
    PingInterval = 0
    PongTimeout = 0
    WaitTimeout = 1
    Reconnects = {TRUE, FALSE}
    CloseTimesOut = TRUE
    CutFrames = FALSE
    Prompt = TRUE
    Careful = TRUE
    MaxConns = 1
    MaxTasks = 1
    MaxInbox = 1
SPECIFICATION FairSpec
PROPERTIES DeadPeerNoticed TriesAgain LostMeansEnded CallsReturn
