CONSTANTS
    home = home
    office = office
    good = good
    bad = bad
    None = None
    Networks <- MCNetworks
    Passwords <- MCOnePassword
    Valid <- MCHomeOnly
    Heard <- MCHeard
    Online <- MCOnline
    Stored <- MCFewStored
    HistoryMax = 1
    MaxAttempts = 1
    MaxEvents = 2
    Overlap = FALSE
    Prompt = FALSE
SPECIFICATION FairSpec
INVARIANT FlagMatchesLink
PROPERTIES ConnectReturns BootResumes
