CONSTANTS
    home = home
    office = office
    good = good
    bad = bad
    None = None
    Networks <- MCNetworks
    Passwords <- MCPasswords
    Valid <- MCValid
    Heard <- MCHeard
    Online <- MCOnline
    Stored <- MCStored
    HistoryMax = 2
    MaxAttempts = 2
    MaxEvents = 2
    Overlap = FALSE
    Prompt = TRUE
SPECIFICATION Spec
INVARIANTS SavedWereConnected OkMeansConnected
