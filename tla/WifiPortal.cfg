CONSTANTS
    near = near
    other = other
    far = far
    rare = rare
    good = good
    long = long
    None = None
    Pages = {p1}
    Networks <- MCNetworks
    Passwords <- MCPasswords
    Strength <- MCStrength
    Scans <- MCScans
    MaxScanResult = 3
    Valid <- MCValid
    LongNames <- MCLongNames
    LongPasswords <- MCLongPasswords
    Quoted <- MCQuoted
    Hasty = FALSE
SPECIFICATION FairSpec
INVARIANTS ScanListsStrongest PasswordForItsNetwork
PROPERTY StatusFollows
