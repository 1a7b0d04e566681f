CONSTANTS
    MinYear = 2024
    ExpectedYear = 2026
    RealYear = 2026
    ColdYears <- MCColdYears
    ShortTries = 10
    MaxTries = 30
    ShortDelay = 2
    LongDelay = 5
    MaxBoots = 2
SPECIFICATION BootFairSpec
INVARIANTS PortalActive NothingLeaks MicOnTime GivesUpOnBudget
PROPERTY BootSettles
CHECK_DEADLOCK FALSE
