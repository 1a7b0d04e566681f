CONSTANTS
    red = red
    blue = blue
    off = off
    Colors <- MCColors
    Off = off
    Drivers = {"rmt", "spi"}
    Lengths = {1, 2}
    Symbols = 2
    Memory = 3
SPECIFICATION FairSpec
INVARIANT RefreshShows
PROPERTY CallEnds
CHECK_DEADLOCK FALSE
