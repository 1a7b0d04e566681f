SPECIFICATION Spec
CONSTANTS
    NumLeds = 2
    Formats <- MCFormats
    Models = {"WS2812", "WS2816"}
    Levels = {165, 25855}
    Hues <- MCHues
    HsvFormats <- MCUnset
    Shades <- MCShades
    MaxCalls = 2
INVARIANTS PixelsHold HsvNear
CHECK_DEADLOCK FALSE
