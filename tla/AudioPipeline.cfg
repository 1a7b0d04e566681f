CONSTANTS
    Capacity = 1
    MaxPackets = 2
    MaxConns = 2
SPECIFICATION MCFairSpec
INVARIANTS StreamsInOrder NothingVanishes
PROPERTIES ParseEnds QueuesDrain
