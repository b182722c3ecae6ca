\* Two Redis calls in flight, one failure tolerated, blocks of two units.
SPECIFICATION MCSpec
CONSTANTS
    Slot = {1, 2}
    MaxFailures = 1
    Refresh = 2
    Ttl = 4
    None = None
    Configs <- Environments
    Cases <- Scenarios
    MaxChunk = 2
    MaxPush = 1
    Scripts <- Frames
INVARIANTS EntranceHolds TransportSound
PROPERTIES EntranceSettles EveryFrameAnswered
CHECK_DEADLOCK FALSE
