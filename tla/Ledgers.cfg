\* Three PPLNS blocks, two group blocks with the bonus on and off; a budget that trims.
\* Two overlapping recordShare calls, crashes, rejected calls and the migration.
SPECIFICATION MCSpec
CONSTANTS
    Miner <- Miner3
    Weight <- Weight3
    Windows <- Windows3
    HasFee = TRUE
    FeeWeight = 1
    FeePercent = 20
    MinPayout = 2
    Budget = 4
    Rewards = {12}
    MaxBlocks = 3
    Creator = 1
    MinMembers = 2
    Reward = 10
    Bonuses = {0, 3}
    MaxWork = 2
    MaxGroupBlocks = 2
    Sharer = {m1, m2}
    Veteran = m1
    Caller = {c1, c2}
    BucketShares = 2
    WindowSize = 2
    RecalcEvery = 3
    MaxCounter = 4
    LegacyCounter = 1
    None = None
INVARIANTS RoundsHold GroupHolds WindowSafe
PROPERTIES DriftBounded GroupMoves WindowSteps CallEnds
CHECK_DEADLOCK FALSE
