\* The snapshot against the coinbase.
SPECIFICATION Spec
CONSTANTS
    MaxHeight = 2
    Reward = {r1, r2}
    MaxShares = 2
    MaxReorgs = 0
    None = None
INVARIANT BookedAsPaid
CHECK_DEADLOCK FALSE
