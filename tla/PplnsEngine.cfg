\* Two blocks whose rewards may differ, or that are orphaned and won again, under
\* fair scheduling.
SPECIFICATION FairSpec
CONSTANTS
    MaxHeight = 2
    Reward = {r1, r2}
    Usual = r1
    MaxShares = 1
    MaxReorgs = 1
    None = None
CONSTRAINT Scope
INVARIANTS EngineSafe LedgerBacked
PROPERTIES BookedOnce BookSpec FlagComesFree
CHECK_DEADLOCK FALSE
