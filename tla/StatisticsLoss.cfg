\* One address, one share, one crash.
SPECIFICATION FairSpec
CONSTANTS
    Address = {a1}
    MaxShares = 1
    MaxFaults = 1
    MaxErasures = 0
    Leaving = {}
    None = None
PROPERTIES NoDataLossOnCrashes
CHECK_DEADLOCK FALSE
