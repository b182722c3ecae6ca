\* Two addresses (two batches), with failures, a deletion, stops and crashes.
SPECIFICATION FairSpec
CONSTANTS
    Address = {a1, a2}
    MaxShares = 2
    MaxFaults = 1
    MaxErasures = 1
    Leaving = {a1}
    None = None
INVARIANTS BooksBalance FlushesComplete
PROPERTIES BacklogDrains
CHECK_DEADLOCK FALSE
