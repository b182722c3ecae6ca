\* A party of two: handlers that do not harm each other, failures, restarts.
SPECIFICATION Spec
CONSTANTS
    Admin = admin
    Member = {m1}
    Caller = {c1, c2}
    Percent <- Parts
    Total = 5
    Reward = 11
    FeePercent = 10
    Threshold = 5
    MaxRows = 2
    Overlap = FALSE
    Resent = {m1}
    MaxInvites = 2
    None = None
INVARIANTS PartySound PaidAsAgreed
SYMMETRY Symmetric
PROPERTIES PartySteps
