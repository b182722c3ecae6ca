\* Three addresses, two groups, two calls in flight at a time; beside them a group
\* of a creator and a member, one share each, two blocks.
SPECIFICATION MCSpec
CONSTANTS
    a1 = a1
    a2 = a2
    a3 = a3
    g1 = g1
    g2 = g2
    None = None
    Address = {a1, a2, a3}
    Group = {g1, g2}
    Verified = {a2, a3}
    Tasks = 2
    MinActive = 2
    MaxPending = 1
    Cap = 2
    Foundings <- Scenarios
    Cases <- Rounds
    Creator = c
    Member = {m}
    r1 = r1
    r2 = r2
    Reward = {r1, r2}
    MaxShares = 1
    MaxHeight = 2
INVARIANTS MembershipHolds RoundHolds
PROPERTIES MembershipMoves BookingsStay LockComesFree
CHECK_DEADLOCK FALSE
