------------------------------- MODULE MCGroups -------------------------------
(***************************************************************************)
(* Groups: GroupSolo (what the blocks of one group pay) and, beside it, an *)
(* instance of GroupMembership (who belongs to which group).  A behaviour  *)
(* is one case of either while the other one rests.                        *)
(***************************************************************************)
EXTENDS GroupSolo

CONSTANTS a1, a2, a3, g1, g2, r1, r2

CONSTANTS Address, Group, Tasks, Verified, MaxPending, Cap,
          Foundings       \* Cases of GroupMembership

VARIABLES groups, members, notes, addressCache, party, idle, armed, task, budget, reads,
          cachedAt, blame

membership == <<groups, members, notes, addressCache, party, idle, armed, task, budget,
                reads, cachedAt, blame>>

\* Rows is for the definitions of Scenarios, which is what Foundings stands for.
Rows == INSTANCE GroupMembership WITH cache <- addressCache, Cases <- {}
Membership == INSTANCE GroupMembership WITH cache <- addressCache, Cases <- Foundings

ASSUME RosterAssumption == Membership!MembershipAssumption

Events == {"create", "invite", "accept", "claim", "decline", "cancel", "open", "revoke",
           "request", "approve", "reject", "expire", "kick", "transfer", "settings",
           "dissolve", "fire", "party", "age", "idle", "fault"}
Some(n) == [e \in Events |-> IF e \in DOMAIN n THEN n[e] ELSE 0]

Founded == [Rows!NewGroup(a1) EXCEPT !.public = TRUE]
Of(group) == [g \in {g1} |-> group]
Both == [g \in {g1, g2} |-> IF g = g1 THEN Founded ELSE [Founded EXCEPT !.creator = a2]]
In(g, role) == [group |-> g, role |-> role]
One == [a \in Address |-> IF a = a1 THEN In(g1, "creator") ELSE Rows!NoRow]
Two == [One EXCEPT ![a2] = In(g1, "member")]
Three == [Two EXCEPT ![a3] = In(g1, "member")]
Apart == [One EXCEPT ![a2] = In(g2, "creator")]
Invited(g, a) == Rows!Note("directed", g, a, FALSE)
Asked(g, a) == Rows!Note("request", g, a, FALSE)
Link(b) == Rows!Note("link", g1, None, b)

Calls(gs, ms, ns, n) == [groups |-> gs, members |-> ms, notes |-> ns, events |-> Some(n)]
AtRest == Calls(<< >>, [a \in Address |-> Rows!NoRow], << >>, << >>)

Scenarios ==
    {AtRest,
     \* Founding, and the invitations of a new group.
     Calls(<< >>, [a \in Address |-> Rows!NoRow], << >>, [create |-> 2, invite |-> 1, fault |-> 1]),
     Calls(Of(Founded), One, << >>, [invite |-> 2, decline |-> 1, age |-> 1, accept |-> 1]),
     Calls(Of(Founded), One, <<Invited(g1, a2)>>, [invite |-> 1, transfer |-> 1, accept |-> 1]),
     \* Two come in at a time, under a cap.
     Calls(Of([Founded EXCEPT !.cap = Cap]), One, <<Invited(g1, a2), Link(FALSE)>>,
          [accept |-> 2, claim |-> 2, fault |-> 1]),
     Calls(Of(Founded), One, <<Asked(g1, a2), Invited(g1, a2), Link(TRUE)>>,
          [approve |-> 2, reject |-> 1, accept |-> 1, claim |-> 1]),
     Calls(Both, Apart, <<Invited(g1, a3), Asked(g2, a3)>>, [accept |-> 1, approve |-> 1, cancel |-> 1, decline |-> 1]),
     \* Requests, links, and their end.
     Calls(Of(Founded), One, << >>, [request |-> 2, reject |-> 1, age |-> 1, expire |-> 1]),
     Calls(Of(Founded), One, <<Link(FALSE)>>, [open |-> 2, revoke |-> 1, claim |-> 1]),
     Calls(Of(Founded), One, <<Link(FALSE), Invited(g1, a2)>>, [age |-> 2, claim |-> 1, accept |-> 1, expire |-> 1]),
     \* Removal, transfer, settings, dissolution.
     Calls(Of(Founded), Three, <<Asked(g1, a2)>>, [kick |-> 2, settings |-> 1, idle |-> 1, approve |-> 1]),
     Calls(Of(Founded), Three, << >>, [kick |-> 1, transfer |-> 1, fault |-> 1]),
     Calls(Of(Founded), Three, << >>, [transfer |-> 2, settings |-> 1]),
     Calls(Of(Founded), Two, <<Invited(g1, a3)>>, [accept |-> 1, kick |-> 1, party |-> 1]),
     Calls(Of([Founded EXCEPT !.timed = TRUE]), Two, <<Invited(g1, a3)>>,
          [dissolve |-> 1, accept |-> 1, settings |-> 1, fire |-> 1, fault |-> 1]),
     Calls(Both, [Apart EXCEPT ![a3] = In(g2, "member")], <<Invited(g1, a3)>>,
          [kick |-> 1, transfer |-> 1, accept |-> 1]),
     Calls(Of(Founded), Two, <<Invited(g1, a3)>>, [dissolve |-> 1, transfer |-> 1, accept |-> 1]),
     Calls(Of(Founded), Two, << >>, [dissolve |-> 1, transfer |-> 1, party |-> 1])}

Earning == [wipes |-> TRUE, start |-> {<<Creator, 1>>}, rewards |-> {r1}, blocks |-> 2,
            builds |-> 3, resets |-> 0, kicks |-> 0, sweeps |-> 0, faults |-> 0,
            expiries |-> 0]
Kept == [Earning EXCEPT !.wipes = FALSE, !.builds = 2]
Resting == [Earning EXCEPT !.start = (Member \cup {Creator}) \X (1..MaxShares), !.blocks = 0,
                           !.builds = 0]

\* One or two kinds of event at a time beside shares, builds and blocks.
Rounds ==
    {Resting, Earning, Kept,
     [Kept EXCEPT !.rewards = {r1, r2}],
     [Kept EXCEPT !.resets = 1, !.blocks = 1],
     [Kept EXCEPT !.resets = 1, !.blocks = 1, !.builds = 1, !.faults = 1],
     [Kept EXCEPT !.kicks = 1, !.blocks = 1, !.start = Resting.start],
     [Kept EXCEPT !.kicks = 1, !.resets = 1, !.blocks = 1, !.builds = 1],
     [Kept EXCEPT !.sweeps = 1],
     [Earning EXCEPT !.faults = 1, !.builds = 2],
     [Kept EXCEPT !.expiries = 1]}

MCInit == Init /\ Membership!Init /\ (left = Resting <=> budget # AtRest.events)
MCNext ==
    \/ Next /\ UNCHANGED membership
    \/ Membership!Next /\ UNCHANGED vars

MCSpec == MCInit /\ [][MCNext]_<<vars, membership>> /\ Fairness

-------------------------------------------------------------------------------
\* Groups keep one creator, their flag and their cap, and the cache that routes
\* shares follows the rows, except for what the named races leave behind.
MembershipHolds ==
    /\ Membership!TypeOK /\ Membership!GroupIsConsistent /\ Membership!CapHolds
    /\ Membership!CacheFollowsRows /\ Membership!OneModeAtATime

\* Nobody joins a group without both sides having said so, and a group that was
\* dissolved stays dissolved.
MembershipMoves == Membership!BothAgreed /\ Membership!DissolvedForGood
===============================================================================
