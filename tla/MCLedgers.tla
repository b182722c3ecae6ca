------------------------------- MODULE MCLedgers -------------------------------
(***************************************************************************)
(* The PPLNS window and the two ledgers: instances of PplnsRounds and of   *)
(* GroupRounds with the same coinbase, over a run of blocks, and of        *)
(* PplnsWindow, which the blocks of the first are paid from.  A behaviour  *)
(* is one of the three, as part says; the others rest.                     *)
(***************************************************************************)
EXTENDS PplnsRounds

CONSTANTS Creator, MinMembers, Reward, Bonuses, MaxWork, MaxGroupBlocks
VARIABLES part, member, work, pending, found, lastFound

round == <<member, work, pending, found, lastFound>>
Group ==
    INSTANCE GroupRounds WITH MaxBlocks <- MaxGroupBlocks, blocks <- found, last <- lastFound

CONSTANTS Sharer, Veteran, Caller, BucketShares, WindowSize, RecalcEvery, MaxCounter,
          LegacyCounter, None
VARIABLES counter, buckets, index, total, agg, old, boot, sized, trims, calls, past, alone

shares == <<counter, buckets, index, total, agg, old, boot, sized, trims, calls, past, alone>>
LegacyWindow == [m \in Sharer |-> IF m = Veteran THEN 1 ELSE 0]
Window == INSTANCE PplnsWindow WITH Miner <- Sharer, Legacy <- LegacyWindow

ASSUME PartsAssumption == Group!GroupAssumption /\ Window!WindowAssumption

\* Three miners, two of them with a heavy output; the budget holds two light
\* outputs, or one of each, beside the fee.
Miner3 == {1, 2, 3}
Weight3 == [m \in Miner3 |-> IF m = 1 THEN 1 ELSE 2]
Windows3 == [Miner3 -> {0, 1, 3}]

MCInit ==
    /\ part \in {"pplns", "group", "window"}
    /\ Init /\ Group!Init /\ Window!Init
    /\ part = "window" \/ counter = 0
MCNext ==
    \/ part = "pplns" /\ Next /\ UNCHANGED <<part, round, shares>>
    \/ part = "group" /\ Group!Next /\ UNCHANGED <<part, vars, shares>>
    \/ part = "window" /\ Window!Next /\ UNCHANGED <<part, vars, round>>

MCSpec == MCInit /\ [][MCNext]_<<part, vars, round, shares>> /\ Window!Fairness

-------------------------------------------------------------------------------
\* Every sat of a booked PPLNS block is paid or owed to someone with work or a credit
\* behind it, and the coinbase stays within its weight.
RoundsHold ==
    part = "pplns" => TypeOK /\ ClaimsKept /\ FullyClaimed /\ WorkIsPaid /\ FitsBudget

\* The same of a group, whose pending balances cannot go below nothing.
GroupHolds ==
    part = "group" => Group!TypeOK /\ Group!PendingNeverNegative /\ Group!FullyClaimed

\* A group's operations move claims and never lose one: blocks, sweeps, resets, and a
\* kick, which leaves the pot to those who stay.
GroupMoves == Group!ClaimsKept /\ Group!PotIsNotPaidDown /\ Group!KickKeepsPot

\* Between calls the aggregate of the window, its total and its index agree with the
\* buckets, unless a crash or a rejected call has torn them apart.
WindowSafe == part = "window" => Window!WindowSafe

\* No step of a share, a trim, a crash or the migration empties the window or swaps
\* it for another, and no trim ends above its target.
WindowSteps == Window!WindowSteps

\* Every recordShare comes to an end.
CallEnds == Window!CallEnds
===============================================================================
