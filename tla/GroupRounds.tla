------------------------------ MODULE GroupRounds ------------------------------
(***************************************************************************)
(* A Group-Solo group over a run of blocks: the round of shares, the       *)
(* pending balances, the block bookings and the four other operations that *)
(* move sats (GroupSoloService; the dust sweep of DustSweepService).       *)
(*                                                                         *)
(* Operations are atomic and every block is found with the snapshot built  *)
(* from the current round, so what fails here fails in the arithmetic or   *)
(* in the bookkeeping and not in a race.  The fee address is not a member. *)
(* (Variants named _Faulty: see CoinbaseDistribution.)                     *)
(***************************************************************************)
EXTENDS CoinbaseDistribution

CONSTANTS
    Creator,        \* the member that cannot be kicked
    MinMembers,     \* MIN_MEMBERS_ACTIVE
    Reward,         \* block reward
    Bonuses,        \* finderBonusSats the admin can configure, 0 when unset
    MaxWork,        \* bound on a member's shares in the round
    MaxBlocks       \* bound on the blocks of a run

GroupAssumption ==
    /\ Creator \in Miner
    /\ MinMembers \in Nat /\ Reward \in Nat \ {0}
    /\ Bonuses \subseteq Nat
    /\ MaxWork \in Nat /\ MaxBlocks \in Nat

VARIABLES
    member,     \* pplns_group_member
    work,       \* the by-address hash of the round
    pending,    \* pplns_group_balance.pendingSats, 0 when there is no row
    blocks,     \* blocks found so far
    last        \* what the last step put on chain, and whether it was booked

vars == <<member, work, pending, blocks, last>>

Nothing ==
    [outcome |-> "none", fee |-> 0, bonus |-> 0, onChain |-> Zero, after |-> Zero]

InputOf(finder, bonus) ==
    [shares |-> work, bal |-> pending, reward |-> Reward, bonus |-> bonus,
     finder |-> finder, suppress |-> TRUE]

NoBlock ==
    [in |-> [shares |-> Zero, bal |-> Zero, reward |-> Reward, bonus |-> 0,
             finder |-> Creator, suppress |-> TRUE],
     out |-> Nothing, booked |-> FALSE]

Init ==
    /\ member = {Creator}
    /\ work = Zero /\ pending = Zero
    /\ blocks = 0 /\ last = NoBlock

Join(m) ==
    /\ m \notin member
    /\ member' = member \cup {m}
    /\ last' = NoBlock
    /\ UNCHANGED <<work, pending, blocks>>

\* Shares count only while the group is active.
RecordShare(m) ==
    /\ m \in member /\ Cardinality(member) >= MinMembers
    /\ work[m] < MaxWork
    /\ work' = [work EXCEPT ![m] = @ + 1]
    /\ last' = NoBlock
    /\ UNCHANGED <<member, pending, blocks>>

\* One history row per output under a unique (group, height, address): when the
\* finder has a bonus output and a share output the insert fails (23505) and the
\* transaction with it.
Rejected(finder, out) == out.bonus > 0 /\ out.onChain[finder] > 0

PendingAfter_Faulty1(out) ==     \* miners with an output keep their row
    [m \in Miner |-> IF out.onChain[m] > 0 THEN pending[m] ELSE out.after[m]]
PendingAfter_Faulty2(out) ==    \* miners with an output are taken to be settled
    [m \in Miner |-> IF out.onChain[m] > 0 THEN 0 ELSE out.after[m]]
PendingAfter(out) == out.after

\* applyDistributionTx, and the round wipe that only a committed one is followed
\* by; wipe is the group's resetRoundOnBlock.
Book(in, out, wipe) ==
    LET books  == Active(in) # {} /\ Emitted(out) > 0
        failed == books /\ Rejected(in.finder, out)
    IN  /\ last' = [in |-> in, out |-> out, booked |-> books /\ ~failed]
        /\ pending' = IF books /\ ~failed THEN PendingAfter(out) ELSE pending
        /\ work' = IF wipe /\ ~failed THEN Zero ELSE work

\* onBlockFound by the snapshot path; with an empty round, or with nothing to
\* pay, onBlockFoundFromWindow only wipes.
BlockFound(finder, bonus, wipe) ==
    /\ finder \in member /\ blocks < MaxBlocks
    /\ Book(InputOf(finder, bonus), Distribute(InputOf(finder, bonus)), wipe)
    /\ blocks' = blocks + 1
    /\ UNCHANGED member

Kick_Faulty(m) ==       \* the kicked member's row is left in place
    /\ m \in member \ {Creator}
    /\ member' = member \ {m}
    /\ work' = [work EXCEPT ![m] = 0]
    /\ LET part == pending[m] \div Cardinality(member \ {m})
       IN  pending' = [k \in Miner |->
                         pending[k] + (IF k \in member \ {m} THEN part ELSE 0)]
    /\ last' = NoBlock
    /\ UNCHANGED blocks

\* internalRemove and removeMemberState: the pending sats in equal parts to the
\* members that stay, the remainder dropped.
Kick(m) ==
    /\ m \in member \ {Creator}
    /\ member' = member \ {m}
    /\ work' = [work EXCEPT ![m] = 0]
    /\ LET part == pending[m] \div Cardinality(member \ {m})
       IN  pending' = [k \in Miner |->
                         IF k = m THEN 0
                         ELSE pending[k] + (IF k \in member THEN part ELSE 0)]
    /\ last' = NoBlock
    /\ UNCHANGED blocks

\* The round and every balance row of the group.
ScheduledRoundReset ==
    /\ work' = Zero /\ pending' = Zero
    /\ last' = NoBlock
    /\ UNCHANGED <<member, blocks>>

\* sweepGroupDust: whether the row is dormant is the clock's choice.
SweepDust(m) ==
    /\ pending[m] > 0 /\ pending[m] < MinPayout
    /\ pending' = [pending EXCEPT ![m] = 0]
    /\ last' = NoBlock
    /\ UNCHANGED <<member, work, blocks>>

Next ==
    \/ \E m \in Miner : Join(m) \/ RecordShare(m) \/ Kick(m) \/ SweepDust(m)
    \/ \E m \in Miner, b \in Bonuses, w \in BOOLEAN : BlockFound(m, b, w)
    \/ ScheduledRoundReset

Spec == Init /\ [][Next]_vars

-------------------------------------------------------------------------------
\* Type invariant; shares and balances belong to members only.
TypeOK ==
    /\ member \subseteq Miner
    /\ work \in [Miner -> 0..MaxWork] /\ pending \in [Miner -> Int]
    /\ blocks \in 0..MaxBlocks
    /\ last.booked \in BOOLEAN
    /\ \A m \in Miner \ member : work[m] = 0 /\ pending[m] = 0

\* "pendingSats is always >= 0": with the matching debits suppressed no trim,
\* residuum or solvency cut leaves a member in debt.  The one-sided dust sweep
\* and the split of a kicked member's sats depend on it.
PendingNeverNegative == \A m \in Miner : pending[m] >= 0

\* The coinbase never claims more than the block pays, finder bonus included.
\* When the fee has an output it takes whatever the members do not get, so the
\* block is claimed to the satoshi.
FullyClaimed ==
    /\ Emitted(last.out) <= Reward
    /\ last.out.outcome \in {"split", "undershoot"} /\ last.out.fee > 0 =>
           Emitted(last.out) = Reward

\* A booked block moves each member's pending sats by exactly the fair share it
\* earned less what it was paid.
ClaimsKept ==
    [][last'.booked /\ last'.out.outcome \in {"split", "undershoot"} =>
         \A m \in Miner :
             pending'[m] - pending[m] = RawFair(last'.in)[m] - last'.out.onChain[m]]_vars

\* No block lowers the pending sats of the group by more than its own rounding:
\* the share of a member below the minimum goes to the fee in the block that
\* earned it, and nothing is set aside to pay it from later.
PotIsNotPaidDown ==
    [][blocks' # blocks =>
         SumFunction(pending') >= SumFunction(pending) - Cardinality(Active(last'.in))]_vars

\* A kick hands on the member's pending sats, all but less than one satoshi for
\* each member that stays, and creates none.
KickKeepsPot ==
    [][~(member \subseteq member') =>
         /\ SumFunction(pending') <= SumFunction(pending)
         /\ SumFunction(pending') > SumFunction(pending) - Cardinality(member')]_vars

-------------------------------------------------------------------------------
(* What the comments and tests say and the code does not do. *)

\* "Total on-chain miner cut MUST equal R2 - fee" in the history rows: what the
\* block paid is what is booked.
CoinbaseIsBooked == last.out.outcome = "split" => last.booked
===============================================================================
