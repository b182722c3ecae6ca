------------------------------ MODULE PplnsRounds ------------------------------
(***************************************************************************)
(* The PPLNS ledger over a run of blocks with nothing in between: each     *)
(* block builds its distribution from the current window and balances      *)
(* (PplnsService.buildDistribution) and books it whole                     *)
(* (PplnsService.applyDistribution); the dust sweep cancels abandoned      *)
(* credits against abandoned debits one transaction at a time.             *)
(*                                                                         *)
(* PplnsEngine takes the same steps apart; here they are atomic, so what   *)
(* fails here fails in the arithmetic and not in a race.                   *)
(* (Variants named _Faulty: see CoinbaseDistribution.)                     *)
(***************************************************************************)
EXTENDS CoinbaseDistribution

CONSTANTS
    Windows,        \* share windows a block can be found with
    Rewards,        \* block rewards
    MaxBlocks       \* bound on the length of a run

ASSUME RoundsAssumption ==
    /\ Windows \subseteq [Miner -> Nat]
    /\ Rewards \subseteq Nat \ {0}
    /\ MaxBlocks \in Nat
    /\ Miner # {}

VARIABLES
    bal,        \* pplns_balance.balanceSats
    paid,       \* pplns_balance.totalPaidSats, kept across row deletion
    earned,     \* fair shares credited by booked blocks
    swept,      \* signed sats cancelled by the dust sweep
    blocks,     \* blocks booked so far
    last        \* input and distribution of the last block

vars == <<bal, paid, earned, swept, blocks, last>>

InputOf(window, reward) ==
    [shares |-> window, bal |-> bal, reward |-> reward, bonus |-> 0,
     finder |-> CHOOSE m \in Miner : TRUE, suppress |-> FALSE]

Idle == InputOf(Zero, 0)

Init ==
    /\ bal = Zero /\ paid = Zero /\ earned = Zero /\ swept = Zero
    /\ blocks = 0
    /\ last = [in |-> [Idle EXCEPT !.bal = Zero],
               out |-> [outcome |-> "none", fee |-> 0, bonus |-> 0,
                        onChain |-> Zero, after |-> Zero]]

\* totalPaidSats += sats, for the outputs that are emitted.
PaidAfter_Faulty(out) == [m \in Miner |-> paid[m] + out.after[m]]
PaidAfter(out) == [m \in Miner |-> paid[m] + Max({out.onChain[m], 0})]

\* balanceSats = balanceAfter.get(addr), an absolute write.
BalanceAfter_Faulty(out) == [m \in Miner |-> bal[m] + out.after[m]]
BalanceAfter(out) == out.after

\* applyDistribution: absolute balance writes, totalPaidSats += sats for every
\* output, for a distribution built from the same balances.
Book(window, reward) ==
    /\ blocks < MaxBlocks
    /\ LET in  == InputOf(window, reward)
           out == Distribute(in)
           raw == IF out.outcome \in {"split", "undershoot"} THEN RawFair(in) ELSE Zero
       IN  /\ last'   = [in |-> in, out |-> out]
           /\ bal'    = BalanceAfter(out)
           /\ paid'   = PaidAfter(out)
           /\ earned' = [m \in Miner |-> earned[m] + raw[m]]
    /\ blocks' = blocks + 1
    /\ UNCHANGED swept

SweepPair_Faulty(c, d) ==   \* the debit row is left alone
    /\ bal[c] > 0 /\ bal[d] < 0
    /\ LET amount == Min({bal[c], -bal[d]})
       IN  /\ bal'   = [bal EXCEPT ![c] = @ - amount]
           /\ swept' = [swept EXCEPT ![c] = @ + amount]
    /\ UNCHANGED <<paid, earned, blocks, last>>

\* sweepPplnsPairs, one transaction: which rows are dormant is the clock's
\* choice, so any credit may meet any debit.
SweepPair(c, d) ==
    /\ bal[c] > 0 /\ bal[d] < 0
    /\ LET amount == Min({bal[c], -bal[d]})
       IN  /\ bal'   = [bal EXCEPT ![c] = @ - amount, ![d] = @ + amount]
           /\ swept' = [swept EXCEPT ![c] = @ + amount, ![d] = @ - amount]
    /\ UNCHANGED <<paid, earned, blocks, last>>

Next ==
    \/ \E w \in Windows, r \in Rewards : Book(w, r)
    \/ \E c, d \in Miner : SweepPair(c, d)

Spec == Init /\ [][Next]_vars

-------------------------------------------------------------------------------
\* Type invariant: balances and sweeps are signed, everything else counts up.
TypeOK ==
    /\ bal \in [Miner -> Int] /\ paid \in [Miner -> Nat]
    /\ earned \in [Miner -> Nat] /\ swept \in [Miner -> Int]
    /\ blocks \in 0..MaxBlocks
    /\ last.in.reward \in Nat /\ last.out.fee \in Int

\* A miner's fair share is paid, owed or swept and never anything else, through
\* every trim, top-up, solvency cut and sweep of the run: "Block B miners do NOT
\* pay for Block A's trimmed miners".
ClaimsKept ==
    \A m \in Miner : earned[m] = paid[m] + bal[m] + swept[m]

\* The coinbase never claims more than the block pays (bad-cb-amount), whatever
\* debts were abandoned in earlier blocks.  With a miner of this window among the
\* outputs nothing is left unclaimed either: trim redistribution, solvency cut and
\* residuum close the gap exactly.
FullyClaimed ==
    /\ Emitted(last.out) <= last.in.reward
    /\ last.out.outcome = "split" => Emitted(last.out) = last.in.reward

\* A miner that worked for this block and has an output is paid at least its
\* fair share less what it owes itself: the solvency cut takes old credit only.
WorkIsPaid ==
    last.out.outcome = "split" =>
        \A m \in Active(last.in) :
            last.out.onChain[m] > 0 =>
                last.out.onChain[m] >= RawFair(last.in)[m] + Min({0, last.in.bal[m]})

\* The outputs of a split fit the weight budget with the fee and bonus outputs.
FitsBudget ==
    last.out.outcome = "split" =>
        FixedWeight(last.in)
            + SumFunctionOnSet(Weight, {m \in Miner : last.out.onChain[m] > 0})
        <= Budget

\* A block that is split moves the sum of the ledger down, by less than one
\* satoshi per miner of the window; a sweep does not move it.
DriftPerStep ==
    LET delta == SumFunction(bal') - SumFunction(bal)
    IN  IF blocks' = blocks THEN delta = 0
        ELSE last'.out.outcome = "split" =>
                 /\ delta <= 0
                 /\ delta > -Cardinality(Active(last'.in))
DriftBounded == [][DriftPerStep]_vars

-------------------------------------------------------------------------------
(* What the comments of coinbase-distribution.ts say and the code does not do. *)

\* "Mathematically impossible: overshoot > 0 => sum(kept.balance_old) > 0 =>
\* there must exist at least one credit-claimer with enough balance."
OvershootIsCovered == last.out.outcome # "too little credit"
===============================================================================
