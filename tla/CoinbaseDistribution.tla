------------------------- MODULE CoinbaseDistribution -------------------------
(***************************************************************************)
(* The coinbase split shared by the PPLNS and Group-Solo engines:          *)
(* buildCoinbaseDistribution of services/coinbase-distribution.ts.         *)
(*                                                                         *)
(* A pure function of the share window, the signed ledger and the block    *)
(* reward.  Each phase of the source is one operator; Distribute chains    *)
(* them in the order of the code, with its three fee-100% exits.           *)
(*                                                                         *)
(* Satoshis are integers.  The float product floor(ratio * reward) is the  *)
(* integer quotient; the double it stands for can be one satoshi lower.    *)
(* An address is a natural number: its value is its position in the share  *)
(* Map, which is what the stable sorts fall back on.                       *)
(*                                                                         *)
(* An operator whose name ends in _Faulty or _FaultyN is a broken variant  *)
(* of the definition below it and is used by nothing: with it in place of  *)
(* that definition some property fails.                                    *)
(***************************************************************************)
EXTENDS Integers, FiniteSets, Functions, FiniteSetsExt

CONSTANTS
    Miner,          \* addresses that can be in the window or the ledger
    Weight,         \* Weight[m]: coinbase output weight of m's address type
    HasFee,         \* feeAddress is configured
    FeeWeight,      \* output weight of the fee address
    FeePercent,     \* feePercent, a whole number of percent
    MinPayout,      \* minPayout, at least the dust limit
    Budget          \* weight budget less base, commitment and safety margin

ASSUME CoinbaseAssumption ==
    /\ Miner \subseteq Nat /\ IsFiniteSet(Miner)
    /\ Weight \in [Miner -> Nat]
    /\ HasFee \in BOOLEAN
    /\ FeeWeight \in Nat
    /\ FeePercent \in 0..100
    /\ MinPayout \in Nat \ {0}
    /\ Budget \in Int

-------------------------------------------------------------------------------
\* Inputs: shares[m] = 0 when m is not in addressShares, bal[m] = 0 when m has
\* no open balance; finder is a miner, bonus = 0 switches the finder bonus off.
Input == [shares : [Miner -> Nat], bal : [Miner -> Int], reward : Nat,
          bonus : Nat, finder : Miner, suppress : BOOLEAN]

Zero == [m \in Miner |-> 0]
Active(in) == {m \in Miner : in.shares[m] > 0}

\* The fee is taken only when it will be emitted.
FeeSats(in) ==
    LET want == (FeePercent * in.reward) \div 100
    IN  IF HasFee /\ want >= MinPayout THEN want ELSE 0

\* The finder bonus, capped at 95% of what is left and dropped below MinPayout.
BonusSats(in) ==
    LET capped == Min({in.bonus, ((in.reward - FeeSats(in)) * 95) \div 100})
    IN  IF capped >= MinPayout THEN capped ELSE 0

RewardForMiners(in) == in.reward - FeeSats(in) - BonusSats(in)

\* Phases 1 and 2.
RawFair(in) ==
    LET total == SumFunction(in.shares)
        pot   == RewardForMiners(in)
    IN  [m \in Miner |-> (in.shares[m] * pot) \div total]

Target(in) ==
    LET raw == RawFair(in) IN [m \in Miner |-> raw[m] + in.bal[m]]

Eligible(target) == {m \in Miner : target[m] >= MinPayout}

\* eligibleList.sort: largest target first; ties keep the insertion order of
\* the computations Map, active miners before pending-only ones.
Precedes(in, target, a, b) ==
    \/ target[a] > target[b]
    \/ /\ target[a] = target[b]
       /\ \/ in.shares[a] > 0 /\ in.shares[b] = 0
          \/ (in.shares[a] > 0 <=> in.shares[b] > 0) /\ a < b

FixedWeight(in) ==
    (IF FeeSats(in) > 0 THEN FeeWeight ELSE 0)
        + (IF BonusSats(in) > 0 THEN Weight[in.finder] ELSE 0)

Kept_Faulty(in, target) ==  \* the fee and bonus outputs weigh nothing
    CHOOSE K \in SUBSET Eligible(target) :
        \A m \in Eligible(target) :
            m \in K <=>
              Weight[m] + SumFunctionOnSet(Weight, {k \in K : Precedes(in, target, k, m)})
              <= Budget

\* Phase 4: the greedy trim keeps a miner iff it fits on top of the miners
\* kept before it, and goes on past the first that does not.
Kept(in, target) ==
    CHOOSE K \in SUBSET Eligible(target) :
        \A m \in Eligible(target) :
            m \in K <=>
              FixedWeight(in) + Weight[m]
                + SumFunctionOnSet(Weight, {k \in K : Precedes(in, target, k, m)})
              <= Budget

\* The first miner with the most shares, in the order of the kept list.
Biggest(in, target, S) ==
    CHOOSE m \in S : \A k \in S \ {m} :
        \/ in.shares[m] > in.shares[k]
        \/ in.shares[m] = in.shares[k] /\ Precedes(in, target, m, k)

Spread_Faulty(in, target, amount, S) ==     \* the rounding residual is dropped
    LET total == SumFunctionOnSet(in.shares, S)
    IN  IF amount <= 0 \/ total <= 0 THEN Zero
        ELSE [m \in Miner |->
                IF m \in S THEN (amount * in.shares[m]) \div total ELSE 0]

\* Phases 5a and 5b: amount over S in proportion to shares, the rounding
\* residual to the biggest.
Spread(in, target, amount, S) ==
    LET total == SumFunctionOnSet(in.shares, S)
        part  == [m \in Miner |->
                    IF m \in S THEN (amount * in.shares[m]) \div total ELSE 0]
        rest  == amount - SumFunction(part)
    IN  IF amount <= 0 \/ total <= 0 THEN Zero
        ELSE IF rest <= 0 THEN part
        ELSE [part EXCEPT ![Biggest(in, target, S)] = @ + rest]

\* creditClaimers.sort: the last one has the largest credit.
LastClaimer(in, target, claimers) ==
    CHOOSE m \in claimers : \A k \in claimers \ {m} :
        \/ in.bal[k] < in.bal[m]
        \/ in.bal[k] = in.bal[m] /\ Precedes(in, target, k, m)

SolvencyCut_Faulty(in, target, claimers, over) ==   \* in proportion to the output
    LET sum  == SumFunctionOnSet(target, claimers)
        last == LastClaimer(in, target, claimers)
        part == [m \in Miner |->
                   IF m \in claimers \ {last} THEN (over * target[m]) \div sum ELSE 0]
    IN  IF over <= 0 \/ claimers = {} THEN Zero
        ELSE [part EXCEPT ![last] = over - SumFunction(part)]

\* Phase 5a.5: what each credit claimer gives up when the outputs overshoot the
\* reward by over; the claimer sorted last takes the rounding.
SolvencyCut(in, target, claimers, over) ==
    LET credit == SumFunctionOnSet(in.bal, claimers)
        last   == LastClaimer(in, target, claimers)
        part   == [m \in Miner |->
                     IF m \in claimers \ {last}
                     THEN Min({(over * in.bal[m]) \div credit, in.bal[m]}) ELSE 0]
    IN  IF over <= 0 \/ claimers = {} \/ credit < over THEN Zero
        ELSE [part EXCEPT ![last] = Min({over - SumFunction(part), in.bal[last]})]

\* The fee-100% exits: nothing for the miners, the ledger untouched.
FeeOnly(in, why) ==
    [outcome |-> why, fee |-> IF HasFee THEN in.reward ELSE 0, bonus |-> 0,
     onChain |-> Zero, after |-> in.bal]

\* Phase 5a: outputs before the solvency cap.  Sats trimmed from active miners
\* go to the kept active ones, or to the fee when matching debits are suppressed.
Preliminary(in, target, kept) ==
    LET active  == kept \cap Active(in)
        trimmed == SumFunctionOnSet(target, (Eligible(target) \ kept) \cap Active(in))
        bonus   == IF in.suppress THEN Zero ELSE Spread(in, target, trimmed, active)
    IN  [target |-> target, kept |-> kept, active |-> active,
         trimFee |-> IF in.suppress THEN trimmed ELSE 0,
         trimBonus |-> bonus,
         sats |-> [m \in Miner |-> IF m \in kept THEN target[m] + bonus[m] ELSE 0]]

Overshoot(in, p) == SumFunction(p.sats) - RewardForMiners(in)
Claimers(in, p) == {m \in p.kept : in.bal[m] > 0}

TopUp_Faulty(in, p, residuum) ==    \* debits are made in a group as well
    Spread(in, p.target, residuum, p.active)

\* Phase 5b: the residuum to the kept active miners, who will owe it.
TopUp(in, p, residuum) ==
    IF in.suppress THEN Zero ELSE Spread(in, p.target, residuum, p.active)

FeeTotal_Faulty(in, p, residuum) ==     \* the trimmed sats go nowhere
    FeeSats(in) + (IF in.suppress /\ FeeSats(in) > 0 THEN Max({residuum, 0}) ELSE 0)

\* With suppressed debits the fee output takes the trimmed sats and the residuum.
FeeTotal(in, p, residuum) ==
    FeeSats(in) + (IF in.suppress /\ FeeSats(in) > 0
                   THEN p.trimFee + Max({residuum, 0}) ELSE 0)

\* Phase 6: the outputs and the ledger after them; claimers gave up cut.
Settle(in, p, cut, topUp, fee) ==
    LET onChain == [m \in Miner |-> p.sats[m] - cut[m] + topUp[m]]
        nobody  == fee = 0 /\ BonusSats(in) = 0 /\ \A m \in p.kept : onChain[m] <= 0
    IN  [outcome |-> IF p.active = {} THEN "undershoot" ELSE "split",
         fee     |-> IF nobody /\ HasFee THEN in.reward ELSE fee,
         bonus   |-> BonusSats(in), onChain |-> onChain,
         after   |-> [m \in Miner |-> IF m \in p.kept
                                     THEN cut[m] - p.trimBonus[m] - topUp[m]
                                     ELSE p.target[m]]]

\* The solvency exits in the order of the code.
Solve(in, p, over, cut) ==
    LET residuum == SumFunction(cut) - over - p.trimFee
    IN  IF over > 0 /\ SumFunctionOnSet(in.bal, Claimers(in, p)) < over
        THEN FeeOnly(in, "too little credit")
        ELSE IF over > SumFunction(cut) THEN FeeOnly(in, "clamp residual")
        ELSE IF residuum < 0 THEN FeeOnly(in, "negative residuum")
        ELSE Settle(in, p, cut, TopUp(in, p, residuum), FeeTotal(in, p, residuum))

Cap(in, p, over) ==
    Solve(in, p, over, SolvencyCut(in, p.target, Claimers(in, p), over))

Trim(in, target) ==
    LET p == Preliminary(in, target, Kept(in, target))
    IN  Cap(in, p, Overshoot(in, p))

Distribute(in) ==
    IF Active(in) = {} THEN FeeOnly(in, "no shares") ELSE Trim(in, Target(in))

\* What the coinbase claims in all: outputs of zero or less are not emitted.
Emitted(d) ==
    d.fee + d.bonus
      + SumFunctionOnSet(d.onChain, {m \in Miner : d.onChain[m] > 0})
===============================================================================
