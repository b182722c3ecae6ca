---------------------------- MODULE MCPplnsEngine ----------------------------
(* An instance of PplnsEngine with two blocks and their calls. *)
EXTENDS PplnsEngine

CONSTANT Usual       \* the reward of the behaviours in which blocks are orphaned

Rewards ==
    {d.reward : d \in jobs} \cup {r \in Reward : build[r] # NoBuild \/ cache[r] # None}
        \cup {calls[h].reward : h \in Height}

\* Bound: either the rewards differ, or blocks are orphaned and won again.
Scope == reorgs > 0 => Rewards \subseteq {Usual, None}
==============================================================================
