----------------------------- MODULE MCBlockparty -----------------------------
(* Instances of Blockparty: an admin and one invited member. *)
EXTENDS Blockparty

Parts == [a \in Address |-> IF a = Admin THEN {4} ELSE {1, 4}]
Symmetric == Permutations(Caller)
===============================================================================
