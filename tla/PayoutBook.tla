------------------------------- MODULE PayoutBook -------------------------------
(***************************************************************************)
(* What a payout engine promises about the blocks the pool finds: a block  *)
(* is booked at most once, only after it was found, and for the reward it  *)
(* was found with.  It does not promise that every block is booked.        *)
(***************************************************************************)
CONSTANTS Height, Reward, None

VARIABLES
    owed,       \* owed[h]: reward of the last block found at height h
    booked      \* booked[h]: reward booked for height h

Init ==
    /\ owed = [h \in Height |-> None]
    /\ booked = [h \in Height |-> None]

Find(h, r) ==
    /\ owed' = [owed EXCEPT ![h] = r]
    /\ UNCHANGED booked

Settle(h) ==
    /\ owed[h] # None /\ booked[h] = None
    /\ booked' = [booked EXCEPT ![h] = owed[h]]
    /\ UNCHANGED owed

Next == \E h \in Height : Settle(h) \/ \E r \in Reward : Find(h, r)

Spec == Init /\ [][Next]_<<owed, booked>>
===============================================================================
