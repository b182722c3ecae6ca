------------------------------- MODULE MCNotices -------------------------------
(***************************************************************************)
(* What people are told: instances of Notifications (an address's owner)   *)
(* and, beside it, of CapacityMonitor (the operator).  A behaviour is one  *)
(* case of either while the other one rests.                               *)
(***************************************************************************)
EXTENDS Notifications

CONSTANTS Groups, Loads, Hours, Reminder, Settings, Changes
VARIABLES config, load, active, state, check, left, changes, last, seen, torn, failed

monitor == <<config, load, active, state, check, left, changes, last, seen, torn, failed>>
Capacity == INSTANCE CapacityMonitor WITH todo <- changes, Cases <- Changes
ASSUME CapacityAssumption == Capacity!LoadAssumption

\* Two or three calls that compete, with a fault or an expiry beside them.
Scenarios ==
    {{},
     {<<"share", 2>>, <<"share", 3>>, <<"expire">>, <<"restart">>},
     {<<"share", 2>>, <<"reset">>, <<"share", 3>>},
     {<<"share", 2>>, <<"tick">>, <<"reset">>},
     {<<"share", 2>>, <<"fail">>, <<"restart">>, <<"configure", "up">>},
     {<<"register", "up">>, <<"unregister", "fcm">>, <<"fail">>, <<"restart">>},
     {<<"register", "fcm">>, <<"unregister all">>, <<"device">>},
     {<<"register", "up">>, <<"block">>, <<"unregister", "up">>},
     {<<"check", 1>>, <<"check", 2>>, <<"change", 2>>, <<"change", 3>>, <<"fail">>},
     {<<"check", 1>>, <<"check", 2>>, <<"change", 2>>, <<"restart">>},
     {<<"subscribe", "a">>, <<"subscribe", "c">>, <<"remove", "b">>},
     {<<"remove", "a">>, <<"remove", "b">>, <<"subscribe", "c">>, <<"fail">>}}

Usual == [mail |-> TRUE, alerts |-> TRUE, redis |-> TRUE, warning |-> 80, urgent |-> 95]
Environments ==
    {Usual, [Usual EXCEPT !.redis = FALSE]}
    \cup {[mail |-> TRUE, alerts |-> a, redis |-> TRUE, warning |-> 99, urgent |-> u] :
            a \in BOOLEAN, u \in {None, 200}}

Turns == {<<"hour", i>> : i \in 1..4}
Alerts ==
    {{}}
    \cup {Turns \cup {<<"load", "pplns", 85>>, <<"load", "pplns", 97>>, <<"load", "pplns", 10>>, f} :
            f \in {<<"fail">>, <<"restart">>}}
    \cup {Turns \cup {<<"form", "g">>, <<"load", "g", 98>>, <<"load", "pplns", 85>>,
                      <<"dissolve", "g">>, <<"fail">>}}

\* An address at rest has no subscription, so that the cron has nothing to do.
MCInit ==
    /\ Init /\ Capacity!Init
    /\ todo = {} <=> changes # {}
    /\ todo = {} => ~HasRows
    /\ changes = {} => config = Capacity!Configured(Usual)
MCNext ==
    \/ Next /\ UNCHANGED monitor
    \/ Capacity!Next /\ UNCHANGED vars

MCSpec == MCInit /\ [][MCNext]_<<vars, monitor>> /\ Fairness

-------------------------------------------------------------------------------
\* The best difficulty is kept and its copy agrees, subscriptions are found and a chat
\* has one default, and a rise is pushed at most once: except after the races named.
NotificationsHold == BestIsKept /\ SubscriptionsSound /\ PushedOnce

\* A change of the network's difficulty is not forgotten before it went out, and the
\* best-difficulty tracker ends up at the persisted best.
ChangesAreTold == NetworkChangeIsTold /\ TrackerCatchesUp

\* After a check the operator's last mail about a bucket fits what the check found.
CapacityIsTold == Capacity!CapacityIsTold
===============================================================================
