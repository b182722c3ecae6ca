----------------------------- MODULE Notifications -----------------------------
(***************************************************************************)
(* What one address's owner is told: the best difficulty with its Redis    *)
(* copy and the tracker the push cron compares it with                     *)
(* (AddressSettingsCacheService, BestDifficultyTrackerService), the push   *)
(* subscriptions with their presence cache (PushSubscriptionService), the  *)
(* network difficulty, and the addresses of one Telegram chat              *)
(* (TelegramSubscriptionsService).  Every await is a step.                 *)
(*                                                                         *)
(* Texts, preferences other than on/off per kind, and delivery itself are  *)
(* abstracted: a send is attempted once, an endpoint that refuses it is    *)
(* logged and not tried again, and what comes back is only whether the     *)
(* token still exists.  The address has its settings: one without is       *)
(* skipped by the cron until its first share makes them.                   *)
(***************************************************************************)
EXTENDS Integers, FiniteSets

CONSTANTS
    Slot,           \* bound: calls in flight beside the cron
    Value,          \* difficulties; 0 is the reset best
    Cases,          \* bound: the calls and faults of a behaviour, each once
    None            \* no value

ASSUME SlotAssumption == Slot \subseteq Nat \ {0}
ASSUME ValueAssumption == {0, 1} \subseteq Value /\ Value \subseteq Nat
ASSUME NoneAssumption ==
    /\ None \notin Nat
    /\ None \notin {"share", "reset", "best", "device", "block", "network", "register",
                     "unregister", "subscribe", "remove"}
    /\ None \notin {"present", "up", "fcm", "delete", "count", "mark", "delete all", "drop", "enter"}

Cron     == 0       \* the minutely checkBestDifficulty
Task     == Slot \cup {Cron}
Endpoint == {"up", "fcm"}
Kind     == {"best", "device", "block", "network"}

VARIABLES
    best,       \* Postgres: address_settings.bestDifficulty
    redis,      \* Redis: addrSettings:v2:<address>
    tracker,    \* Postgres: best_difficulty_tracker
    row,        \* Postgres: push_subscription, the kinds each endpoint wants
    present,    \* addressesWithSubscriptions has the address
    ready,      \* cacheReady
    net,        \* the network's difficulty
    netTracker, \* Postgres: network_difficulty_tracker.currentDifficulty
    chat,       \* Postgres: telegram_subscriptions of one chat
    task,       \* task[t]: a call, cron run or event handler in flight
    todo,       \* what is left of the case
    high,       \* ghost: highest difficulty judged since the last reset
    told,       \* ghost: attempts to push a value to an endpoint since it last became the best
    netTold,    \* ghost: network difficulties whose sending was tried for everyone
    races       \* ghost: kinds of calls that have overlapped or died midway

bests == <<best, redis, tracker, high>>
subs  == <<row, present, ready>>
nets  == <<net, netTracker, netTold>>
vars  == <<bests, subs, nets, chat, task, todo, told, races>>

Idle == [op |-> None, pc |-> None, v |-> None, seen |-> None]

HasRows == \E e \in Endpoint : row[e] # None
Wants(e, kind) == row[e] # None /\ kind \in row[e]

\* hasAnySubscription: until the cache is loaded everyone may have one.
HasAny == ready => present

\* The case has a call of this kind; what no call of the case looks at starts
\* with one value.
Has(op) == \E c \in todo : c[1] = op

Init ==
    /\ todo \in Cases
    /\ best = 1 /\ tracker = 1 /\ high = 1
    /\ redis \in (IF Has("share") THEN {None, 1} ELSE {1})
    /\ row \in [Endpoint -> IF Has("share") THEN {Kind} ELSE {Kind, None}]
    /\ present = HasRows /\ ready = TRUE
    /\ net = 1 /\ netTracker \in (IF Has("check") THEN {None, 1} ELSE {1})
    /\ netTold = {}
    /\ chat = {[addr |-> "a", dflt |-> FALSE], [addr |-> "b", dflt |-> TRUE]}
    /\ task = [t \in Task |-> Idle]
    /\ told = [e \in Endpoint |-> [v \in Value |-> 0]] /\ races = {}

At(t, op, pc) == task[t].op = op /\ task[t].pc = pc
Go(t, pc)     == task' = [task EXCEPT ![t].pc = pc]
End(t)        == task' = [task EXCEPT ![t] = Idle]
InFlight(ops) == \E t \in Task : task[t].op \in ops

\* What a call that starts now overlaps with.
Clash(op) ==
    (IF op \in {"share", "reset"} /\ InFlight({"share", "reset"}) THEN {"best"} ELSE {})
    \cup
    (IF \/ op = "best" /\ InFlight({"best", "reset"})
        \/ op = "reset" /\ InFlight({"best", "share", "reset"})
        \/ op = "share" /\ InFlight({"reset"})
     THEN {"push"} ELSE {})
    \cup
    (IF \/ op = "subscribe" /\ InFlight({"subscribe", "remove"})
        \/ op = "remove" /\ InFlight({"subscribe"})
     THEN {"chat"} ELSE {})
    \cup
    (IF op = "remove" /\ InFlight({"remove"}) THEN {"remove"} ELSE {})

Start(t, op, pc, v) ==
    /\ task[t] = Idle
    /\ \A s \in Slot : s < t => task[s] # Idle
    /\ task' = [task EXCEPT ![t] = [op |-> op, pc |-> pc, v |-> v, seen |-> None]]
    /\ races' = races \cup Clash(op)

Take(c) == c \in todo /\ todo' = todo \ {c}

-------------------------------------------------------------------------------
(* The best difficulty: every accepted share, and the reset. *)

\* shouldUpdateBestDifficulty, once the share has been credited.
Share(t, v) ==
    /\ Take(<<"share", v>>) /\ Start(t, "share", "cached", v)
    /\ UNCHANGED <<bests, subs, nets, chat, told>>

Higher(v, old) == v > old

Judge(t, old) ==
    /\ high' = IF task[t].v > high THEN task[t].v ELSE high
    /\ task' = [task EXCEPT ![t] = IF Higher(@.v, old)
                                   THEN [@ EXCEPT !.pc = "announce"] ELSE Idle]

Lookup(t) ==
    /\ At(t, "share", "cached")
    /\ IF redis # None THEN Judge(t, redis) ELSE Go(t, "load") /\ UNCHANGED high
    /\ UNCHANGED <<best, redis, tracker, subs, nets, chat, todo, told, races>>

\* ensure, on a miss: Postgres is read, then Redis is written.
Load(t) ==
    /\ At(t, "share", "load")
    /\ task' = [task EXCEPT ![t].pc = "fill", ![t].seen = best]
    /\ UNCHANGED <<bests, subs, nets, chat, todo, told, races>>

Fill(t) ==
    /\ At(t, "share", "fill")
    /\ redis' = task[t].seen /\ Judge(t, task[t].seen)
    /\ UNCHANGED <<best, tracker, subs, nets, chat, todo, told, races>>

\* notifySubscribersBestDiff, awaited before anything is stored.
Announce(t) ==
    /\ At(t, "share", "announce")
    /\ Go(t, "save")
    /\ UNCHANGED <<bests, subs, nets, chat, todo, told, races>>

\* An absolute write; a value that becomes the best anew may be pushed again.
Save(t) ==
    LET v == task[t].v
    IN  /\ At(t, "share", "save")
        /\ best' = v /\ Go(t, "publish")
        /\ told' = IF v # best THEN [e \in Endpoint |-> [told[e] EXCEPT ![v] = 0]] ELSE told
        /\ UNCHANGED <<redis, tracker, high, subs, nets, chat, todo, races>>

Published_Faulty(v) == redis        \* the copy is left to expire
Published(v) == v

Publish(t) ==
    /\ At(t, "share", "publish")
    /\ redis' = Published(task[t].v) /\ End(t)
    /\ UNCHANGED <<best, tracker, high, subs, nets, chat, todo, told, races>>

\* The hour of the Redis copy is over.
Expire ==
    /\ Take(<<"expire">>) /\ redis' = None
    /\ UNCHANGED <<best, tracker, high, subs, nets, chat, task, told, races>>

\* /bestdiff_reset of either bot and POST :address/reset: the V1 service and the
\* V2 service each clear the Redis copy, then settings and tracker go to zero.
Reset(t) ==
    /\ Take(<<"reset">>) /\ Start(t, "reset", "v1", 0)
    /\ UNCHANGED <<bests, subs, nets, chat, told>>

ResetService(t) ==
    /\ task[t].op = "reset" /\ task[t].pc \in {"v1", "v2"}
    /\ redis' = None
    /\ Go(t, IF task[t].pc = "v1" THEN "v2" ELSE "settings")
    /\ UNCHANGED <<best, tracker, high, subs, nets, chat, todo, told, races>>

ResetSettings(t) ==
    /\ At(t, "reset", "settings")
    /\ best' = 0 /\ high' = 0 /\ Go(t, "tracker")
    /\ UNCHANGED <<redis, tracker, subs, nets, chat, todo, told, races>>

ResetTracker(t) ==
    /\ At(t, "reset", "tracker")
    /\ tracker' = IF tracker = None THEN None ELSE 0
    /\ End(t)
    /\ UNCHANGED <<best, redis, high, subs, nets, chat, todo, told, races>>

-------------------------------------------------------------------------------
(* checkBestDifficulty. *)

\* Addresses come from the presence cache, from the table while it is not ready.
Watched == IF ready THEN present ELSE HasRows

Tick(t) ==
    /\ Watched
    /\ Start(t, "best", "read", None)
    /\ UNCHANGED <<bests, subs, nets, chat, todo, told>>

\* A run that starts before the last one is over.
TickAgain(t) ==
    /\ Take(<<"tick">>) /\ Watched
    /\ Start(t, "best", "read", None)
    /\ UNCHANGED <<bests, subs, nets, chat, told>>

\* The two bulk reads run in parallel; the later one decides.  No tracker: it is
\* set up in silence.  A lower value is followed in silence.
Synced_Faulty(s) == s.seen = None \/ s.v > s.seen   \* a drop is not followed
Synced(s) == s.seen = None \/ s.v # s.seen

Decide(t, s) ==
    task' = [task EXCEPT ![t] = IF Synced(s) THEN [s EXCEPT !.pc = "upsert"] ELSE Idle]

ReadBest(t) ==
    /\ task[t].op = "best" /\ task[t].pc \in {"read", "settings"}
    /\ IF task[t].pc = "settings"
       THEN Decide(t, [task[t] EXCEPT !.v = best])
       ELSE task' = [task EXCEPT ![t].v = best, ![t].pc = "tracker"]
    /\ UNCHANGED <<bests, subs, nets, chat, todo, told, races>>

ReadTracker(t) ==
    /\ task[t].op = "best" /\ task[t].pc \in {"read", "tracker"}
    /\ IF task[t].pc = "tracker"
       THEN Decide(t, [task[t] EXCEPT !.seen = tracker])
       ELSE task' = [task EXCEPT ![t].seen = tracker, ![t].pc = "settings"]
    /\ UNCHANGED <<bests, subs, nets, chat, todo, told, races>>

\* updateTrackersBulk, before the first notification goes out.
Upsert_Faulty(t) ==                 \* left until the run has sent them
    /\ At(t, "best", "upsert")
    /\ tracker' = IF task[t].seen # None /\ task[t].v > task[t].seen THEN tracker ELSE task[t].v
    /\ IF task[t].seen # None /\ task[t].v > task[t].seen THEN Go(t, "present") ELSE End(t)
    /\ UNCHANGED <<best, redis, high, subs, nets, chat, todo, told, races>>

Upsert(t) ==
    /\ At(t, "best", "upsert")
    /\ tracker' = task[t].v
    /\ IF task[t].seen # None /\ task[t].v > task[t].seen THEN Go(t, "present") ELSE End(t)
    /\ UNCHANGED <<best, redis, high, subs, nets, chat, todo, told, races>>

-------------------------------------------------------------------------------
(* Sending to the subscriptions: the best-difficulty run, a device that comes or *)
(* goes, a block, a change of the network difficulty.                            *)

DeviceChanged(t) ==
    /\ Take(<<"device">>) /\ Start(t, "device", "present", None)
    /\ UNCHANGED <<bests, subs, nets, chat, told>>

BlockFound(t) ==
    /\ Take(<<"block">>) /\ Start(t, "block", "present", None)
    /\ UNCHANGED <<bests, subs, nets, chat, told>>

Present(t) ==
    /\ task[t].pc = "present"
    /\ IF HasAny THEN Go(t, "up") ELSE End(t)
    /\ UNCHANGED <<bests, subs, nets, chat, todo, told, races>>

\* One attempt for each endpoint that wants it; a refusal is swallowed, so that it
\* counts as an attempt like any other.
Sent(e, s) ==
    IF s.op = "best" /\ Wants(e, "best") THEN [told EXCEPT ![e][s.v] = @ + 1] ELSE told

SendUp(t) ==
    /\ task[t].pc = "up"
    /\ told' = Sent("up", task[t]) /\ Go(t, "fcm")
    /\ UNCHANGED <<bests, subs, nets, chat, todo, races>>

\* Only the network difficulty has something left to store once all is sent.
Done(t) ==
    IF task[t].op = "network"
    THEN Go(t, "shift") /\ netTold' = netTold \cup {task[t].v}
    ELSE End(t) /\ UNCHANGED netTold

\* A token that Firebase no longer knows is deleted on the spot.
SendFcm(t) ==
    /\ task[t].pc = "fcm"
    /\ \/ /\ told' = Sent("fcm", task[t]) /\ Done(t)
       \/ /\ Wants("fcm", task[t].op)
          /\ Go(t, "delete") /\ UNCHANGED <<told, netTold>>
    /\ UNCHANGED <<bests, subs, net, netTracker, chat, todo, races>>

-------------------------------------------------------------------------------
(* The network difficulty. *)

Change(n) ==
    /\ Take(<<"change", n>>) /\ net' = n
    /\ UNCHANGED <<bests, subs, netTracker, netTold, chat, task, told, races>>

\* The ten-minute cron has its value from mempool.space.
CheckNetwork(t) ==
    /\ \E i \in 1..2 : Take(<<"check", i>>)
    /\ Start(t, "network", "track", net)
    /\ UNCHANGED <<bests, subs, nets, chat, told>>

ReadNetwork_Faulty(t) ==            \* the tracker moves on first, the sends follow
    /\ At(t, "network", "track")
    /\ CASE netTracker = None         -> Go(t, "init")
         [] netTracker = task[t].v    -> End(t)
         [] OTHER                     -> Go(t, "shift")
    /\ UNCHANGED <<bests, subs, nets, chat, todo, told, races>>

ReadNetwork(t) ==
    /\ At(t, "network", "track")
    /\ CASE netTracker = None         -> Go(t, "init")
         [] netTracker = task[t].v    -> End(t)
         [] OTHER                     -> Go(t, "up")
    /\ UNCHANGED <<bests, subs, nets, chat, todo, told, races>>

\* updateTracker(_, false): an insert that leaves an existing row's value alone.
InitNetwork(t) ==
    /\ At(t, "network", "init")
    /\ netTracker' = IF netTracker = None THEN task[t].v ELSE netTracker
    /\ End(t)
    /\ UNCHANGED <<bests, subs, net, netTold, chat, todo, told, races>>

\* updateTracker(_, true), after the last send.
ShiftNetwork(t) ==
    /\ At(t, "network", "shift")
    /\ netTracker' = task[t].v /\ End(t)
    /\ UNCHANGED <<bests, subs, net, netTold, chat, todo, told, races>>

-------------------------------------------------------------------------------
(* Push subscriptions. *)

\* createOrUpdate: a lookup, the save, and the address enters the cache.
Register(t, e) ==
    /\ Take(<<"register", e>>) /\ Start(t, "register", "find", e)
    /\ UNCHANGED <<bests, subs, nets, chat, told>>

Find(t) ==
    /\ At(t, "register", "find")
    /\ task' = [task EXCEPT ![t].pc = "store", ![t].seen = row[task[t].v]]
    /\ UNCHANGED <<bests, subs, nets, chat, todo, told, races>>

\* A row that was found is saved back as it was; a new one wants every kind, and
\* the unique index refuses it when the row has appeared meanwhile.
Leaving == \E t \in Task : task[t].pc = "drop" \/ (task[t].pc = "mark" /\ task[t].seen = 0)

Store(t) ==
    LET e == task[t].v
    IN  /\ At(t, "register", "store")
        /\ IF task[t].seen = None /\ row[e] # None
           THEN End(t) /\ UNCHANGED <<row, races>>
           ELSE /\ row' = [row EXCEPT ![e] = IF task[t].seen # None /\ @ # None THEN @
                                             ELSE IF task[t].seen = None THEN Kind
                                             ELSE task[t].seen]
                /\ races' = IF Leaving THEN races \cup {"row"} ELSE races
                /\ Go(t, "enter")
        /\ UNCHANGED <<bests, present, ready, nets, chat, todo, told>>

Enter(t) ==
    /\ At(t, "register", "enter")
    /\ present' = TRUE /\ End(t)
    /\ UNCHANGED <<bests, row, ready, nets, chat, todo, told, races>>

\* delete, deleteAllByType and deleteInvalidFcmToken: the row, then a count, then
\* the cache entry; deleteByAddress drops the entry without counting.
Unregister(t, e) ==
    /\ Take(<<"unregister", e>>) /\ Start(t, "unregister", "delete", e)
    /\ UNCHANGED <<bests, subs, nets, chat, told>>

UnregisterAll(t) ==
    /\ Take(<<"unregister all">>) /\ Start(t, "unregister", "delete all", None)
    /\ UNCHANGED <<bests, subs, nets, chat, told>>

\* refreshAddressInCache does nothing until the cache is ready.
Delete(t) ==
    LET e == IF task[t].op = "unregister" THEN task[t].v ELSE "fcm"
    IN  /\ task[t].pc = "delete"
        /\ row' = [row EXCEPT ![e] = None]
        /\ IF ready THEN Go(t, "count") /\ UNCHANGED netTold ELSE Done(t)
        /\ UNCHANGED <<bests, present, ready, net, netTracker, chat, todo, told, races>>

Count(t) ==
    /\ task[t].pc = "count"
    /\ task' = [task EXCEPT ![t].pc = "mark",
                            ![t].seen = Cardinality({e \in Endpoint : row[e] # None})]
    /\ UNCHANGED <<bests, subs, nets, chat, todo, told, races>>

Remaining_Faulty(n) == FALSE        \* the address leaves with its first endpoint
Remaining(n) == n > 0

Mark(t) ==
    /\ task[t].pc = "mark"
    /\ present' = Remaining(task[t].seen) /\ Done(t)
    /\ UNCHANGED <<bests, row, ready, net, netTracker, chat, todo, told, races>>

DeleteAll(t) ==
    /\ task[t].pc = "delete all"
    /\ row' = [e \in Endpoint |-> None]
    /\ Go(t, "drop")
    /\ UNCHANGED <<bests, present, ready, nets, chat, todo, told, races>>

Drop(t) ==
    /\ task[t].pc = "drop"
    /\ present' = (present /\ ~ready) /\ End(t)
    /\ UNCHANGED <<bests, row, ready, nets, chat, todo, told, races>>

\* updateNotificationPreferences: one kind is switched off.
Configure(e) ==
    /\ Take(<<"configure", e>>)
    /\ row' = [row EXCEPT ![e] = IF @ = None THEN None ELSE @ \ {"best"}]
    /\ UNCHANGED <<bests, present, ready, nets, chat, task, told, races>>

-------------------------------------------------------------------------------
(* The addresses of a Telegram chat. *)

\* /subscribe, and a tap on an address that is not the default yet.
Subscribe(t, a) ==
    /\ Take(<<"subscribe", a>>) /\ Start(t, "subscribe", "clear", a)
    /\ UNCHANGED <<bests, subs, nets, chat, told>>

ClearDefaults(t) ==
    /\ At(t, "subscribe", "clear")
    /\ chat' = {[r EXCEPT !.dflt = FALSE] : r \in chat}
    /\ Go(t, "find")
    /\ UNCHANGED <<bests, subs, nets, todo, told, races>>

FindChat(t) ==
    /\ At(t, "subscribe", "find")
    /\ Go(t, IF \E r \in chat : r.addr = task[t].v THEN "update" ELSE "insert")
    /\ UNCHANGED <<bests, subs, nets, chat, todo, told, races>>

MakeDefault(t) ==
    /\ At(t, "subscribe", "update")
    /\ chat' = {[r EXCEPT !.dflt = @ \/ r.addr = task[t].v] : r \in chat}
    /\ End(t)
    /\ UNCHANGED <<bests, subs, nets, todo, told, races>>

InsertChat(t) ==
    /\ At(t, "subscribe", "insert")
    /\ chat' = chat \cup {[addr |-> task[t].v, dflt |-> TRUE]}
    /\ End(t)
    /\ UNCHANGED <<bests, subs, nets, todo, told, races>>

\* /remove, and a tap on the bin: when the default goes, the first row left
\* takes its place.
Remove(t, a) ==
    /\ Take(<<"remove", a>>) /\ Start(t, "remove", "rows", a)
    /\ UNCHANGED <<bests, subs, nets, chat, told>>

RemoveRows(t) ==
    /\ At(t, "remove", "rows")
    /\ chat' = {r \in chat : r.addr # task[t].v}
    /\ IF chat' = chat THEN End(t) ELSE Go(t, "left")
    /\ UNCHANGED <<bests, subs, nets, todo, told, races>>

Orphaned_Faulty == FALSE            \* no default is named
Orphaned == chat # {} /\ \A r \in chat : ~r.dflt

ReadLeft(t) ==
    /\ At(t, "remove", "left")
    /\ IF Orphaned
       THEN \E r \in chat :
              task' = [task EXCEPT ![t].pc = "promote", ![t].v = r.addr]
       ELSE End(t)
    /\ UNCHANGED <<bests, subs, nets, chat, todo, told, races>>

Promote(t) ==
    /\ At(t, "remove", "promote")
    /\ chat' = {[r EXCEPT !.dflt = @ \/ r.addr = task[t].v] : r \in chat}
    /\ End(t)
    /\ UNCHANGED <<bests, subs, nets, todo, told, races>>

-------------------------------------------------------------------------------
(* Faults. *)

\* A call that dies midway leaves its share or its chat half done.
Halves(t) ==
    CASE task[t].op \in {"share", "reset"}      -> {"best", "push"}
      [] task[t].op \in {"subscribe", "remove"} -> {"chat"}
      [] OTHER                                  -> {}

\* An await is rejected and the handler with it (the cache is touched in the same
\* turn as its await resolves, so that cannot fail).  A failing count keeps the
\* address in the cache; a failing deletion of a token is caught where it is.
Fail(t) ==
    /\ task[t] # Idle /\ task[t].pc \notin {"enter", "mark", "drop"} /\ Take(<<"fail">>)
    /\ IF task[t].pc = "count" THEN present' = TRUE /\ Done(t)
       ELSE IF At(t, "network", "delete") THEN UNCHANGED present /\ Done(t)
       ELSE End(t) /\ UNCHANGED <<present, netTold>>
    /\ races' = races \cup Halves(t)
    /\ UNCHANGED <<bests, row, ready, net, netTracker, chat, told>>

\* The process comes back; the presence cache is loaded, or it is not.
Restart ==
    /\ Take(<<"restart">>)
    /\ task' = [t \in Task |-> Idle]
    /\ ready' \in BOOLEAN /\ present' = (ready' /\ HasRows)
    /\ races' = (races \ {"row"}) \cup UNION {Halves(t) : t \in Task}
    /\ UNCHANGED <<bests, row, nets, chat, told>>

-------------------------------------------------------------------------------
ShareStep(t) == Lookup(t) \/ Load(t) \/ Fill(t) \/ Announce(t) \/ Save(t) \/ Publish(t)
ResetStep(t) == ResetService(t) \/ ResetSettings(t) \/ ResetTracker(t)
BestStep(t)  == ReadBest(t) \/ ReadTracker(t) \/ Upsert(t)
SendStep(t)  == Present(t) \/ SendUp(t) \/ SendFcm(t)
NetStep(t)   == ReadNetwork(t) \/ InitNetwork(t) \/ ShiftNetwork(t)
PushStep(t)  == Find(t) \/ Store(t) \/ Enter(t) \/ Delete(t) \/ Count(t) \/ Mark(t)
                \/ DeleteAll(t) \/ Drop(t)
ChatStep(t)  == ClearDefaults(t) \/ FindChat(t) \/ MakeDefault(t) \/ InsertChat(t)
                \/ RemoveRows(t) \/ ReadLeft(t) \/ Promote(t)
Step(t) == ShareStep(t) \/ ResetStep(t) \/ BestStep(t) \/ SendStep(t) \/ NetStep(t)
           \/ PushStep(t) \/ ChatStep(t)

Call(t) ==
    \/ \E v \in Value : Share(t, v)
    \/ Reset(t) \/ TickAgain(t) \/ DeviceChanged(t) \/ BlockFound(t) \/ CheckNetwork(t)
    \/ \E e \in Endpoint : Register(t, e) \/ Unregister(t, e)
    \/ UnregisterAll(t)
    \/ \E a \in {"a", "b", "c"} : Subscribe(t, a) \/ Remove(t, a)

Next ==
    \/ \E t \in Slot : Call(t)
    \/ Tick(Cron)
    \/ \E t \in Task : Step(t) \/ Fail(t)
    \/ Expire \/ Restart
    \/ \E n \in Value : Change(n)
    \/ \E e \in Endpoint : Configure(e)

\* The scheduler fires the cron again and again, and every await settles.
Fairness == WF_vars(Tick(Cron)) /\ \A t \in Task : WF_vars(Step(t))
Spec == Init /\ [][Next]_vars /\ Fairness

-------------------------------------------------------------------------------
Quiet(ops) == ~InFlight(ops)

\* After shares and resets that did not overlap and did not die midway, through
\* expiries and restarts, Postgres holds the highest difficulty since the reset
\* and the Redis copy agrees with it, so no lower share can replace it.
BestIsKept ==
    "best" \notin races /\ Quiet({"share", "reset"}) =>
        best = high /\ redis \in {None, best}

\* An address with a subscription is never skipped: the presence cache has it
\* unless a registration was stored between a deletion and its cache update.
\* And a chat that has addresses has a default, also when two removals overlap, and
\* only one when none did, unless a subscription overlapped with another call.
PresenceCoversRows ==
    ready /\ HasRows /\ "row" \notin races /\ ~(\E t \in Task : task[t].pc = "enter")
        => present
OneDefault ==
    "chat" \notin races /\ Quiet({"subscribe", "remove"}) /\ chat # {} =>
        /\ \E r \in chat : r.dflt
        /\ "remove" \notin races => \A r, s \in chat : r.dflt /\ s.dflt => r = s
SubscriptionsSound == PresenceCoversRows /\ OneDefault

\* A rise of the best difficulty is pushed to an endpoint at most once, through
\* failures and restarts between the tracker's update and the sends; runs that
\* overlap with each other or with a reset are the exception.
PushedOnce ==
    "push" \notin races => \A e \in Endpoint, v \in Value : told[e][v] <= 1

\* The network tracker moves on only to a difficulty of which every subscription was
\* sent a notification, delivered or not: a call that fails or a restart before that
\* sends it again.
NetworkChangeIsTold ==
    [][netTracker' # netTracker /\ netTracker # None => netTracker' \in netTold]_vars

\* However resets, races and stale runs have left it, the tracker ends up at the
\* persisted best, so the next rise is seen.
TrackerCatchesUp == <>[](Watched => tracker = best)
===============================================================================
