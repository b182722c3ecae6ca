------------------------- MODULE StatisticsCoordinator -------------------------
(***************************************************************************)
(* The statistics of accepted and rejected shares between the Stratum      *)
(* clients and Postgres: deltas are added up in memory (utils/buffers.ts)  *)
(* and StatisticsCoordinatorService flushes them every minute.  drain      *)
(* copies a buffer without clearing it, the upsert adds the copy to the    *)
(* rows, and confirm takes it out of the buffer again.  Beside it runs the *)
(* deletion of an account's statistics (client.controller.ts).             *)
(*                                                                         *)
(* Tables: "client" (client_statistics, flushed in batches, each on its    *)
(* own, and fanned out to the workers), "address" (address_settings, an    *)
(* UPDATE that finds no row adds nothing) and "worker" (worker_shares,     *)
(* flushed after the others).  The four tables that are left out, of the   *)
(* pool and of rejected shares, are flushed as "worker" is, with nothing   *)
(* before and after.  Every share has difficulty 1, an address has one     *)
(* worker, and the time slot does not change: the buffers work key by key. *)
(*                                                                         *)
(* An operator whose name ends in _Faulty is a broken variant of the       *)
(* definition below it and is used by nothing: with it in place of that    *)
(* definition some property fails.                                         *)
(***************************************************************************)
EXTENDS Integers

CONSTANTS
    Address,
    MaxShares,      \* bound: shares, accepted and rejected
    MaxFaults,      \* bound: failed statements, crashes and stops
    MaxErasures,    \* bound: deletions of an account's statistics
    Leaving,        \* bound: addresses whose statistics are deleted
    None            \* no value

ASSUME CoordinatorAssumption ==
    /\ MaxShares \in Nat /\ MaxFaults \in Nat /\ MaxErasures \in Nat
    /\ None \notin Nat /\ Leaving \subseteq Address

Table == {"client", "address", "worker"}
Flat  == {"address", "worker"}
Amount == [acc : Int, rej : Int]
Zero   == [acc |-> 0, rej |-> 0]

VARIABLES
    buf,        \* buf[t][a]: deltas in memory
    row,        \* row[t][a]: Postgres
    listed,     \* addresses with a row in address_settings
    session,    \* session[a]: where the handler of an accepted share is
    busy,       \* isFlushing
    at,         \* at[t]: where the flush of a table is
    snap,       \* snap[t][a]: what it drained
    left,       \* batches of "client" that are not answered
    hot,        \* the one that is carried out and not answered
    ok,         \* batches of "client" that succeeded
    erase,      \* erase[a]: where the deletion of a's statistics is
    phase,      \* "up", or in app.close: "flushing" or, past it, "closing"
    used,       \* shares, faults and erasures so far
    earned,     \* ghost: earned[t][a]: what rows and buffer should hold; what a
                \* process took with it when it ended is written off
    spoiled,    \* ghost: <<table, address>> where a flush was not exact
    since,      \* ghost: used.shares when a stop began
    kept        \* ghost: its flush was not skipped and no statement of it failed

batch == <<left, hot, ok>>
flush == <<busy, at, snap, batch>>
ghost == <<earned, spoiled, since, kept>>
vars  == <<buf, row, listed, session, flush, erase, phase, used, ghost>>

FlushPC == {"idle", "sent", "applied", "fanout", "over"}
ErasePC == {"none", "worker", "client", "settings"}

Plus(x, y) == [acc |-> x.acc + y.acc, rej |-> x.rej + y.rej]
Minus(x, y) == [acc |-> x.acc - y.acc, rej |-> x.rej - y.rej]
Accepted == [acc |-> 1, rej |-> 0]
Rejected == [acc |-> 0, rej |-> 1]
Nothing  == [a \in Address |-> Zero]

Init ==
    /\ buf = [t \in Table |-> Nothing] /\ row = [t \in Table |-> Nothing]
    /\ listed = Address /\ session = [a \in Address |-> "idle"]
    /\ busy = FALSE /\ at = [t \in Table |-> "idle"]
    /\ snap = [t \in Table |-> Nothing] /\ left = {} /\ hot = {} /\ ok = {}
    /\ erase = [a \in Address |-> "none"] /\ phase = "up"
    /\ used = [shares |-> 0, faults |-> 0, erasures |-> 0]
    /\ earned = [t \in Table |-> Nothing] /\ spoiled = {} /\ since = None /\ kept = TRUE

-------------------------------------------------------------------------------
(* The buffers (utils/buffers.ts). *)

\* confirm: what is subtracted field by field goes when no field is left over
\* zero, so a field can stay below zero beside one that is above it.
Confirmed(x, s) ==
    LET d == Minus(x, s) IN IF d.acc <= 0 /\ d.rej <= 0 THEN Zero ELSE d

Drained(t) == {a \in Address : buf[t][a] # Zero}

-------------------------------------------------------------------------------
(* Shares. *)

Fault ==
    /\ used.faults < MaxFaults
    /\ used' = [used EXCEPT !.faults = @ + 1]

\* The bucket is set and not added to.
Add_Faulty(ts, a, x) ==
    /\ buf' = [t \in Table |-> IF t \in ts THEN [buf[t] EXCEPT ![a] = x] ELSE buf[t]]
    /\ earned' = [t \in Table |->
                IF t \in ts THEN [earned[t] EXCEPT ![a] = Plus(@, x)] ELSE earned[t]]

Add(ts, a, x) ==
    /\ buf' = [t \in Table |->
                IF t \in ts THEN [buf[t] EXCEPT ![a] = Plus(@, x)] ELSE buf[t]]
    /\ earned' = [t \in Table |->
                IF t \in ts THEN [earned[t] EXCEPT ![a] = Plus(@, x)] ELSE earned[t]]

Submit ==
    /\ used.shares < MaxShares
    /\ used' = [used EXCEPT !.shares = @ + 1]

\* The client's statistics are counted first, then the share is recorded with
\* the payout service.
Accept(a) ==
    /\ Submit /\ session[a] = "idle"
    /\ session' = [session EXCEPT ![a] = "recording"]
    /\ Add({"client"}, a, Accepted)
    /\ UNCHANGED <<row, listed, flush, erase, phase, spoiled, since, kept>>

\* The payout service is done: the lifetime totals are counted.
Total(a) ==
    /\ session[a] = "recording"
    /\ session' = [session EXCEPT ![a] = "idle"]
    /\ Add(Flat, a, Accepted)
    /\ UNCHANGED <<row, listed, flush, erase, phase, used, spoiled, since, kept>>

\* It throws: the handler logs it and the totals miss the share.
TotalFails(a) ==
    /\ session[a] = "recording" /\ Fault
    /\ session' = [session EXCEPT ![a] = "idle"]
    /\ UNCHANGED <<buf, row, listed, flush, erase, phase, ghost>>

Reject(a) ==
    /\ Submit
    /\ Add({"client"}, a, Rejected)
    /\ UNCHANGED <<row, listed, session, flush, erase, phase, spoiled, since, kept>>

-------------------------------------------------------------------------------
(* A flush. *)

\* The flushes of a group drain before the first of them awaits.
Drain(ts) ==
    /\ at' = [t \in Table |-> IF t \notin ts THEN at[t]
                              ELSE IF Drained(t) = {} THEN "over" ELSE "sent"]
    /\ snap' = [t \in Table |-> IF t \in ts THEN buf[t] ELSE snap[t]]

\* flushAllStatistics, past the check of isFlushing.  A flush that finds no
\* delta at all is left out: it changes nothing.
Begin ==
    /\ ~busy /\ \E t \in Table : Drained(t) # {}
    /\ busy' = TRUE
    /\ Drain({"client", "address"})
    /\ left' = Drained("client") /\ hot' = {} /\ ok' = {}

\* The minute's tick.
Tick ==
    /\ phase = "up" /\ Begin
    /\ UNCHANGED <<buf, row, listed, session, erase, phase, used, ghost>>

\* The totals of the workers come after the rest, which writes the same table.
DrainWorker ==
    /\ busy /\ at["client"] = "over" /\ at["address"] = "over" /\ at["worker"] = "idle"
    /\ Drain({"worker"})
    /\ UNCHANGED <<buf, row, listed, session, busy, batch, erase, phase, used, ghost>>

\* The upsert adds to rows; the totals of an address without a row go nowhere.
Stored(t) == IF t = "address" THEN listed ELSE Address

Hit(t, as) == {<<t, a>> : a \in {b \in as : snap[t][b] # Zero}}

Commit(t) ==
    /\ t \in Flat /\ at[t] = "sent"
    /\ at' = [at EXCEPT ![t] = "applied"]
    /\ row' = [row EXCEPT ![t] = [a \in Address |->
                IF a \in Stored(t) THEN Plus(@[a], snap[t][a]) ELSE @[a]]]
    /\ spoiled' = spoiled \cup Hit(t, Address \ Stored(t))
    /\ UNCHANGED <<buf, listed, session, busy, snap, batch, erase, phase, used, earned, since, kept>>

\* The buffer is cleared and not subtracted from.
Confirm_Faulty(t) ==
    /\ t \in Flat /\ at[t] = "applied"
    /\ at' = [at EXCEPT ![t] = "over"]
    /\ buf' = [buf EXCEPT ![t] = Nothing]
    /\ snap' = [snap EXCEPT ![t] = Nothing]
    /\ UNCHANGED <<row, listed, session, busy, batch, erase, phase, used, ghost>>

Confirm(t) ==
    /\ t \in Flat /\ at[t] = "applied"
    /\ at' = [at EXCEPT ![t] = "over"]
    /\ buf' = [buf EXCEPT ![t] = [a \in Address |-> Confirmed(@[a], snap[t][a])]]
    /\ snap' = [snap EXCEPT ![t] = Nothing]
    /\ UNCHANGED <<row, listed, session, busy, batch, erase, phase, used, ghost>>

\* The statement fails, or its answer is lost after it was carried out.  The
\* deltas stay in the buffer for the next flush either way.
Refuse(t) ==
    /\ t \in Flat /\ at[t] \in {"sent", "applied"} /\ Fault
    /\ at' = [at EXCEPT ![t] = "over"]
    /\ spoiled' = spoiled \cup IF at[t] = "applied" THEN Hit(t, Address) ELSE {}
    /\ snap' = [snap EXCEPT ![t] = Nothing]
    /\ kept' = FALSE
    /\ UNCHANGED <<buf, row, listed, session, busy, batch, erase, phase, earned, since>>

\* One batch of "client" after the other, whatever became of the last.
CommitBatch(a) ==
    /\ at["client"] = "sent" /\ a \in left /\ hot = {}
    /\ hot' = {a} /\ left' = left \ {a}
    /\ row' = [row EXCEPT !["client"][a] = Plus(@, snap["client"][a])]
    /\ UNCHANGED <<buf, listed, session, busy, at, snap, ok, erase, phase, used, ghost>>

\* When the last batch is answered, those that succeeded are confirmed together
\* and their rejected shares are sent to the workers' rows.
Answered(oks) ==
    /\ ok' = oks /\ hot' = {}
    /\ IF left' # {} THEN UNCHANGED <<buf, at>>
       ELSE /\ buf' = [buf EXCEPT !["client"] = [a \in Address |->
                        IF a \in oks THEN Confirmed(@[a], snap["client"][a]) ELSE @[a]]]
            /\ at' = [at EXCEPT !["client"] =
                        IF \E a \in oks : snap["client"][a].rej > 0 THEN "fanout" ELSE "over"]

AnswerBatch ==
    /\ at["client"] = "sent" /\ hot # {}
    /\ left' = left /\ Answered(ok \cup hot)
    /\ UNCHANGED <<row, listed, session, busy, snap, erase, phase, used, ghost>>

RefuseBatch(a) ==
    /\ at["client"] = "sent" /\ Fault
    /\ a \in IF hot = {} THEN left ELSE hot
    /\ left' = left \ {a} /\ Answered(ok)
    /\ spoiled' = spoiled \cup Hit("client", hot) /\ kept' = FALSE
    /\ UNCHANGED <<row, listed, session, busy, snap, erase, phase, earned, since>>

\* The batches that failed are fanned out as well.
FanOut_Faulty ==
    /\ at["client"] = "fanout"
    /\ at' = [at EXCEPT !["client"] = "over"]
    /\ LET rejects == [a \in Address |-> [acc |-> 0, rej |-> snap["client"][a].rej]]
       IN  /\ row' = [row EXCEPT !["worker"] = [a \in Address |-> Plus(@[a], rejects[a])]]
           /\ earned' = [earned EXCEPT !["worker"] = [a \in Address |-> Plus(@[a], rejects[a])]]
    /\ UNCHANGED <<buf, listed, session, busy, snap, batch, erase, phase, used, spoiled, since, kept>>

FanOut ==
    /\ at["client"] = "fanout"
    /\ at' = [at EXCEPT !["client"] = "over"]
    /\ LET rejects == [a \in Address |->
            [acc |-> 0, rej |-> IF a \in ok /\ snap["client"][a].rej > 0
                               THEN snap["client"][a].rej ELSE 0]]
       IN  /\ row' = [row EXCEPT !["worker"] = [a \in Address |-> Plus(@[a], rejects[a])]]
           /\ earned' = [earned EXCEPT !["worker"] = [a \in Address |-> Plus(@[a], rejects[a])]]
    /\ UNCHANGED <<buf, listed, session, busy, snap, batch, erase, phase, used, spoiled, since, kept>>

\* It is logged and not repeated.
FanOutFails ==
    /\ at["client"] = "fanout" /\ Fault
    /\ at' = [at EXCEPT !["client"] = "over"]
    /\ UNCHANGED <<buf, row, listed, session, busy, snap, batch, erase, phase, ghost>>

\* The flag is not cleared when a statement failed.
Finish_Faulty ==
    /\ busy /\ \A t \in Table : at[t] = "over"
    /\ busy' = ~kept /\ at' = [t \in Table |-> "idle"]
    /\ snap' = [t \in Table |-> Nothing] /\ left' = {} /\ hot' = {} /\ ok' = {}
    /\ phase' = IF phase = "flushing" THEN "closing" ELSE phase
    /\ UNCHANGED <<buf, row, listed, session, erase, used, ghost>>

Finish ==
    /\ busy /\ \A t \in Table : at[t] = "over"
    /\ busy' = FALSE /\ at' = [t \in Table |-> "idle"]
    /\ snap' = [t \in Table |-> Nothing] /\ left' = {} /\ hot' = {} /\ ok' = {}
    /\ phase' = IF phase = "flushing" THEN "closing" ELSE phase
    /\ UNCHANGED <<buf, row, listed, session, erase, used, ghost>>

-------------------------------------------------------------------------------
(* The deletion of an account: delete-stats, and delete-all, which goes on with *)
(* the row in address_settings.                                              *)

EraseBuffers(a) ==
    /\ a \in Leaving /\ erase[a] = "none" /\ used.erasures < MaxErasures
    /\ used' = [used EXCEPT !.erasures = @ + 1]
    /\ erase' = [erase EXCEPT ![a] = "worker"]
    /\ buf' = [t \in Table |-> [buf[t] EXCEPT ![a] = Zero]]
    /\ earned' = [t \in Table |-> [earned[t] EXCEPT ![a] = Minus(@, buf[t][a])]]
    /\ spoiled' = spoiled \cup UNION {Hit(t, {a}) : t \in {u \in Table : at[u] \in {"sent", "applied"}}}
    /\ UNCHANGED <<row, listed, session, flush, phase, since, kept>>

EraseRow(t, a) ==
    /\ row' = [row EXCEPT ![t][a] = Zero]
    /\ earned' = [earned EXCEPT ![t][a] = Minus(@, row[t][a])]
    /\ UNCHANGED <<buf, session, flush, phase, used, spoiled, since, kept>>

EraseWorker(a) ==
    /\ erase[a] = "worker" /\ EraseRow("worker", a)
    /\ erase' = [erase EXCEPT ![a] = "client"] /\ UNCHANGED listed

\* It goes on with a step there is none for.
EraseClient_Faulty(a) ==
    /\ erase[a] = "client" /\ EraseRow("client", a)
    /\ \E next \in {"none", "address"} : erase' = [erase EXCEPT ![a] = next]
    /\ UNCHANGED listed

EraseClient(a) ==
    /\ erase[a] = "client" /\ EraseRow("client", a)
    /\ \E next \in {"none", "settings"} : erase' = [erase EXCEPT ![a] = next]
    /\ UNCHANGED listed

EraseSettings(a) ==
    /\ erase[a] = "settings" /\ EraseRow("address", a)
    /\ erase' = [erase EXCEPT ![a] = "none"] /\ listed' = listed \ {a}

\* A statement fails and the rest of the deletion does not take place.
EraseFails(a) ==
    /\ erase[a] # "none" /\ Fault
    /\ erase' = [erase EXCEPT ![a] = "none"]
    /\ UNCHANGED <<buf, row, listed, session, flush, phase, ghost>>

\* A share finds no cached best difficulty and no row, and inserts one.
Relist(a) ==
    /\ a \notin listed
    /\ listed' = listed \cup {a}
    /\ UNCHANGED <<buf, row, session, flush, erase, phase, used, ghost>>

-------------------------------------------------------------------------------
(* Stops and crashes. *)

\* It closes without the flush.
Stop_Faulty ==
    /\ phase = "up" /\ Fault
    /\ since' = used.shares /\ kept' = ~busy
    /\ phase' = "closing"
    /\ UNCHANGED <<buf, row, listed, session, flush, erase, earned, spoiled>>

\* app.close calls flushAllStatistics, which returns at once when a flush is in
\* progress.
Stop ==
    /\ phase = "up" /\ Fault
    /\ since' = used.shares /\ kept' = ~busy
    /\ \/ Begin /\ phase' = "flushing"
       \/ /\ busy \/ \A t \in Table : Drained(t) = {}
          /\ phase' = "closing" /\ UNCHANGED flush
    /\ UNCHANGED <<buf, row, listed, session, erase, earned, spoiled>>

\* seedIfEmpty: workers without a single row get the sums of the client's rows.
Seeded ==
    IF \E a \in Address : row["worker"][a] # Zero THEN row
    ELSE [row EXCEPT !["worker"] = [a \in Address |->
            IF row["client"][a].acc > 0 THEN row["client"][a] ELSE Zero]]

\* What is in the rows already and not yet taken out of the buffer.
InFlight(t, a) ==
    IF \/ t \in Flat /\ at[t] = "applied"
       \/ t = "client" /\ at[t] = "sent" /\ a \in hot \cup ok
    THEN snap[t][a] ELSE Zero

\* What only the memory of the process holds.
InMemory(t, a) == Minus(buf[t][a], InFlight(t, a))

\* The process ends and a new one starts: what was only in memory is lost, and
\* earned is relieved of it.
Restart ==
    /\ buf' = [t \in Table |-> Nothing] /\ row' = Seeded
    /\ earned' = [t \in Table |-> [a \in Address |->
                    Plus(Minus(earned[t][a], InMemory(t, a)), Minus(Seeded[t][a], row[t][a]))]]
    /\ session' = [a \in Address |-> "idle"]
    /\ busy' = FALSE /\ at' = [t \in Table |-> "idle"]
    /\ snap' = [t \in Table |-> Nothing] /\ left' = {} /\ hot' = {} /\ ok' = {}
    /\ erase' = [a \in Address |-> "none"] /\ phase' = "up"
    /\ spoiled' = spoiled \cup {<<"worker", a>> : a \in {b \in Address : <<"client", b>> \in spoiled}}
    /\ since' = None /\ kept' = TRUE /\ UNCHANGED listed

Exit  == phase = "closing" /\ Restart /\ UNCHANGED used
Crash == Restart /\ Fault

-------------------------------------------------------------------------------
FlushStep ==
    \/ DrainWorker \/ AnswerBatch \/ FanOut \/ Finish
    \/ \E t \in Table : Commit(t) \/ Confirm(t)
    \/ \E a \in Address : CommitBatch(a)

Next ==
    \/ Tick \/ FlushStep \/ FanOutFails \/ Stop \/ Exit \/ Crash
    \/ \E t \in Table : Refuse(t)
    \/ \E a \in Address :
        \/ Accept(a) \/ Total(a) \/ TotalFails(a) \/ Reject(a) \/ RefuseBatch(a) \/ Relist(a)
        \/ EraseBuffers(a) \/ EraseWorker(a) \/ EraseClient(a) \/ EraseSettings(a) \/ EraseFails(a)

Spec == Init /\ [][Next]_vars

\* Statements are answered, and the minute's tick comes again and again.
FairSpec == Spec /\ WF_vars(FlushStep) /\ WF_vars(Tick) /\ WF_vars(Exit)
-------------------------------------------------------------------------------
(* Properties. *)

Deltas == [Table -> [Address -> Amount]]

\* Every variable has its type.
TypeOK ==
    /\ buf \in Deltas /\ row \in Deltas /\ earned \in Deltas /\ snap \in Deltas
    /\ listed \subseteq Address /\ session \in [Address -> {"idle", "recording"}]
    /\ busy \in BOOLEAN /\ at \in [Table -> FlushPC]
    /\ left \subseteq Address /\ hot \subseteq Address /\ ok \subseteq Address
    /\ erase \in [Address -> ErasePC] /\ phase \in {"up", "flushing", "closing"}
    /\ used \in [shares : 0..MaxShares, faults : 0..MaxFaults, erasures : 0..MaxErasures]
    /\ spoiled \subseteq Table \X Address /\ since \in Nat \cup {None} /\ kept \in BOOLEAN

Exact(t, a) == <<t, a>> \notin spoiled

\* While a process lives no share is lost or counted twice between a client and
\* the rows, whatever is counted, refused or deleted during a flush: the rows and
\* the buffer hold what was counted, and once more what is stored and unconfirmed.
\* The end of a process costs what only its memory held and nothing else: no row
\* is lost with it, and none is counted again after it.
Conserved ==
    \A t \in Table, a \in Address :
        Exact(t, a) => Plus(row[t][a], buf[t][a]) = Plus(earned[t][a], InFlight(t, a))

\* "No data loss on crashes (all data in Redis immediately)", says the header of
\* the service: a crash finds nothing that only the memory of the process holds.
\* The deltas are in its memory for up to a minute, so it does.
NoDataLossOnCrashes ==
    [][Crash => \A t \in Table, a \in Address : Exact(t, a) => InMemory(t, a) = Zero]_vars

\* No total goes below zero, in memory or in Postgres.
NothingNegative ==
    \A t \in Table, a \in Address : Exact(t, a) =>
        /\ buf[t][a].acc >= 0 /\ buf[t][a].rej >= 0
        /\ row[t][a].acc >= 0 /\ row[t][a].rej >= 0

\* The rejected shares of a client's rows reach the rows of its worker at most
\* once, and exactly once when no statement failed.
FannedOutOnce ==
    used.erasures = 0 =>
        \A a \in Address :
            /\ row["worker"][a].rej <= row["client"][a].rej
            /\ used.faults = 0 /\ at["client"] \in {"idle", "over"} =>
                    row["worker"][a].rej = row["client"][a].rej

\* A stop that found no flush in progress leaves nothing behind that was counted
\* before it.  An account deleted in two flushes is the exception: what the first
\* one left below zero the second takes for shares that are still to be stored.
Unsaved(a) == buf["client"][a].acc + buf["client"][a].rej > used.shares - since
Deleted(a) == used.erasures > 1 /\ ~Exact("client", a)
StopSaves ==
    phase = "closing" /\ kept => \A a \in Address : Deleted(a) \/ ~Unsaved(a)

\* When nothing fails any more, every delta reaches Postgres.
BacklogDrains == <>[](\A t \in Table : Drained(t) = {})

\* The books balance: every submitted share is in the backlog, in the flush that
\* runs or in Postgres, once, unless a failure is on record or the process ended
\* before it was stored, and no total is below 0.
BooksBalance == TypeOK /\ Conserved /\ NothingNegative

\* A flush feeds the other tables from what it wrote and only once, and a stop that
\* reaches its end leaves nothing unsaved.
FlushesComplete == FannedOutOnce /\ StopSaves
===============================================================================
