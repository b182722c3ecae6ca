------------------------------ MODULE PplnsEngine ------------------------------
(***************************************************************************)
(* The PPLNS payout engine around a found block: PplnsService with its     *)
(* InflightResultCache, the snapshot it keeps in Redis, the balance and    *)
(* history tables it writes in Postgres, and the jobs the Stratum clients  *)
(* build from its distributions.  Every await of the source is a step of   *)
(* its own; a synchronous stretch between two awaits is one step.          *)
(*                                                                         *)
(* Amounts are abstracted away (PplnsRounds has them).  A distribution is  *)
(* identified by what it was computed from: the reward, how many shares    *)
(* the window had, and which block bookings the balances it read           *)
(* reflected.  Its balanceAfter holds absolute balances, so applying it    *)
(* leaves a ledger that reflects exactly those bookings and its own.       *)
(*                                                                         *)
(* An operator whose name ends in _Faulty or _FaultyN is a broken variant  *)
(* of the definition below it and is used by nothing: with it in place of  *)
(* that definition some property fails.                                    *)
(***************************************************************************)
EXTENDS Integers, FiniteSets

CONSTANTS
    MaxHeight,      \* bound: blocks 1..MaxHeight
    Reward,         \* coinbase values a template can have
    MaxShares,      \* bound on shares recorded
    MaxReorgs,      \* bound on chain reorganisations
    None            \* no value

Height == 1..MaxHeight

\* What buildCoinbaseDistribution was given; shares = 0 is the fee-only
\* fallback of an empty window, which has no balanceAfter.
Split == [reward : Reward, shares : 0..MaxShares, base : SUBSET Height]

ASSUME EngineAssumption ==
    /\ MaxHeight \in Nat /\ MaxShares \in Nat /\ MaxReorgs \in Nat
    /\ None \notin Split /\ None \notin Reward

VARIABLES
    shares,     \* Redis: shares in the window
    snapshot,   \* Redis: pplns:snapshot
    ledger,     \* Postgres: bookings reflected in pplns_balance
    history,    \* Postgres: history[h], distribution booked for height h
    cache,      \* distributionCache.cached, by reward
    build,      \* distributionCache.inflight, by reward
    jobs,       \* jobs on the tip, by the distribution in their coinbase
    busy,       \* blockFoundInProgress
    calls,      \* calls[h]: block-found handling of height h
    chain,      \* chain[h]: coinbase of the block at height h
    tip,        \* height of the best block
    reorgs      \* reorganisations so far

redis == <<shares, snapshot>>
db    == <<ledger, history>>
proc  == <<cache, build, jobs, busy, calls>>
node  == <<chain, tip, reorgs>>
vars  == <<redis, db, proc, node>>

BuildPC  == {"idle", "window", "balances", "delete", "write"}
Build    == [pc : BuildPC, dist : Split \cup {None}, wanted : BOOLEAN]
NoBuild  == [pc |-> "idle", dist |-> None, wanted |-> FALSE]

\* "notify" is the stretch between submitblock and onBlockFound; the pcs in
\* Locked hold blockFoundInProgress; the rest of the call is over.
Locked   == {"precheck", "snapshot", "discard", "window", "rewindow", "rebalances",
             "apply", "cleanup"}
Over     == {"none", "done", "skipped", "failed"}
Call     == [pc : {"notify"} \cup Locked \cup Over, reward : Reward \cup {None},
             dist : Split \cup {None}, exact : BOOLEAN]
NoCall   == [pc |-> "none", reward |-> None, dist |-> None, exact |-> FALSE]

Init ==
    /\ shares = 0 /\ snapshot = None
    /\ ledger = {} /\ history = [h \in Height |-> None]
    /\ cache = [r \in Reward |-> None] /\ build = [r \in Reward |-> NoBuild]
    /\ jobs = {} /\ busy = FALSE /\ calls = [h \in Height |-> NoCall]
    /\ chain = [h \in Height |-> None] /\ tip = 0 /\ reorgs = 0

-------------------------------------------------------------------------------
(* Shares, templates and the build of a distribution. *)

\* recordShare: the share lands in the window, the cached distributions go.
RecordShare ==
    /\ shares < MaxShares
    /\ shares' = shares + 1
    /\ cache' = [r \in Reward |-> None]
    /\ UNCHANGED <<snapshot, db, build, jobs, busy, calls, node>>

\* A template for the next height reaches the clients; getOrCompute serves the
\* cached distribution, joins the build in flight or starts one.
NewTemplate(r) ==
    /\ tip < MaxHeight
    /\ IF cache[r] # None
       THEN /\ jobs' = jobs \cup {cache[r]}
            /\ UNCHANGED build
       ELSE /\ build' = [build EXCEPT ![r].pc = IF @ = "idle" THEN "window" ELSE @,
                                     ![r].wanted = TRUE]
            /\ UNCHANGED jobs
    /\ UNCHANGED <<redis, db, cache, busy, calls, node>>

\* The build's promise resolves: cached, and a job if a template still waits.
Resolve(r, d) ==
    /\ cache' = [cache EXCEPT ![r] = d]
    /\ jobs' = IF build[r].wanted THEN jobs \cup {d} ELSE jobs
    /\ build' = [build EXCEPT ![r] = NoBuild]

BuildWindow_Faulty(r) ==    \* an empty window resolves to nothing
    /\ build[r].pc = "window"
    /\ IF shares = 0
       THEN Resolve(r, build[r].dist)
       ELSE /\ build' = [build EXCEPT ![r].pc = "balances",
                  ![r].dist = [reward |-> r, shares |-> shares, base |-> {}]]
            /\ UNCHANGED <<cache, jobs>>
    /\ UNCHANGED <<redis, db, busy, calls, node>>

\* readWindowByAddress; an empty window resolves to the fee-only fallback
\* without a snapshot.
BuildWindow(r) ==
    /\ build[r].pc = "window"
    /\ LET d == [reward |-> r, shares |-> shares, base |-> {}]
       IN  IF shares = 0
           THEN Resolve(r, d)
           ELSE /\ build' = [build EXCEPT ![r].pc = "balances", ![r].dist = d]
                /\ UNCHANGED <<cache, jobs>>
    /\ UNCHANGED <<redis, db, busy, calls, node>>

\* getAllWithBalance, then the distribution itself.
BuildBalances(r) ==
    /\ build[r].pc = "balances"
    /\ build' = [build EXCEPT ![r].pc = "delete", ![r].dist.base = ledger]
    /\ UNCHANGED <<redis, db, cache, jobs, busy, calls, node>>

\* writeStoredSnapshot deletes the key before it fills it.
BuildDelete(r) ==
    /\ build[r].pc = "delete"
    /\ snapshot' = None
    /\ build' = [build EXCEPT ![r].pc = "write"]
    /\ UNCHANGED <<shares, db, cache, jobs, busy, calls, node>>

BuildWrite(r) ==
    /\ build[r].pc = "write"
    /\ snapshot' = build[r].dist
    /\ Resolve(r, build[r].dist)
    /\ UNCHANGED <<shares, db, busy, calls, node>>

\* A rejected build leaves the map, and the sessions waiting on it get no job.
BuildFails(r) ==
    /\ build[r].pc # "idle"
    /\ build' = [build EXCEPT ![r] = NoBuild]
    /\ UNCHANGED <<redis, db, cache, jobs, busy, calls, node>>

\* The 30 s TTL of a cached distribution and the 1 h TTL of the snapshot.
CacheExpires(r) ==
    /\ cache[r] # None
    /\ cache' = [cache EXCEPT ![r] = None]
    /\ UNCHANGED <<redis, db, build, jobs, busy, calls, node>>

SnapshotExpires ==
    /\ snapshot # None
    /\ snapshot' = None
    /\ UNCHANGED <<shares, db, proc, node>>

-------------------------------------------------------------------------------
(* A block is found. *)

Goto(h, pc) == calls' = [calls EXCEPT ![h].pc = pc]
Leave(h, pc) == Goto(h, pc) /\ busy' = FALSE

\* The tip moves to h: a block on any older job is refused by submitblock and
\* leaves no trace, so those jobs, and the templates waiting for one, go.
MoveTip(h) ==
    /\ tip' = h
    /\ jobs' = {}
    /\ build' = [r \in Reward |-> [build[r] EXCEPT !.wanted = FALSE]]

\* A miner solves a job and submitblock answers SUCCESS.
SolveBlock(d) ==
    LET h == tip + 1
    IN  /\ d \in jobs /\ h \in Height
        /\ calls[h].pc \in Over
        /\ chain' = [chain EXCEPT ![h] = d]
        /\ calls' = [calls EXCEPT ![h] =
                       [NoCall EXCEPT !.pc = "notify", !.reward = d.reward]]
        /\ MoveTip(h)
        /\ UNCHANGED <<redis, db, cache, busy, reorgs>>

Enter_Faulty(h) ==          \* no check of blockFoundInProgress
    /\ calls[h].pc = "notify"
    /\ cache' = [r \in Reward |-> None]
    /\ busy' = TRUE
    /\ Goto(h, "precheck")
    /\ UNCHANGED <<redis, db, build, jobs, node>>

\* onBlockFound up to its first await.
Enter(h) ==
    /\ calls[h].pc = "notify"
    /\ cache' = [r \in Reward |-> None]
    /\ busy' = TRUE
    /\ Goto(h, IF busy THEN "skipped" ELSE "precheck")
    /\ UNCHANGED <<redis, db, build, jobs, node>>

PreCheck(h) ==
    /\ calls[h].pc = "precheck"
    /\ IF history[h] # None
       THEN Leave(h, "done")
       ELSE Goto(h, "snapshot") /\ UNCHANGED busy
    /\ UNCHANGED <<redis, db, cache, build, jobs, node>>

ReadSnapshot_Faulty(h) ==   \* no check of the snapshot's reward
    /\ calls[h].pc = "snapshot"
    /\ IF snapshot = None THEN Goto(h, "rewindow")
       ELSE calls' = [calls EXCEPT ![h].pc = "window", ![h].dist = snapshot,
                                   ![h].exact = TRUE]
    /\ UNCHANGED <<redis, db, cache, build, jobs, busy, node>>

ReadSnapshot(h) ==
    /\ calls[h].pc = "snapshot"
    /\ IF snapshot = None THEN Goto(h, "rewindow")
       ELSE IF snapshot.reward # calls[h].reward THEN Goto(h, "discard")
       ELSE calls' = [calls EXCEPT ![h].pc = "window", ![h].dist = snapshot,
                                   ![h].exact = TRUE]
    /\ UNCHANGED <<redis, db, cache, build, jobs, busy, node>>

\* A snapshot for another reward is "for a different job".
Discard(h) ==
    /\ calls[h].pc = "discard"
    /\ snapshot' = None
    /\ Goto(h, "rewindow")
    /\ UNCHANGED <<shares, db, cache, build, jobs, busy, node>>

\* The current window is only used to tell late arrivers from the rest.
ReadWindow(h) ==
    /\ calls[h].pc = "window"
    /\ Goto(h, "apply")
    /\ UNCHANGED <<redis, db, cache, build, jobs, busy, node>>

\* applyDistributionWithoutSnapshot: with an empty window nothing is booked.
ReWindow(h) ==
    /\ calls[h].pc = "rewindow"
    /\ IF shares = 0
       THEN Leave(h, "done")
       ELSE /\ calls' = [calls EXCEPT ![h].pc = "rebalances",
                  ![h].dist = [reward |-> calls[h].reward, shares |-> shares, base |-> {}]]
            /\ UNCHANGED busy
    /\ UNCHANGED <<redis, db, cache, build, jobs, node>>

ReBalances(h) ==
    /\ calls[h].pc = "rebalances"
    /\ calls' = [calls EXCEPT ![h].pc = "apply", ![h].dist.base = ledger]
    /\ UNCHANGED <<redis, db, cache, build, jobs, busy, node>>

Apply_Faulty1(h) ==         \* history rows for snapshot bookings only
    /\ calls[h].pc = "apply"
    /\ history' = IF calls[h].exact THEN [history EXCEPT ![h] = calls[h].dist]
                  ELSE history
    /\ ledger' = calls[h].dist.base \cup {h}
    /\ IF calls[h].exact
       THEN Goto(h, "cleanup") /\ UNCHANGED busy
       ELSE Leave(h, "done")
    /\ UNCHANGED <<redis, cache, build, jobs, node>>

Apply_Faulty2(h) ==         \* booked under the height of the tip
    /\ calls[h].pc = "apply"
    /\ tip > 0
    /\ history' = [history EXCEPT ![tip] = calls[h].dist]
    /\ ledger' = calls[h].dist.base \cup {tip}
    /\ IF calls[h].exact
       THEN Goto(h, "cleanup") /\ UNCHANGED busy
       ELSE Leave(h, "done")
    /\ UNCHANGED <<redis, cache, build, jobs, node>>

\* applyDistribution, one transaction: balances absolute, history inserted; a
\* 23505 on (blockHeight, address) rolls both back and counts as done.
Apply(h) ==
    /\ calls[h].pc = "apply"
    /\ IF history[h] = None
       THEN /\ history' = [history EXCEPT ![h] = calls[h].dist]
            /\ ledger' = calls[h].dist.base \cup {h}
       ELSE UNCHANGED db
    /\ IF calls[h].exact
       THEN Goto(h, "cleanup") /\ UNCHANGED busy
       ELSE Leave(h, "done")
    /\ UNCHANGED <<redis, cache, build, jobs, node>>

\* deleteSnapshot after a booking from the snapshot.
Cleanup(h) ==
    /\ calls[h].pc = "cleanup"
    /\ snapshot' = None
    /\ Leave(h, "done")
    /\ UNCHANGED <<shares, db, cache, build, jobs, node>>

Fail_Faulty(h) ==           \* no finally
    /\ calls[h].pc \in Locked \cup {"notify"}
    /\ Goto(h, "failed")
    /\ UNCHANGED <<redis, db, cache, build, jobs, busy, node>>

\* Any await of the call can reject; in onBlockFound finally clears the flag.
Fail(h) ==
    /\ calls[h].pc \in Locked \cup {"notify"}
    /\ Goto(h, "failed")
    /\ busy' = (busy /\ calls[h].pc = "notify")
    /\ UNCHANGED <<redis, db, cache, build, jobs, node>>

-------------------------------------------------------------------------------
(* The environment. *)

\* The process dies and comes back: memory is lost, Redis and Postgres stay.
Restart ==
    /\ cache' = [r \in Reward |-> None] /\ build' = [r \in Reward |-> NoBuild]
    /\ jobs' = {} /\ busy' = FALSE
    /\ calls' = [h \in Height |->
                   IF calls[h].pc \in Over THEN calls[h]
                   ELSE [calls[h] EXCEPT !.pc = "failed"]]
    /\ UNCHANGED <<redis, db, node>>

\* The best block is orphaned, its height can be won again.
Reorg ==
    /\ tip > 0 /\ reorgs < MaxReorgs
    /\ chain' = [chain EXCEPT ![tip] = None]
    /\ MoveTip(tip - 1)
    /\ reorgs' = reorgs + 1
    /\ UNCHANGED <<redis, db, cache, busy, calls>>

BuildStep(r) == BuildWindow(r) \/ BuildBalances(r) \/ BuildDelete(r) \/ BuildWrite(r)

CallStep(h) ==
    \/ Enter(h) \/ PreCheck(h) \/ ReadSnapshot(h) \/ Discard(h) \/ ReadWindow(h)
    \/ ReWindow(h) \/ ReBalances(h) \/ Apply(h) \/ Cleanup(h)

Next ==
    \/ RecordShare
    \/ \E r \in Reward : NewTemplate(r) \/ BuildStep(r) \/ BuildFails(r) \/ CacheExpires(r)
    \/ SnapshotExpires
    \/ \E d \in jobs : SolveBlock(d)
    \/ \E h \in Height : CallStep(h) \/ Fail(h)
    \/ Restart
    \/ Reorg

Spec == Init /\ [][Next]_vars

\* The event loop resumes every handler whose await has settled, and the store
\* clients settle every request.
FairSpec == Spec /\ \A h \in Height : WF_vars(CallStep(h))

-------------------------------------------------------------------------------
\* A build past its window read has a distribution; a call that has one is for
\* the reward of its block, and window only follows a snapshot read.
BuildShape ==
    \A r \in Reward :
        build[r].pc \in {"balances", "delete", "write"} => build[r].dist \in Split

CallShape ==
    \A h \in Height :
        /\ calls[h].pc \in Locked \cup {"notify"} => calls[h].reward \in Reward
        /\ calls[h].pc \in {"window", "rebalances", "apply"} =>
              calls[h].dist \in Split /\ calls[h].dist.reward = calls[h].reward
        /\ calls[h].pc = "window" => calls[h].exact

\* Type invariant, with the shape each pc gives to builds and calls.
TypeOK ==
    /\ BuildShape /\ CallShape
    /\ shares \in 0..MaxShares /\ snapshot \in Split \cup {None}
    /\ ledger \in SUBSET Height /\ history \in [Height -> Split \cup {None}]
    /\ cache \in [Reward -> Split \cup {None}] /\ build \in [Reward -> Build]
    /\ jobs \in SUBSET Split
    /\ busy \in BOOLEAN /\ calls \in [Height -> Call]
    /\ chain \in [Height -> Split \cup {None}]
    /\ tip \in 0..MaxHeight /\ reorgs \in 0..MaxReorgs

Booked == {h \in Height : history[h] # None}

\* At most one block is being booked, and the flag says so: no return, rejected
\* await or restart leaves it set, none clears it for another call.
OneBooking ==
    /\ \A h, k \in Height :
          calls[h].pc \in Locked /\ calls[k].pc \in Locked => h = k
    /\ busy <=> \E h \in Height : calls[h].pc \in Locked

\* The balances reflect only bookings whose history rows are there, and so does
\* every distribution in flight, cached, stored or on a miner, whichever of them
\* is applied next.
Backed(d) == d # None => d.base \subseteq Booked

LedgerBacked ==
    /\ ledger \subseteq Booked
    /\ Backed(snapshot)
    /\ \A d \in jobs : Backed(d)
    /\ \A r \in Reward : Backed(cache[r]) /\ Backed(build[r].dist)
    /\ \A h \in Height : Backed(calls[h].dist)

\* A distribution recomputed for want of a snapshot is applied to the very
\* balances it was computed from: no other booking can slip in between.
RecomputeIsCurrent ==
    \A h \in Height :
        calls[h].pc = "apply" /\ ~calls[h].exact => calls[h].dist.base = ledger

\* One booking at a time, on current balances: block-found calls exclude each
\* other, the flag says which holds it, and what is recomputed inside is fresh.
EngineSafe == TypeOK /\ OneBooking /\ RecomputeIsCurrent

\* A height is booked once for good: no replay, reorganisation, restart or
\* concurrent call books it a second time or over the first.
BookedOnceStep == \A h \in Booked : history'[h] = history[h]
BookedOnce == [][BookedOnceStep]_vars

\* The engine implements PayoutBook: every booking is of a block that was found,
\* is the only one of its height, and adds up to the reward of that block,
\* whichever snapshot it was taken from.
Book == INSTANCE PayoutBook WITH
    owed   <- [h \in Height |-> calls[h].reward],
    booked <- [h \in Height |-> IF history[h] = None THEN None ELSE history[h].reward]
BookSpec == Book!Spec

\* The flag always comes free again, so no block-found is refused for ever.
FlagComesFree == busy ~> ~busy

-------------------------------------------------------------------------------
(* What the comments say and the code does not do. *)

\* The snapshot is "the distribution that was actually used to build the latest
\* coinbase": a block booked from it was paid as booked.
BookedAsPaid ==
    \A h \in Height :
        history[h] # None /\ calls[h].exact => history[h] = chain[h]
===============================================================================
