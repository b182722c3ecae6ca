------------------------------- MODULE GroupSolo -------------------------------
(***************************************************************************)
(* One Group-Solo group around its blocks, resets and kicks, with every    *)
(* await a step: GroupSoloService with its distribution cache, the round   *)
(* and the per-finder snapshots it keeps in Redis, the balance and history *)
(* rows it writes in Postgres, and the timers that wipe and sweep them.    *)
(*                                                                         *)
(* Amounts are abstracted away (GroupRounds has them).  A share is one     *)
(* accepted share, a balance row the set of events whose sats are in it:   *)
(* the height of a booking, or Credit for what a kicked member left.  A    *)
(* distribution names what it was computed from.  Its balanceAfter is      *)
(* absolute, so applying it leaves each address it touches with the events *)
(* the build read and with the block itself.                               *)
(***************************************************************************)
EXTENDS Integers, FiniteSets

CONSTANTS
    Creator,        \* the member that cannot be kicked
    Member,         \* the others
    Reward,         \* coinbase values a template can have
    MaxShares,      \* bound on the shares of each address
    MaxHeight,      \* bound: blocks 1..MaxHeight
    MinActive,      \* MIN_MEMBERS_ACTIVE
    Cases,          \* bound: settings and faults, one of them per behaviour
    None            \* no value

Miner   == Member \cup {Creator}
Height  == 1..MaxHeight
Credit  == 0
Event   == Height \cup {Credit}
Share   == Miner \X (1..MaxShares)
Row     == [Miner -> SUBSET Event]
NoRows  == [a \in Miner |-> {}]

\* What one build read.  No shares: the fee-only fallback.  "late" is a ghost:
\* what the build had read was booked or wiped before its result was stored.
Split == [finder : Miner, reward : Reward, shares : SUBSET Share, base : Row,
          late : BOOLEAN]

\* wipes: resetRoundOnBlock; start: the round that Redis kept from an earlier
\* process; the rest says what may happen and how often.
Case == [wipes : BOOLEAN, start : SUBSET Share, rewards : SUBSET Reward,
         blocks : 0..MaxHeight, builds : Nat, resets : Nat, kicks : Nat,
         sweeps : Nat, faults : Nat, expiries : Nat]

VARIABLES
    window,     \* Redis: by-address
    snapshot,   \* Redis: snapshot:<finder>
    row,        \* Postgres: pplns_group_balance
    history,    \* Postgres: pplns_group_block_history
    roster,     \* Postgres: pplns_group_member
    known,      \* GroupService's address cache
    cache,      \* distributionCache.cached
    build,      \* distributionCache.inflight, one per finder (a bound)
    jobs,       \* distributions of the jobs on the tip
    lock,       \* blockFoundLocks holds the group
    call,       \* call[h]: onBlockFound of height h
    reset,      \* scheduledRoundReset
    kick,       \* removeMember
    sweep,      \* sweepGroupDust
    tip,        \* height of the best block
    left,       \* what is left of the case
    sent,       \* ghost: shares recorded so far
    torn,       \* ghost: booked heights whose clean-up did not finish
    gone,       \* ghost: what was there when the last finished reset began, and the
                \* snapshots it failed to delete
    back        \* ghost: events put into a row that had lost them since

redis == <<window, snapshot>>
db    == <<row, history, roster>>
dist  == <<cache, build, jobs>>
tasks == <<reset, kick, sweep>>
ghost == <<sent, torn, gone, back>>
vars  == <<redis, db, known, dist, lock, call, tasks, tip, left, ghost>>

NoBuild == [pc |-> "idle", split |-> None, wanted |-> FALSE]
NoCall  == [pc |-> "none", finder |-> None, reward |-> None, split |-> None]
NoReset == [pc |-> "idle", shares |-> {}, events |-> {}, spared |-> {}]
NoKick  == [pc |-> "idle", who |-> None, to |-> {}, some |-> FALSE, seen |-> {},
            late |-> FALSE]
Locked  == {"precheck", "snapshot", "discard", "window", "balances", "apply",
            "flag", "wipe", "drop"}
Over    == {"none", "done", "skipped", "failed"}

Init ==
    /\ left \in Cases
    /\ window = left.start /\ snapshot = [f \in Miner |-> None]
    /\ row = NoRows /\ history = [h \in Height |-> None]
    /\ roster = Miner /\ known = Miner
    /\ cache = {} /\ build = [f \in Miner |-> NoBuild] /\ jobs = {}
    /\ lock = FALSE /\ call = [h \in Height |-> NoCall]
    /\ reset = NoReset /\ kick = NoKick /\ sweep = {}
    /\ tip = 0
    /\ sent = left.start /\ torn = {} /\ back = {}
    /\ gone = [shares |-> {}, events |-> {}, spared |-> {}]

ASSUME SoloAssumption ==
    /\ MaxHeight \in Nat /\ Cases \subseteq Case
    /\ None \notin Split /\ None \notin Miner

BuildType == [pc : {"idle", "window", "balances", "write"}, split : Split \cup {None},
              wanted : BOOLEAN]
CallType  == [pc : Locked \cup Over \cup {"notify"}, finder : Miner \cup {None},
              reward : Reward \cup {None}, split : Split \cup {None}]
ResetType == [pc : {"idle", "group", "drop", "rows"}, shares : SUBSET Share,
              events : SUBSET Event, spared : SUBSET Split]
KickType  == [pc : {"idle", "read", "round", "delete", "find", "save", "rebuild"},
              who : Miner \cup {None}, to : SUBSET Miner, some : BOOLEAN,
              seen : SUBSET Event, late : BOOLEAN]

TypeOK ==
    /\ window \subseteq Share /\ snapshot \in [Miner -> Split \cup {None}]
    /\ row \in Row /\ history \in [Height -> Split \cup {None}]
    /\ roster \subseteq Miner /\ known \subseteq Miner
    /\ cache \subseteq Split /\ build \in [Miner -> BuildType] /\ jobs \subseteq Split
    /\ lock \in BOOLEAN /\ call \in [Height -> CallType]
    /\ reset \in ResetType /\ kick \in KickType /\ sweep \subseteq Miner
    /\ tip \in 0..MaxHeight /\ left \in Case
    /\ sent \subseteq Share /\ torn \subseteq Height
    /\ gone \in [shares : SUBSET Share, events : SUBSET Event, spared : SUBSET Split]
    /\ back \subseteq Event

Routed(a) == a \in known /\ Cardinality(known) >= MinActive
Booked == {h \in Height : history[h] # None}
Spend(what) == left[what] > 0 /\ left' = [left EXCEPT ![what] = @ - 1]

\* The builds, calls and saves in flight have read what changes now.
Late(d) == IF d = None THEN None ELSE [d EXCEPT !.late = TRUE]
LateBuilds == [f \in Miner |-> [build[f] EXCEPT !.split = Late(@)]]
LateCalls == [h \in Height |-> IF call[h].pc \in Locked
                               THEN [call[h] EXCEPT !.split = Late(@)] ELSE call[h]]
LateKick == IF kick.pc = "save" THEN [kick EXCEPT !.late = TRUE] ELSE kick

-------------------------------------------------------------------------------
(* Shares, templates and the build of a distribution. *)

\* recordShare: routed by the cache, one MULTI; cached distributions stay.
RecordShare(s) ==
    /\ s \notin sent /\ (s[2] = 1 \/ <<s[1], s[2] - 1>> \in sent)
    /\ Routed(s[1])
    /\ window' = window \cup {s} /\ sent' = sent \cup {s}
    /\ UNCHANGED <<snapshot, db, known, dist, lock, call, tasks, tip, left, torn, gone, back>>

Cached(f, r) == {d \in cache : d.finder = f /\ d.reward = r}

\* A template for the next height reaches the sessions of f; getOrCompute serves
\* the cached distribution, joins the build in flight or starts one.
NewTemplate(f, r) ==
    /\ tip < left.blocks /\ Routed(f) /\ r \in left.rewards
    /\ \/ /\ Cached(f, r) # {}
          /\ jobs' = jobs \cup Cached(f, r)
          /\ UNCHANGED <<build, left>>
       \/ /\ Cached(f, r) = {} /\ build[f].pc = "idle" /\ left.builds > 0
          /\ build' = [build EXCEPT ![f] = [pc |-> "window", wanted |-> TRUE,
                 split |-> [finder |-> f, reward |-> r, shares |-> {},
                            base |-> NoRows, late |-> FALSE]]]
          /\ left' = [left EXCEPT !.builds = @ - 1]
          /\ UNCHANGED jobs
    /\ UNCHANGED <<redis, db, known, cache, lock, call, tasks, tip, ghost>>

\* The promise resolves: cached, and a job if the template is still current.
Resolve(f, d) ==
    /\ cache' = (cache \ Cached(f, d.reward)) \cup {d}
    /\ jobs' = IF build[f].wanted THEN jobs \cup {d} ELSE jobs
    /\ build' = [build EXCEPT ![f] = NoBuild]

\* readByAddress; an empty round resolves to the fallback without a snapshot.
BuildWindow(f) ==
    /\ build[f].pc = "window"
    /\ LET d == [build[f].split EXCEPT !.shares = window, !.late = FALSE]
       IN  \/ window = {} /\ Resolve(f, d)
           \/ /\ window # {}
              /\ build' = [build EXCEPT ![f].pc = "balances", ![f].split = d]
              /\ UNCHANGED <<cache, jobs>>
    /\ UNCHANGED <<redis, db, known, lock, call, tasks, tip, left, ghost>>

\* The balance rows, the group's bonus and the distribution itself.
BuildBalances(f) ==
    /\ build[f].pc = "balances"
    /\ build' = [build EXCEPT ![f].pc = "write", ![f].split.base = row]
    /\ UNCHANGED <<redis, db, known, cache, jobs, lock, call, tasks, tip, left, ghost>>

\* writeStoredSnapshot; a block found between its deletion of the key and the
\* writing sees what it sees when the snapshot has expired.  A reset that has
\* dropped the snapshots and not yet the rows misses this one: the ghost says so.
BuildWrite(f) ==
    /\ build[f].pc = "write"
    /\ LET d == IF reset.pc = "rows" THEN Late(build[f].split) ELSE build[f].split
       IN  snapshot' = [snapshot EXCEPT ![f] = d] /\ Resolve(f, d)
    /\ UNCHANGED <<window, db, known, lock, call, tasks, tip, left, ghost>>

\* The 30 s of a cached distribution and the hour of a snapshot.
Expire ==
    /\ Spend("expiries")
    /\ \/ \E d \in cache : cache' = cache \ {d} /\ UNCHANGED snapshot
       \/ \E f \in Miner : /\ snapshot[f] # None
                             /\ snapshot' = [snapshot EXCEPT ![f] = None]
                             /\ UNCHANGED cache
    /\ UNCHANGED <<window, db, known, build, jobs, lock, call, tasks, tip, ghost>>

-------------------------------------------------------------------------------
(* A block is found. *)

Goto(h, pc) == call' = [call EXCEPT ![h].pc = pc]
Leave_Faulty(h, pc) == Goto(h, pc) /\ lock' = (pc = "failed")  \* no finally
Leave(h, pc) == Goto(h, pc) /\ lock' = FALSE

\* A job is solved and submitblock answers SUCCESS; older jobs are worth nothing
\* now, and a template that waits for a build has been replaced.
SolveBlock(d) ==
    LET h == tip + 1
    IN  /\ d \in jobs /\ h <= left.blocks
        /\ tip' = h /\ jobs' = {}
        /\ build' = [f \in Miner |-> [build[f] EXCEPT !.wanted = FALSE]]
        /\ call' = [call EXCEPT ![h] = [NoCall EXCEPT !.pc = "notify",
                                          !.finder = d.finder, !.reward = d.reward]]
        /\ UNCHANGED <<redis, db, known, cache, lock, tasks, left, ghost>>

Enter_Faulty(h) ==          \* no test of blockFoundLocks
    /\ call[h].pc = "notify"
    /\ IF ~Routed(call[h].finder)
       THEN Goto(h, "skipped") /\ UNCHANGED lock
       ELSE Goto(h, "precheck") /\ lock' = TRUE
    /\ UNCHANGED <<redis, db, known, dist, tasks, tip, left, ghost>>

\* onBlockFound up to its first await.
Enter(h) ==
    /\ call[h].pc = "notify"
    /\ IF ~Routed(call[h].finder) \/ lock
       THEN Goto(h, "skipped") /\ UNCHANGED lock
       ELSE Goto(h, "precheck") /\ lock' = TRUE
    /\ UNCHANGED <<redis, db, known, dist, tasks, tip, left, ghost>>

PreCheck(h) ==
    /\ call[h].pc = "precheck"
    /\ IF history[h] # None THEN Leave(h, "done") ELSE Goto(h, "snapshot") /\ UNCHANGED lock
    /\ UNCHANGED <<redis, db, known, dist, tasks, tip, left, ghost>>

SnapshotFor_Faulty(h) ==    \* one snapshot for the group
    IF \E f \in Miner : snapshot[f] # None
    THEN snapshot[CHOOSE f \in Miner : snapshot[f] # None] ELSE None

\* snapshotKeyFor: every builder passes its address, so "__none__" is never there.
SnapshotFor(h) == snapshot[call[h].finder]

\* A snapshot for another reward is for another job.  With a good one the live
\* window is read too, but only to tell late arrivers, who get an audit row.
ReadSnapshot(h) ==
    /\ call[h].pc = "snapshot"
    /\ LET d == SnapshotFor(h)
       IN  call' = [call EXCEPT ![h] =
             IF d = None THEN [@ EXCEPT !.pc = "window"]
             ELSE IF d.reward # call[h].reward THEN [@ EXCEPT !.pc = "discard"]
             ELSE [@ EXCEPT !.pc = "apply", !.split = d]]
    /\ UNCHANGED <<redis, db, known, dist, lock, tasks, tip, left, ghost>>

\* deleteAllSnapshots, those of the other finders too.
Discard(h) ==
    /\ call[h].pc = "discard"
    /\ snapshot' = [f \in Miner |-> None]
    /\ Goto(h, "window")
    /\ UNCHANGED <<window, db, known, dist, lock, tasks, tip, left, ghost>>

\* onBlockFoundFromWindow: with an empty round nothing is booked.
ReadWindow(h) ==
    /\ call[h].pc = "window"
    /\ call' = [call EXCEPT ![h] =
         IF window = {} THEN [@ EXCEPT !.pc = "flag"]
         ELSE [@ EXCEPT !.pc = "balances",
                 !.split = [finder |-> call[h].finder, reward |-> call[h].reward,
                            shares |-> window, base |-> NoRows, late |-> FALSE]]]
    /\ UNCHANGED <<redis, db, known, dist, lock, tasks, tip, left, ghost>>

ReadBalances(h) ==
    /\ call[h].pc = "balances"
    /\ call' = [call EXCEPT ![h].pc = "apply", ![h].split.base = row]
    /\ UNCHANGED <<redis, db, known, dist, lock, tasks, tip, left, ghost>>

\* What the step puts into the rows.
Entering == UNION {row'[a] \ row[a] : a \in Miner}

\* balanceAfter: every address that had something or gets something.
RowsAfter(h, d) ==
    [a \in Miner |->
       IF d.base[a] # {} \/ \E s \in d.shares : s[1] = a THEN d.base[a] \cup {h} ELSE row[a]]

\* applyDistributionTx, one transaction.
Apply(h) ==
    /\ call[h].pc = "apply"
    /\ history' = [history EXCEPT ![h] = call[h].split]
    /\ row' = RowsAfter(h, call[h].split)
    /\ back' = back \cup (Entering \ {h})
    /\ Goto(h, "flag")
    /\ build' = LateBuilds
    /\ kick' = LateKick
    /\ UNCHANGED <<redis, roster, known, cache, jobs, lock, reset, sweep, tip, left,
                   sent, torn, gone>>

\* wipeRoundStateOnBlockFound reads the group's resetRoundOnBlock.
ReadFlag(h) ==
    /\ call[h].pc = "flag"
    /\ Goto(h, IF left.wipes THEN "wipe" ELSE "drop")
    /\ UNCHANGED <<redis, db, known, dist, lock, tasks, tip, left, ghost>>

EmptyRound_Faulty ==        \* the shares by address stay
    cache' = {} /\ build' = LateBuilds /\ UNCHANGED window

\* resetRound: the keys, the best share, the cached distributions; a build in
\* flight goes on and will be cached.
EmptyRound == window' = {} /\ build' = LateBuilds /\ cache' = {}

Wipe(h) ==
    /\ call[h].pc = "wipe"
    /\ EmptyRound
    /\ Goto(h, "drop")
    /\ UNCHANGED <<snapshot, db, known, jobs, lock, tasks, tip, left, ghost>>

DropSnapshots_Faulty(h) ==  \* the finder's own
    /\ call[h].pc = "drop"
    /\ snapshot' = [snapshot EXCEPT ![call[h].finder] = None]
    /\ Leave(h, "done")
    /\ UNCHANGED <<window, db, known, dist, tasks, tip, left, ghost>>

\* deleteAllSnapshots, whatever the flag says.
DropSnapshots(h) ==
    /\ call[h].pc = "drop"
    /\ snapshot' = [f \in Miner |-> None]
    /\ Leave(h, "done")
    /\ UNCHANGED <<window, db, known, dist, tasks, tip, left, ghost>>

\* deleteAllSnapshots with a scan or a delete that fails on the way: those of fs
\* are left.  It only logs that; the delete of the old key, its last, may throw.
KeepSnapshots(fs) == snapshot' = [f \in Miner |-> IF f \in fs THEN snapshot[f] ELSE None]

\* A rejected await ends the call through its finally.  The read of the flag and the
\* scan are caught: the call goes on with the round, or with snapshots, left behind.
\* resetRound may have got as far as the shares by address.
Fail(h) ==
    /\ call[h].pc \in Locked
    /\ Spend("faults")
    /\ \/ call[h].pc = "flag" /\ Goto(h, "drop") /\ UNCHANGED <<redis, lock>>
       \/ /\ call[h].pc = "discard"
          /\ (\E fs \in SUBSET Miner : KeepSnapshots(fs)) /\ UNCHANGED window
          /\ (Goto(h, "window") /\ UNCHANGED lock) \/ Leave(h, "failed")
       \/ /\ call[h].pc = "drop"
          /\ (\E fs \in SUBSET Miner : KeepSnapshots(fs)) /\ UNCHANGED window
          /\ Leave(h, "failed")
       \/ /\ call[h].pc = "wipe" /\ window' = {} /\ UNCHANGED snapshot
          /\ Leave(h, "failed")
       \/ call[h].pc \notin {"flag", "discard", "drop"} /\ Leave(h, "failed") /\ UNCHANGED redis
    /\ torn' = IF history[h] # None THEN torn \cup {h} ELSE torn
    /\ UNCHANGED <<db, known, dist, tasks, tip, sent, gone, back>>

CallStep(h) ==
    \/ Enter(h) \/ PreCheck(h) \/ ReadSnapshot(h) \/ Discard(h) \/ ReadWindow(h)
    \/ ReadBalances(h) \/ Apply(h) \/ ReadFlag(h) \/ Wipe(h)
    \/ DropSnapshots(h)

-------------------------------------------------------------------------------
(* The scheduled reset, a kick, the sweep, a restart. *)

\* fireIfDue and scheduledRoundReset up to the group's row; the lock is tested
\* here and not taken.
ResetStart ==
    /\ reset.pc = "idle" /\ ~lock /\ Spend("resets")
    /\ reset' = [pc |-> "group", shares |-> sent,
                 events |-> Booked \cup IF kick.pc = "idle" THEN {Credit} ELSE {},
                 spared |-> {}]
    /\ UNCHANGED <<redis, db, known, dist, lock, call, kick, sweep, tip, ghost>>

\* The group's row is there: resetRound.
ResetRound ==
    /\ reset.pc = "group"
    /\ EmptyRound
    /\ reset' = [reset EXCEPT !.pc = "drop"]
    /\ call' = LateCalls
    /\ UNCHANGED <<snapshot, db, known, jobs, lock, kick, sweep, tip, left, ghost>>

ResetSnapshots_Faulty ==    \* the snapshots stay
    /\ reset.pc = "drop"
    /\ reset' = [reset EXCEPT !.pc = "rows"]
    /\ UNCHANGED <<redis, db, known, dist, lock, call, kick, sweep, tip, left, ghost>>

\* The inactivity clock and the snapshots.
ResetSnapshots ==
    /\ reset.pc = "drop"
    /\ snapshot' = [f \in Miner |-> None]
    /\ reset' = [reset EXCEPT !.pc = "rows"]
    /\ UNCHANGED <<window, db, known, dist, lock, call, kick, sweep, tip, left, ghost>>

\* deleteAllSnapshots logs a failed scan, and the reset goes on: the ghost keeps
\* the snapshots that are still there.
ResetSpares(fs) ==
    /\ reset.pc = "drop" /\ Spend("faults")
    /\ KeepSnapshots(fs)
    /\ reset' = [reset EXCEPT !.pc = "rows", !.spared = {snapshot[f] : f \in fs} \ {None}]
    /\ UNCHANGED <<window, db, known, dist, lock, call, kick, sweep, tip, ghost>>

\* A rejected await ends the reset where it is.  resetRound may have got as far as
\* the shares by address, deleteAllSnapshots to its last delete.
ResetFail ==
    /\ reset.pc # "idle" /\ Spend("faults")
    /\ reset' = NoReset
    /\ \/ UNCHANGED redis
       \/ reset.pc = "group" /\ window' = {} /\ UNCHANGED snapshot
       \/ /\ reset.pc = "drop" /\ UNCHANGED window
          /\ \E fs \in SUBSET Miner : KeepSnapshots(fs)
    /\ UNCHANGED <<db, known, dist, lock, call, kick, sweep, tip, ghost>>

\* The balance rows, and lastRoundResetAt; all is done when that is rejected, too.
ResetRows ==
    /\ reset.pc = "rows"
    /\ row' = NoRows
    /\ reset' = NoReset
    /\ gone' = [shares |-> reset.shares, events |-> reset.events, spared |-> reset.spared]
    /\ back' = {}
    /\ build' = LateBuilds /\ call' = LateCalls
    /\ kick' = LateKick
    /\ UNCHANGED <<redis, history, roster, known, cache, jobs, lock, sweep, tip, left, sent, torn>>

\* internalRemove commits the roster first.
KickMember(m) ==
    /\ kick.pc = "idle" /\ m \in roster \cap Member /\ Spend("kicks")
    /\ roster' = roster \ {m}
    /\ kick' = [NoKick EXCEPT !.pc = "read", !.who = m, !.to = roster \ {m}]
    /\ UNCHANGED <<redis, row, history, known, dist, lock, call, reset, sweep, tip, ghost>>

\* removeMemberState: what the member is owed is read before anything is cleared.
KickRead ==
    /\ kick.pc = "read"
    /\ kick' = [kick EXCEPT !.pc = "round", !.some = row[kick.who] # {}]
    /\ UNCHANGED <<redis, db, known, dist, lock, call, reset, sweep, tip, left, ghost>>

\* The member's part of the round and its own snapshot; other finders' snapshots
\* and the cached distributions keep it.
KickRound ==
    /\ kick.pc = "round"
    /\ window' = {s \in window : s[1] # kick.who}
    /\ snapshot' = [snapshot EXCEPT ![kick.who] = None]
    /\ kick' = [kick EXCEPT !.pc = "delete"]
    /\ UNCHANGED <<db, known, dist, lock, call, reset, sweep, tip, left, ghost>>

KickRow ==
    /\ kick.pc = "delete"
    /\ row' = [row EXCEPT ![kick.who] = {}]
    /\ kick' = [kick EXCEPT !.pc = IF kick.some THEN "find" ELSE "rebuild"]
    /\ UNCHANGED <<redis, history, roster, known, dist, lock, call, reset, sweep, tip, left, ghost>>

\* addPending, one recipient after another: the row is read and saved whole.
FindPending(a) ==
    /\ kick.pc = "find" /\ a \in kick.to
    /\ kick' = [kick EXCEPT !.pc = "save", !.who = a, !.seen = row[a], !.to = @ \ {a},
                               !.late = FALSE]
    /\ UNCHANGED <<redis, db, known, dist, lock, call, reset, sweep, tip, left, ghost>>

SavePending ==
    /\ kick.pc = "save"
    /\ row' = [row EXCEPT ![kick.who] = kick.seen \cup {Credit}]
    /\ back' = back \cup Entering
    /\ kick' = [kick EXCEPT !.pc = IF kick.to = {} THEN "rebuild" ELSE "find"]
    /\ UNCHANGED <<redis, history, roster, known, dist, lock, call, reset, sweep, tip, left,
                   sent, torn, gone>>

\* rebuildCache: only now are the member's shares turned away.
KickRebuild ==
    /\ kick.pc = "rebuild"
    /\ known' = roster
    /\ kick' = NoKick
    /\ UNCHANGED <<redis, db, dist, lock, call, reset, sweep, tip, left, ghost>>

\* sweepGroupDust picks dormant rows; whether one is dormant is the clock's choice.
SweepPick ==
    /\ sweep = {} /\ Spend("sweeps")
    /\ sweep' = {a \in Miner : row[a] # {}} /\ sweep' # {}
    /\ UNCHANGED <<redis, db, known, dist, lock, call, reset, kick, tip, ghost>>

\* One transaction per row, which it deletes whatever it holds by then.
SweepRow(a) ==
    /\ a \in sweep
    /\ sweep' = sweep \ {a}
    /\ row' = [row EXCEPT ![a] = {}]
    /\ UNCHANGED <<redis, history, roster, known, dist, lock, call, reset, kick, tip, left, ghost>>

\* The process dies: Redis and Postgres stay, the miners reconnect.
Restart ==
    /\ Spend("faults")
    /\ known' = roster /\ cache' = {} /\ jobs' = {} /\ lock' = FALSE
    /\ build' = [f \in Miner |-> NoBuild]
    /\ torn' = torn \cup {h \in Booked : call[h].pc \in Locked}
    /\ call' = [h \in Height |-> IF call[h].pc \in Over THEN call[h]
                                 ELSE [call[h] EXCEPT !.pc = "failed", !.split = None]]
    /\ reset' = NoReset /\ kick' = NoKick /\ sweep' = {}
    /\ UNCHANGED <<redis, db, tip, sent, gone, back>>

Next ==
    \/ \E s \in Share : RecordShare(s)
    \/ \E f \in Miner, r \in Reward : NewTemplate(f, r)
    \/ \E f \in Miner : BuildWindow(f) \/ BuildBalances(f) \/ BuildWrite(f)
    \/ Expire
    \/ \E d \in jobs : SolveBlock(d)
    \/ \E h \in Height : CallStep(h) \/ Fail(h)
    \/ ResetStart \/ ResetRound \/ ResetSnapshots \/ ResetRows \/ ResetFail
    \/ \E fs \in SUBSET Miner : ResetSpares(fs)
    \/ \E m \in Member : KickMember(m)
    \/ KickRead \/ KickRound \/ KickRow \/ SavePending \/ KickRebuild
    \/ \E a \in Miner : FindPending(a) \/ SweepRow(a)
    \/ SweepPick \/ Restart

\* The event loop resumes every call whose await has settled.
Fairness == \A h \in Height : WF_vars(CallStep(h))
Spec == Init /\ [][Next]_vars /\ Fairness

-------------------------------------------------------------------------------
\* A work share is paid for by one block of a group that starts over with each
\* block.  Two exceptions, both of them in the code: a build that had read the
\* round before it was emptied stores its result after the snapshots were
\* dropped, and a clean-up that failed or died with the process is not made up.
PaidOnce ==
    left.wipes => \A g, h \in {b \in Booked : b \notin torn /\ ~history[b].late} :
        g = h \/ history[g].shares \cap history[h].shares = {}

\* A booking is in the members' rows until a reset, a sweep or the kick of the
\* member takes it out: a later block, whose balances were computed before it was
\* applied, and the credits of a kick, which are read and saved, leave it in,
\* unless they had read the row before or the booking had been taken out already.
BookingsStay ==
    [][\A a \in Miner : \A h \in (row[a] \cap Height) \ (row'[a] \cup torn \cup back) :
          \/ reset.pc = "rows" /\ reset'.pc = "idle"
          \/ a \in sweep \ sweep'
          \/ kick.pc = "delete" /\ kick.who = a
          \/ kick.pc = "save" /\ kick.late
          \/ \E g \in Booked' \ Booked : history'[g].late]_vars

\* A finished reset has taken everything that was there when it began out of the
\* round, the snapshots and the rows.  Three exceptions, all of them in the code: a
\* build that was in flight meanwhile may store what it read; a booking or a credit
\* that was in flight may put into a row what the reset took out of it, which later
\* builds read; and a reset whose scan failed leaves snapshots as they were.
ResetIsComplete ==
    /\ window \cap gone.shares = {}
    /\ \A f \in Miner : snapshot[f] \notin {None} \cup gone.spared /\ ~snapshot[f].late =>
           /\ snapshot[f].shares \cap gone.shares = {}
           /\ \A a \in Miner : snapshot[f].base[a] \cap gone.events \subseteq back

\* A block is booked from a distribution that names its own finder and reward.
BookedForFinder ==
    \A h \in Booked : history[h].finder = call[h].finder /\ history[h].reward = call[h].reward

\* A share is paid for once, a block is booked with the split its finder mined, and
\* a finished reset leaves nothing of what it found that its scan got through to.
RoundHolds == TypeOK /\ PaidOnce /\ ResetIsComplete /\ BookedForFinder

\* The lock comes free again: no block leaves the group's later blocks unbooked.
LockComesFree == lock ~> ~lock
===============================================================================
