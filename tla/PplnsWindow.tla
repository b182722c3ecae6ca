------------------------------ MODULE PplnsWindow ------------------------------
(***************************************************************************)
(* The PPLNS share window PplnsService keeps in Redis: shares grouped into *)
(* count buckets, an index of the buckets, the window total and the        *)
(* aggregate by address that payouts are computed from; recordShare with   *)
(* the trim that ages buckets out, the periodic rebuild of the aggregate   *)
(* and the migration at start-up.  Every Redis round trip is a step, and   *)
(* as many recordShare calls as there are in Caller overlap.  A share has  *)
(* difficulty 1.                                                           *)
(*                                                                         *)
(* An operator whose name ends in _Faulty or _FaultyN is a broken variant  *)
(* of the definition below it, used by nothing: see PplnsEngine.           *)
(***************************************************************************)
EXTENDS Integers, FiniteSets, FiniteSetsExt, Functions

CONSTANTS
    Miner,
    Caller,         \* recordShare calls in flight
    BucketShares,   \* PPLNS_BUCKET_SHARES
    WindowSize,     \* 4 * network difficulty, once a template has told it
    RecalcEvery,    \* trims between two rebuilds (100000)
    MaxCounter,     \* bound: value of the share counter
    Legacy,         \* window of a deployment without buckets
    LegacyCounter,  \* its share counter
    None

Id == 0..(MaxCounter \div BucketShares)
Empty == [m \in Miner |-> 0]
Weights == [Miner -> 0..MaxCounter]

\* Below twice RecalcEvery no process starts a second rebuild, as in the code
\* where the first is over 100000 trims before.
WindowAssumption ==
    /\ BucketShares \in Nat \ {0} /\ WindowSize \in Nat \ {0}
    /\ MaxCounter \in Nat /\ LegacyCounter \in 0..MaxCounter
    /\ RecalcEvery \in Nat /\ 2 * RecalcEvery > MaxCounter
    /\ Legacy \in Weights /\ None \notin Int

VARIABLES
    counter,    \* Redis: shares ever recorded
    buckets,    \* Redis: pplns:bucket:<id>, Empty when there is no such key
    index,      \* Redis: pplns:buckets
    total,      \* Redis: window total
    agg,        \* Redis: pplns:window:by-address, None for an absent field
    old,        \* Redis: the per-share set of the first layout, by address
    boot,       \* start-up: its step and the window it migrates
    sized,      \* a template has set the network difficulty
    trims,      \* trimCounter % RecalcEvery
    calls,      \* recordShare calls
    past,       \* ghost: an overlap or a failure since the last lone rebuild
    alone       \* ghost: no other call overlaps the rebuild under way

redis == <<counter, buckets, index, total, agg, old>>
vars  == <<redis, boot, sized, trims, calls, past, alone>>

CallPC == {"idle", "multi", "total", "oldest", "bucket", "sub", "hdel", "drop",
           "zrem", "ids", "read", "swap", "set"}
Call   == [pc : CallPC, m : Miner \cup {None}, id : Id \cup {None}, total : Int,
           rest : [Miner -> Nat], removed : Nat, ids : SUBSET Id]
NoCall == [pc |-> "idle", m |-> None, id |-> None, total |-> 0, rest |-> Empty,
           removed |-> 0, ids |-> {}]

Num(v) == IF v = None THEN 0 ELSE v
InBuckets(m) == MapThenSumSet(LAMBDA b : buckets[b][m], index)
Positive(w) == [m \in Miner |-> IF w[m] = None \/ w[m] < 0 THEN 0 ELSE w[m]]
Quiet(c) == \A d \in Caller \ {c} : calls[d].pc = "idle"

\* Redis of a new pool, of one that kept the aggregate beside its per-share set,
\* and of one where only that set survived.
NoField == [m \in Miner |-> None]
OldField == [m \in Miner |-> IF Legacy[m] = 0 THEN None ELSE Legacy[m]]

Init ==
    /\ \/ counter = 0 /\ total = 0 /\ agg = NoField /\ old = Empty
       \/ /\ counter = LegacyCounter /\ old = Legacy
          /\ \/ agg = OldField /\ total = SumFunction(Legacy)
             \/ agg = NoField /\ total = 0
    /\ buckets = [b \in Id |-> Empty] /\ index = {}
    /\ boot = [pc |-> "check", window |-> Empty] /\ sized = FALSE /\ trims = 0
    /\ calls = [c \in Caller |-> NoCall] /\ past = "quiet" /\ alone = FALSE

-------------------------------------------------------------------------------
(* migrateToBuckets, before the first share. *)

Up == boot.pc = "up"
BootTo(pc) == boot' = [boot EXCEPT !.pc = pc]

\* readWindowByAddress.
Window ==
    IF \E m \in Miner : Num(agg[m]) > 0 THEN Positive(agg)
    ELSE [m \in Miner |-> InBuckets(m)]

BootCheck_Faulty ==     \* the per-share set goes before the bucket is there
    LET window == IF Positive(agg) # Empty THEN Positive(agg) ELSE old
    IN  /\ boot.pc = "check"
        /\ IF index # {} \/ window = Empty
           THEN BootTo("up") /\ UNCHANGED old
           ELSE old' = Empty /\ boot' = [pc |-> "bucket", window |-> window]
    /\ UNCHANGED <<counter, buckets, index, total, agg, sized, trims, calls, past, alone>>

\* With buckets a cold aggregate is rebuilt (its swap is the only write of
\* recalculateWindow, whose result is dropped).  Without, the window is taken
\* from the aggregate or else from the per-share set.
BootCheck ==
    LET window == IF Positive(agg) # Empty THEN Positive(agg) ELSE old
        summed == [m \in Miner |-> InBuckets(m)]
    IN  /\ boot.pc = "check"
        /\ IF index # {}
           THEN /\ agg' = IF agg # NoField THEN agg
                          ELSE [m \in Miner |-> IF summed[m] = 0 THEN None ELSE summed[m]]
                /\ BootTo("up")
                /\ UNCHANGED old
           ELSE IF window = Empty
           THEN old' = Empty /\ BootTo("up") /\ UNCHANGED agg
           ELSE boot' = [pc |-> "bucket", window |-> window] /\ UNCHANGED <<agg, old>>
    /\ UNCHANGED <<counter, buckets, index, total, sized, trims, calls, past, alone>>

SeedId == counter \div BucketShares

BootBucket ==
    /\ boot.pc = "bucket"
    /\ buckets' = [buckets EXCEPT ![SeedId] = boot.window]
    /\ BootTo("index")
    /\ UNCHANGED <<counter, index, total, agg, old, sized, trims, calls, past, alone>>

BootIndex ==
    /\ boot.pc = "index"
    /\ index' = index \cup {SeedId}
    /\ BootTo("agg")
    /\ UNCHANGED <<counter, buckets, total, agg, old, sized, trims, calls, past, alone>>

\* The rename of the rebuilt aggregate over the live one.
BootAggregate ==
    /\ boot.pc = "agg"
    /\ agg' = [m \in Miner |-> IF boot.window[m] = 0 THEN None ELSE boot.window[m]]
    /\ BootTo("total")
    /\ UNCHANGED <<counter, buckets, index, total, old, sized, trims, calls, past, alone>>

BootTotal ==
    /\ boot.pc = "total"
    /\ total' = SumFunction(boot.window)
    /\ BootTo("unlink")
    /\ UNCHANGED <<counter, buckets, index, agg, old, sized, trims, calls, past, alone>>

BootUnlink ==
    /\ boot.pc = "unlink"
    /\ old' = Empty
    /\ BootTo("up")
    /\ UNCHANGED <<counter, buckets, index, total, agg, sized, trims, calls, past, alone>>

\* A rejected call ends the migration; onModuleInit logs it and the pool goes up.
BootFail ==
    /\ ~Up
    /\ BootTo("up") /\ past' = "disturbed"
    /\ UNCHANGED <<redis, sized, trims, calls, alone>>

BootStep == BootCheck \/ BootBucket \/ BootIndex \/ BootAggregate \/ BootTotal \/ BootUnlink

\* newMiningJob$: the network difficulty, and with it the size of the window.
SetNetworkDifficulty ==
    /\ Up /\ ~sized
    /\ sized' = TRUE
    /\ UNCHANGED <<redis, boot, trims, calls, past, alone>>

-------------------------------------------------------------------------------
(* recordShare. *)

At(c, pc) == calls[c].pc = pc
Goto(c, pc) == calls' = [calls EXCEPT ![c].pc = pc]

\* Only the running total goes from one round of the trim loop to the next.
Enter(c, pc, t) == calls' = [calls EXCEPT ![c] = [NoCall EXCEPT !.pc = pc, !.total = t]]

\* INCR of the counter, which names the bucket.
Incr(c, m) ==
    /\ Up /\ At(c, "idle") /\ counter < MaxCounter
    /\ counter' = counter + 1
    /\ calls' = [calls EXCEPT ![c] =
                   [NoCall EXCEPT !.pc = "multi", !.m = m, !.id = counter' \div BucketShares]]
    /\ past' = IF Quiet(c) THEN past ELSE "disturbed"
    /\ alone' = (alone /\ Quiet(c))
    /\ UNCHANGED <<buckets, index, total, agg, old, boot, sized, trims>>

\* The MULTI of bucket, index, total and aggregate.  Without a window size the
\* call is over.
Multi(c) ==
    LET m == calls[c].m
        b == calls[c].id
    IN  /\ At(c, "multi")
        /\ buckets' = [buckets EXCEPT ![b][m] = @ + 1]
        /\ index' = index \cup {b}
        /\ total' = total + 1
        /\ agg' = [agg EXCEPT ![m] = Num(@) + 1]
        /\ calls' = [calls EXCEPT ![c] = IF sized THEN [NoCall EXCEPT !.pc = "total"] ELSE NoCall]
        /\ UNCHANGED <<counter, old, boot, sized, trims, past, alone>>

\* The loop of trimWindow is over: count the trim, every RecalcEvery rebuild.
TrimOver(c, t) ==
    /\ trims' = (trims + 1) % RecalcEvery
    /\ Enter(c, IF trims' = 0 THEN "ids" ELSE "set", t)

LoopTest(c, t) ==
    IF t > WindowSize
    THEN Enter(c, "oldest", t) /\ UNCHANGED trims
    ELSE TrimOver(c, t)

ReadTotal(c) ==
    /\ At(c, "total")
    /\ LoopTest(c, total)
    /\ UNCHANGED <<redis, boot, sized, past, alone>>

Oldest_Faulty(c) ==     \* the newest bucket is trimmed too
    /\ At(c, "oldest")
    /\ IF index = {}
       THEN TrimOver(c, calls[c].total)
       ELSE /\ calls' = [calls EXCEPT ![c].pc = "bucket", ![c].id = Min(index)]
            /\ UNCHANGED trims
    /\ UNCHANGED <<redis, boot, sized, past, alone>>

\* zRange of the two oldest buckets; a lone bucket is never trimmed.
Oldest(c) ==
    /\ At(c, "oldest")
    /\ IF Cardinality(index) < 2
       THEN TrimOver(c, calls[c].total)
       ELSE /\ calls' = [calls EXCEPT ![c].pc = "bucket", ![c].id = Min(index)]
            /\ UNCHANGED trims
    /\ UNCHANGED <<redis, boot, sized, past, alone>>

ReadBucket(c) ==
    LET rest == buckets[calls[c].id]
    IN  /\ At(c, "bucket")
        /\ calls' = [calls EXCEPT ![c].pc = IF rest = Empty THEN "drop" ELSE "sub",
                                  ![c].rest = rest,
                                  ![c].removed = SumFunction(rest)]
        /\ UNCHANGED <<redis, boot, sized, trims, past, alone>>

\* hIncrByFloat of one address; a field that reaches zero is deleted after it.
SubNext_Faulty(rest) == "sub"       \* no end to the addresses of a bucket

SubNext(rest) == IF rest = Empty THEN "drop" ELSE "sub"

Subtract(c, m) ==
    LET rest == [calls[c].rest EXCEPT ![m] = 0]
        left == Num(agg[m]) - calls[c].rest[m]
    IN  /\ At(c, "sub") /\ calls[c].rest[m] > 0
        /\ agg' = [agg EXCEPT ![m] = left]
        /\ calls' = [calls EXCEPT ![c].rest = rest, ![c].m = m,
                                  ![c].pc = IF left = 0 THEN "hdel" ELSE SubNext(rest)]
        /\ UNCHANGED <<counter, buckets, index, total, old, boot, sized, trims, past, alone>>

HDel(c) ==
    /\ At(c, "hdel")
    /\ agg' = [agg EXCEPT ![calls[c].m] = None]
    /\ Goto(c, SubNext(calls[c].rest))
    /\ UNCHANGED <<counter, buckets, index, total, old, boot, sized, trims, past, alone>>

DropBucket(c) ==
    /\ At(c, "drop")
    /\ buckets' = [buckets EXCEPT ![calls[c].id] = Empty]
    /\ Goto(c, "zrem")
    /\ UNCHANGED <<counter, index, total, agg, old, boot, sized, trims, past, alone>>

ZRem_Faulty1(c) ==      \* one bucket per share
    /\ At(c, "zrem")
    /\ index' = index \ {calls[c].id}
    /\ TrimOver(c, calls[c].total - calls[c].removed)
    /\ UNCHANGED <<counter, buckets, total, agg, old, boot, sized, past, alone>>

ZRem_Faulty2(c) ==      \* the index entry stays
    /\ At(c, "zrem")
    /\ LoopTest(c, calls[c].total - calls[c].removed)
    /\ UNCHANGED <<redis, boot, sized, past, alone>>

ZRem(c) ==
    /\ At(c, "zrem")
    /\ index' = index \ {calls[c].id}
    /\ LoopTest(c, calls[c].total - calls[c].removed)
    /\ UNCHANGED <<counter, buckets, total, agg, old, boot, sized, past, alone>>

-------------------------------------------------------------------------------
(* recalculateWindow, and the write of the total that ends every trim. *)

ReadIndex(c) ==
    /\ At(c, "ids")
    /\ calls' = [calls EXCEPT ![c].pc = IF index = {} THEN "set" ELSE "read",
                              ![c].ids = index, ![c].rest = Empty]
    /\ alone' = Quiet(c)
    /\ UNCHANGED <<redis, boot, sized, trims, past>>

SumBucket(c) ==
    LET b == Min(calls[c].ids)
    IN  /\ At(c, "read")
        /\ calls' = [calls EXCEPT
                       ![c].ids = @ \ {b},
                       ![c].rest = [m \in Miner |-> @[m] + buckets[b][m]],
                       ![c].pc = IF calls[c].ids = {b} THEN "swap" ELSE "read"]
        /\ UNCHANGED <<redis, boot, sized, trims, past, alone>>

Swap_Faulty(c) ==       \* the total is not rebuilt with the aggregate
    LET sum == calls[c].rest
    IN  /\ At(c, "swap")
        /\ agg' = [m \in Miner |-> IF sum[m] = 0 THEN None ELSE sum[m]]
        /\ Goto(c, "set")
        /\ UNCHANGED <<counter, buckets, index, total, old, boot, sized, trims, past, alone>>

\* The temporary hash is renamed over the live one in one go.
Swap(c) ==
    LET sum == calls[c].rest
    IN  /\ At(c, "swap")
        /\ agg' = [m \in Miner |-> IF sum[m] = 0 THEN None ELSE sum[m]]
        /\ calls' = [calls EXCEPT ![c].total = SumFunction(sum), ![c].pc = "set"]
        /\ UNCHANGED <<counter, buckets, index, total, old, boot, sized, trims, past, alone>>

SetTotal(c) ==
    /\ At(c, "set")
    /\ total' = calls[c].total
    /\ calls' = [calls EXCEPT ![c] = NoCall]
    /\ past' = IF alone THEN "quiet" ELSE past
    /\ alone' = FALSE
    /\ UNCHANGED <<counter, buckets, index, agg, old, boot, sized, trims>>

\* A rejected Redis call ends the recordShare it belongs to.
Fail(c) ==
    /\ ~At(c, "idle")
    /\ calls' = [calls EXCEPT ![c] = NoCall]
    /\ past' = "disturbed" /\ alone' = FALSE
    /\ UNCHANGED <<redis, boot, sized, trims>>

\* The process dies and comes back: the calls and counters in memory are lost.
Restart ==
    /\ calls' = [c \in Caller |-> NoCall] /\ trims' = 0 /\ sized' = FALSE
    /\ boot' = [pc |-> "check", window |-> Empty]
    /\ past' = IF boot.pc \in {"check", "up"} /\ \A c \in Caller : At(c, "idle")
               THEN past ELSE "disturbed"
    /\ alone' = FALSE
    /\ UNCHANGED redis

CallStep(c) ==
    \/ Multi(c) \/ ReadTotal(c) \/ Oldest(c) \/ ReadBucket(c)
    \/ \E m \in Miner : Subtract(c, m)
    \/ HDel(c) \/ DropBucket(c) \/ ZRem(c)
    \/ ReadIndex(c) \/ SumBucket(c) \/ Swap(c) \/ SetTotal(c)

Next ==
    \/ BootStep \/ BootFail \/ SetNetworkDifficulty \/ Restart
    \/ \E c \in Caller : CallStep(c) \/ Fail(c) \/ \E m \in Miner : Incr(c, m)

Spec == Init /\ [][Next]_vars

\* Redis answers, and the event loop resumes the call it answered.
Fairness == \A c \in Caller : WF_vars(CallStep(c))

-------------------------------------------------------------------------------
\* Type invariant: what each step of a call finds in its locals included.
TypeOK ==
    /\ counter \in 0..MaxCounter /\ buckets \in [Id -> [Miner -> Nat]] /\ index \subseteq Id
    /\ total \in Int /\ agg \in [Miner -> Int \cup {None}] /\ old \in [Miner -> Nat]
    /\ \A c \in Caller :
          /\ calls[c].pc \in {"bucket", "sub", "hdel", "drop", "zrem"} => calls[c].id \in Id
          /\ calls[c].pc = "sub" => calls[c].rest # Empty
          /\ calls[c].pc = "read" => calls[c].ids # {}
    /\ boot \in [pc : {"check", "bucket", "index", "agg", "total", "unlink", "up"},
                 window : [Miner -> Nat]]
    /\ sized \in BOOLEAN /\ trims \in Nat /\ calls \in [Caller -> Call]
    /\ past \in {"quiet", "disturbed"} /\ alone \in BOOLEAN

AtRest == Up /\ \A c \in Caller : At(c, "idle")
LockStep ==
    /\ \A m \in Miner : Num(agg[m]) = InBuckets(m)
    /\ total = MapThenSumSet(LAMBDA b : SumFunction(buckets[b]), index)

\* One at a time, calls keep aggregate, total and buckets in lock-step, across
\* trims, restarts between them and a migration that got through; and a rebuild that no other
\* call overlaps brings them back, whatever had happened before.
LockStepWhenQuiet == AtRest /\ past = "quiet" => LockStep

\* What a payout would be computed from after a start that begins here.
Effective ==
    IF index = {} THEN (IF Positive(agg) # Empty THEN Positive(agg) ELSE old) ELSE Window

\* "The live aggregate is never observed empty": once there is a window there is
\* someone to pay, through overlapping trims, rebuilds, failures and crashes.
WindowNeverEmpty == [][Effective # Empty => Effective' # Empty]_vars

\* No step of the start-up changes the window, wherever the migration is interrupted
\* and begun again.
MigrationKeepsWindow == [][boot' # boot => Effective' = Effective]_vars

\* A share adds its difficulty to the window and changes nothing else of it: what an
\* older deployment had is still there after the first share.  Not so after a start
\* whose migration was rejected ("disturbed"): the first share makes the index, and no
\* later start migrates the window that was left behind.
ShareAddsToWindow ==
    [][\A c \in Caller : past = "quiet" /\ At(c, "multi") /\ buckets' # buckets =>
          Effective' = [Effective EXCEPT ![calls[c].m] = @ + 1]]_vars

\* A trim that no other call overlapped leaves "at most one bucket above the
\* target".
TrimMeetsTarget ==
    [][\A c \in Caller :
          At(c, "set") /\ calls'[c].pc = "idle" /\ past = "quiet" /\ Quiet(c) =>
              total' <= WindowSize \/ Cardinality(index') <= 1]_vars

\* Every recordShare comes to an end: its trim loop runs out of buckets.
CallEnds == \A c \in Caller : []<>At(c, "idle")

\* Between calls the aggregate, the total and the index agree with the buckets,
\* unless a crash or a migration has torn them apart.
WindowSafe == TypeOK /\ LockStepWhenQuiet

\* No step of a share, a trim, a crash or the migration empties the window or swaps
\* it for another, and no trim ends above its target.
WindowSteps ==
    /\ WindowNeverEmpty /\ MigrationKeepsWindow /\ ShareAddsToWindow
    /\ TrimMeetsTarget
===============================================================================
