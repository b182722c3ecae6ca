---------------------------- MODULE Groups_proofs ----------------------------
(***************************************************************************)
(* Proofs about groups.  First the engine, for every number of members,    *)
(* shares, heights and rewards, and for every mixture of blocks, builds,   *)
(* resets, kicks, sweeps, failures and restarts, which the run takes one   *)
(* or two at a time.  Then the membership, for every number of addresses,  *)
(* groups and calls in flight, from any rows that calls leave behind.      *)
(***************************************************************************)
EXTENDS MCGroups, Sequences, FiniteSetTheorems, TLAPS

-------------------------------------------------------------------------------
(* The inductive invariant. *)

\* The calls that have booked nothing yet, and those that clean up.
Begun   == {"notify", "precheck", "snapshot", "discard", "window", "balances", "apply"}
Closing == {"flag", "wipe", "drop"}

\* What is held where, and for whom.
BuildShape ==
    \A f \in Miner : build[f].pc # "idle" =>
        build[f].split \in Split /\ build[f].split.finder = f
SnapshotShape == \A f \in Miner : snapshot[f] # None => snapshot[f].finder = f
CallShape ==
    \A h \in Height :
        /\ call[h].pc \in Locked \cup {"notify"} =>
               call[h].finder \in Miner /\ call[h].reward \in Reward /\ h <= tip
        /\ call[h].pc \in {"balances", "apply"} =>
               /\ call[h].split \in Split
               /\ call[h].split.finder = call[h].finder
               /\ call[h].split.reward = call[h].reward
        /\ call[h].pc \in Begun => history[h] = None
        /\ h > tip => call[h].pc = "none" /\ history[h] = None
KickShape == kick.pc # "idle" => kick.who \in Miner

Typed == TypeOK /\ BuildShape /\ SnapshotShape /\ CallShape /\ KickShape

\* The lock is held exactly while a call is in its critical section, by one of them.
LockHeld ==
    /\ lock <=> \E h \in Height : call[h].pc \in Locked
    /\ \A g, h \in Height : call[g].pc \in Locked /\ call[h].pc \in Locked => g = h

\* Whatever holds shares holds shares that were recorded: a new one is in none of them.
SharesSent ==
    /\ window \subseteq sent
    /\ \A f \in Miner : snapshot[f] # None => snapshot[f].shares \subseteq sent
    /\ \A f \in Miner : build[f].pc \in {"balances", "write"} => build[f].split.shares \subseteq sent
    /\ \A h \in Height : call[h].pc \in {"balances", "apply"} => call[h].split.shares \subseteq sent
    /\ \A h \in Height : history[h] # None => history[h].shares \subseteq sent
    /\ gone.shares \subseteq sent /\ reset.shares \subseteq sent

\* Once a booked height has emptied the round, its shares are neither in the round nor
\* in a build that is not late; once it has dropped the snapshots, they are in no
\* snapshot and with no other call.
Clean(b) == history[b] # None /\ b \notin torn /\ ~history[b].late
WipedFrom(b) ==
    /\ window \cap history[b].shares = {}
    /\ \A f \in Miner : build[f].pc \in {"balances", "write"} /\ ~build[f].split.late =>
           build[f].split.shares \cap history[b].shares = {}
DroppedFrom(b) ==
    /\ \A f \in Miner : snapshot[f] # None /\ ~snapshot[f].late =>
           snapshot[f].shares \cap history[b].shares = {}
    /\ \A k \in Height : call[k].pc \in {"balances", "apply"} /\ ~call[k].split.late =>
           call[k].split.shares \cap history[b].shares = {}
PaidApart ==
    left.wipes => \A b \in Height : Clean(b) =>
        /\ call[b].pc \notin {"flag", "wipe"} => WipedFrom(b)
        /\ call[b].pc \notin Closing => DroppedFrom(b)

\* Every event that a row, a distribution or a task knows of has happened.
Known(E) == \A e \in E : e = Credit \/ (e \in Height /\ history[e] # None)
EventsKnown ==
    /\ Known(gone.events) /\ Known(reset.events) /\ Known(kick.seen)
    /\ \A a \in Miner : Known(row[a])
    /\ \A f \in Miner : build[f].pc = "write" => \A a \in Miner : Known(build[f].split.base[a])
    /\ \A f \in Miner : snapshot[f] # None => \A a \in Miner : Known(snapshot[f].base[a])
    /\ \A h \in Height : call[h].pc = "apply" => \A a \in Miner : Known(call[h].split.base[a])

\* What the last finished reset, or the one that runs, has emptied stays empty, but for
\* what a late distribution or a late save puts back.
Forgotten ==
    /\ reset.pc \in {"drop", "rows"} => window \cap reset.shares = {}
    /\ reset.pc = "rows" =>
           \A f \in Miner : snapshot[f] \in {None} \cup reset.spared \/ snapshot[f].late
    /\ \A f \in Miner : build[f].pc \in {"balances", "write"} /\ ~build[f].split.late =>
           build[f].split.shares \cap gone.shares = {}
    /\ \A a \in Miner : row[a] \cap gone.events \subseteq back
    /\ \A f \in Miner : build[f].pc = "write" /\ ~build[f].split.late =>
           \A a \in Miner : build[f].split.base[a] \cap gone.events \subseteq back

\* Whoever will write a row whole has read every booking that is in it.  A snapshot
\* may lack the booking whose clean-up has not dropped it yet, or never will.
Has(E, a) == \A e \in row[a] \cap Height : e \in E \/ e \in back
BaseHas(d, a) == \A e \in row[a] \cap Height : e \in d.base[a] \/ e \in back \/ e \in torn
RowsRead ==
    /\ \A f \in Miner : build[f].pc = "write" /\ ~build[f].split.late =>
           \A a \in Miner : Has(build[f].split.base[a], a)
    /\ \A f \in Miner : snapshot[f] # None /\ ~snapshot[f].late =>
           \A a \in Miner : \A e \in row[a] \cap Height :
               \/ e \in snapshot[f].base[a] \/ e \in back \/ e \in torn
               \/ call[e].pc \in Closing
    /\ \A h \in Height : call[h].pc = "apply" /\ ~call[h].split.late =>
           \A a \in Miner : BaseHas(call[h].split, a)
    /\ kick.pc = "save" /\ ~kick.late => Has(kick.seen, kick.who)

IInv ==
    /\ Typed /\ LockHeld /\ SharesSent /\ PaidApart /\ EventsKnown /\ Forgotten /\ RowsRead
    /\ PaidOnce /\ ResetIsComplete /\ BookedForFinder

-------------------------------------------------------------------------------
(* Types and shapes. *)

\* One build, or one call, replaced by another.
LEMMA BuildSet ==
  ASSUME Typed, NEW f \in Miner, NEW b \in BuildType,
         b.pc # "idle" => b.split \in Split /\ b.split.finder = f,
         build' = [build EXCEPT ![f] = b]
  PROVE  build' \in [Miner -> BuildType] /\ BuildShape'
  BY DEF Typed, TypeOK, BuildShape

LEMMA CallSet ==
  ASSUME Typed, NEW h \in Height, NEW c \in CallType,
         call' = [call EXCEPT ![h] = c],
         tip' \in Int, tip <= tip', h <= tip',
         \A k \in Height : k # h => history'[k] = history[k],
         c.pc \in Locked \cup {"notify"} => c.finder \in Miner /\ c.reward \in Reward,
         c.pc \in {"balances", "apply"} =>
             c.split \in Split /\ c.split.finder = c.finder /\ c.split.reward = c.reward,
         c.pc \in Begun => history'[h] = None
  PROVE  call' \in [Height -> CallType] /\ CallShape'
<1>1. call' \in [Height -> CallType]
  BY DEF Typed, TypeOK
<1>2. \A k \in Height : call'[k] = IF k = h THEN c ELSE call[k]
  BY DEF Typed, TypeOK
<1>3. tip \in Int /\ Height \subseteq Int
  BY SoloAssumption DEF Typed, TypeOK, Height
<1>4. ASSUME NEW k \in Height, k # h
      PROVE  /\ call'[k].pc \in Locked \cup {"notify"} =>
                    call'[k].finder \in Miner /\ call'[k].reward \in Reward /\ k <= tip'
             /\ call'[k].pc \in {"balances", "apply"} =>
                    /\ call'[k].split \in Split
                    /\ call'[k].split.finder = call'[k].finder
                    /\ call'[k].split.reward = call'[k].reward
             /\ call'[k].pc \in Begun => history'[k] = None
             /\ k > tip' => call'[k].pc = "none" /\ history'[k] = None
  BY <1>2, <1>3, <1>4 DEF Typed, CallShape
<1>5. ~(h > tip')
  BY <1>3
<1> QED BY <1>1, <1>2, <1>4, <1>5 DEF CallShape

\* A jump of a running call to a step that holds no distribution.
LEMMA GotoType ==
  ASSUME Typed, NEW h \in Height, NEW p, Goto(h, p), UNCHANGED <<history, tip>>,
         call[h].pc \in Locked \cup {"notify"}, p \in (Locked \cup Over) \ {"balances", "apply"},
         p \in Begun => call[h].pc \in Begun
  PROVE  call' \in [Height -> CallType] /\ CallShape'
<1> DEFINE c == [call[h] EXCEPT !.pc = p]
<1>1. c \in CallType /\ c.pc = p /\ c.finder = call[h].finder /\ c.reward = call[h].reward
  BY DEF Typed, TypeOK, CallType
<1>2. call' = [call EXCEPT ![h] = c]
  BY DEF Goto, Typed, TypeOK
<1>3. c.finder \in Miner /\ c.reward \in Reward /\ h <= tip
  BY <1>1 DEF Typed, CallShape
<1>4. tip' \in Int /\ tip <= tip' /\ h <= tip'
  BY <1>3 DEF Typed, TypeOK
<1>5. \A k \in Height : k # h => history'[k] = history[k]
  OBVIOUS
<1>6. c.pc \in Begun => history'[h] = None
  BY DEF Typed, CallShape
<1>7. c.pc \notin {"balances", "apply"}
  BY <1>1
<1> HIDE DEF c
<1> QED BY <1>1, <1>2, <1>3, <1>4, <1>5, <1>6, <1>7, CallSet

\* What Late does to the builds and calls in flight.
LEMMA LateType ==
  ASSUME NEW d \in Split \cup {None}
  PROVE  /\ Late(d) \in Split \cup {None} /\ (Late(d) = None <=> d = None)
         /\ d \in Split => /\ Late(d) \in Split /\ Late(d).late
                           /\ Late(d).finder = d.finder /\ Late(d).reward = d.reward
                           /\ Late(d).shares = d.shares /\ Late(d).base = d.base
  BY SoloAssumption DEF Late, Split

LEMMA LateBuildsEffect ==
  ASSUME Typed, build' = LateBuilds
  PROVE  /\ build' \in [Miner -> BuildType] /\ BuildShape'
         /\ \A f \in Miner : build'[f].pc = build[f].pc /\ build'[f].split = Late(build[f].split)
<1>1. ASSUME NEW f \in Miner
      PROVE  /\ build'[f] \in BuildType /\ build'[f].pc = build[f].pc
             /\ build'[f].split = Late(build[f].split)
  <2>1. build[f] \in BuildType /\ build'[f] = [build[f] EXCEPT !.split = Late(@)]
    BY DEF LateBuilds, Typed, TypeOK
  <2>2. Late(build[f].split) \in Split \cup {None}
    BY <2>1, LateType DEF BuildType
  <2> QED BY <2>1, <2>2 DEF BuildType
<1>2. build' \in [Miner -> BuildType]
  BY <1>1 DEF LateBuilds
<1>3. ASSUME NEW f \in Miner, build'[f].pc # "idle"
      PROVE  build'[f].split \in Split /\ build'[f].split.finder = f
  BY <1>1, <1>3, LateType DEF Typed, BuildShape
<1> QED BY <1>1, <1>2, <1>3 DEF BuildShape

LEMMA LateCallsEffect ==
  ASSUME Typed, call' = LateCalls
  PROVE  /\ call' \in [Height -> CallType]
         /\ UNCHANGED <<history, tip>> => CallShape'
         /\ \A h \in Height :
              /\ call'[h].pc = call[h].pc /\ call'[h].finder = call[h].finder
              /\ call'[h].reward = call[h].reward
              /\ call'[h].split = IF call[h].pc \in Locked THEN Late(call[h].split)
                                                           ELSE call[h].split
<1>1. ASSUME NEW h \in Height
      PROVE  /\ call'[h] \in CallType /\ call'[h].pc = call[h].pc
             /\ call'[h].finder = call[h].finder /\ call'[h].reward = call[h].reward
             /\ call'[h].split = IF call[h].pc \in Locked THEN Late(call[h].split)
                                                          ELSE call[h].split
  <2>1. call[h] \in CallType
    BY DEF Typed, TypeOK
  <2>2. CASE call[h].pc \in Locked
    <3>1. call'[h] = [call[h] EXCEPT !.split = Late(@)]
      BY <2>2 DEF LateCalls
    <3>2. Late(call[h].split) \in Split \cup {None}
      BY <2>1, LateType DEF CallType
    <3> QED BY <2>1, <2>2, <3>1, <3>2 DEF CallType
  <2>3. CASE call[h].pc \notin Locked
    BY <2>1, <2>3 DEF LateCalls
  <2> QED BY <2>2, <2>3
<1>2. call' \in [Height -> CallType]
  BY <1>1 DEF LateCalls
<1>3. ASSUME NEW h \in Height, call[h].pc \in {"balances", "apply"}
      PROVE  /\ call'[h].split \in Split /\ call'[h].split.finder = call[h].finder
             /\ call'[h].split.reward = call[h].reward
  BY <1>1, <1>3, LateType DEF Typed, CallShape, Locked
<1> QED BY <1>1, <1>2, <1>3 DEF Typed, CallShape

\* The records of nothing.
LEMMA NoRecords ==
    /\ NoBuild \in BuildType /\ NoBuild.pc = "idle" /\ NoReset \in ResetType
    /\ NoCall \in CallType /\ NoCall.pc = "none"
    /\ NoKick \in KickType /\ NoKick.pc = "idle" /\ ~NoKick.late
    /\ NoRows \in Row /\ \A a \in Miner : NoRows[a] = {}
  BY DEF NoBuild, NoReset, NoCall, NoKick, BuildType, ResetType, CallType, KickType, Over,
     NoRows, Row

LEMMA InitTyped == Init => Typed
<1> SUFFICES ASSUME Init PROVE Typed
  OBVIOUS
<1>1. left \in Case /\ window \subseteq Share
  BY SoloAssumption DEF Init, Case
<1>2. TypeOK
  <2>1. /\ snapshot \in [Miner -> Split \cup {None}] /\ row \in Row
        /\ history \in [Height -> Split \cup {None}] /\ build \in [Miner -> BuildType]
        /\ call \in [Height -> CallType] /\ reset \in ResetType /\ kick \in KickType
    BY NoRecords DEF Init
  <2>2. tip \in 0..MaxHeight
    BY SoloAssumption DEF Init
  <2>3. gone \in [shares : SUBSET Share, events : SUBSET Event, spared : SUBSET Split]
    BY DEF Init
  <2> QED BY <1>1, <2>1, <2>2, <2>3 DEF Init, TypeOK
<1>3. \A h \in Height : call[h].pc = "none" /\ history[h] = None
  BY NoRecords DEF Init
<1>4. CallShape
  BY <1>3 DEF CallShape, Locked, Begun
<1>5. BuildShape /\ SnapshotShape /\ KickShape
  BY NoRecords DEF Init, BuildShape, SnapshotShape, KickShape
<1> QED BY <1>2, <1>4, <1>5 DEF Typed

\* Every row keeps its type when some of them are emptied or written.
LEMMA RowSet ==
  ASSUME Typed, NEW a \in Miner, NEW E \in SUBSET Event, row' = [row EXCEPT ![a] = E]
  PROVE  row' \in Row
  BY DEF Typed, TypeOK, Row

\* Deleting some of the snapshots leaves the others as they were.
LEMMA KeepEffect ==
  ASSUME Typed, NEW fs \in SUBSET Miner, KeepSnapshots(fs)
  PROVE  /\ snapshot' \in [Miner -> Split \cup {None}]
         /\ \A f \in Miner : snapshot'[f] = snapshot[f] \/ snapshot'[f] = None
         /\ SnapshotShape'
<1>1. \A f \in Miner : snapshot'[f] = snapshot[f] \/ snapshot'[f] = None
  BY DEF KeepSnapshots
<1>2. snapshot' \in [Miner -> Split \cup {None}]
  BY DEF KeepSnapshots, Typed, TypeOK
<1> QED BY <1>1, <1>2 DEF Typed, SnapshotShape

LEMMA ResetSparesEffect ==
  ASSUME Typed, NEW fs \in SUBSET Miner, ResetSpares(fs)
  PROVE  /\ reset.pc = "drop" /\ reset'.pc = "rows" /\ reset' \in ResetType
         /\ reset'.shares = reset.shares /\ reset'.events = reset.events
         /\ \A f \in Miner : snapshot'[f] \in {None} \cup reset'.spared
<1> DEFINE D == {snapshot[f] : f \in fs} \ {None}
<1>1. D \in SUBSET Split
  BY DEF Typed, TypeOK
<1>2. reset.pc = "drop" /\ reset' = [reset EXCEPT !.pc = "rows", !.spared = D]
  BY DEF ResetSpares
<1>3. \A f \in Miner : snapshot'[f] \in {None} \cup D
  BY DEF ResetSpares, KeepSnapshots
<1> HIDE DEF D
<1>4. /\ reset'.pc = "rows" /\ reset'.spared = D /\ reset' \in ResetType
      /\ reset'.shares = reset.shares /\ reset'.events = reset.events
  BY <1>1, <1>2 DEF Typed, TypeOK, ResetType
<1> QED BY <1>2, <1>3, <1>4

LEMMA TypedStep == Typed /\ [Next]_vars => Typed'
<1> SUFFICES ASSUME Typed, [Next]_vars PROVE Typed'
  OBVIOUS
<1> USE DEF redis, db, dist, tasks, ghost
<1>1. CASE UNCHANGED vars
  BY <1>1 DEF vars, Typed, TypeOK, BuildShape, SnapshotShape, CallShape, KickShape
<1>2. ASSUME NEW s \in Share, RecordShare(s) PROVE Typed'
  BY <1>2 DEF RecordShare, Typed, TypeOK, BuildShape, SnapshotShape, CallShape, KickShape
<1>3. ASSUME NEW f \in Miner, NEW r \in Reward, NewTemplate(f, r) PROVE Typed'
  <2>1. jobs' \subseteq Split
    BY <1>3 DEF NewTemplate, Cached, Typed, TypeOK
  <2>2. left' \in Case
    BY <1>3 DEF NewTemplate, Typed, TypeOK, Case
  <2>3. build' \in [Miner -> BuildType] /\ BuildShape'
    <3> DEFINE d == [finder |-> f, reward |-> r, shares |-> {}, base |-> NoRows, late |-> FALSE]
               b == [pc |-> "window", wanted |-> TRUE, split |-> d]
    <3>1. d \in Split /\ d.finder = f
      BY NoRecords DEF Split
    <3>2. b \in BuildType /\ b.split = d
      BY <3>1 DEF BuildType
    <3>3. build' = build \/ build' = [build EXCEPT ![f] = b]
      BY <1>3 DEF NewTemplate
    <3> HIDE DEF d, b
    <3>4. CASE build' = build
      BY <3>4 DEF Typed, TypeOK, BuildShape
    <3>5. CASE build' = [build EXCEPT ![f] = b]
      BY <3>1, <3>2, <3>5, BuildSet
    <3> QED BY <3>3, <3>4, <3>5
  <2> QED BY <1>3, <2>1, <2>2, <2>3
          DEF NewTemplate, Typed, TypeOK, SnapshotShape, CallShape, KickShape
<1>4. ASSUME NEW f \in Miner, BuildWindow(f) PROVE Typed'
  <2> DEFINE d == [build[f].split EXCEPT !.shares = window, !.late = FALSE]
             b == [build[f] EXCEPT !.pc = "balances", !.split = d]
  <2>1. d \in Split /\ d.finder = f
    <3>1. build[f].split \in Split /\ build[f].split.finder = f /\ window \in SUBSET Share
      BY <1>4 DEF BuildWindow, Typed, TypeOK, BuildShape
    <3> QED BY <3>1 DEF Split
  <2> HIDE DEF d
  <2>2. b \in BuildType /\ b.split = d
    BY ZenonT(60), <2>1 DEF BuildType, Typed, TypeOK
  <2>3. \/ Resolve(f, d)
        \/ build' = [build EXCEPT ![f] = b] /\ UNCHANGED <<cache, jobs>>
    BY <1>4 DEF BuildWindow, d, Typed, TypeOK
  <2> HIDE DEF b
  <2>4. build' \in [Miner -> BuildType] /\ BuildShape'
    BY <2>1, <2>2, <2>3, NoRecords, BuildSet DEF Resolve
  <2>5. cache' \subseteq Split /\ jobs' \subseteq Split
    BY <2>1, <2>3 DEF Resolve, Typed, TypeOK
  <2> QED BY <1>4, <2>4, <2>5
             DEF BuildWindow, Typed, TypeOK, SnapshotShape, CallShape, KickShape
<1>5. ASSUME NEW f \in Miner, BuildBalances(f) PROVE Typed'
  <2> DEFINE d == [build[f].split EXCEPT !.base = row]
             b == [build[f] EXCEPT !.pc = "write", !.split = d]
  <2>1. d \in Split /\ d.finder = f
    BY <1>5 DEF BuildBalances, Typed, TypeOK, BuildShape, Split
  <2>2. build' = [build EXCEPT ![f] = b]
    BY <1>5 DEF BuildBalances, Typed, TypeOK, BuildType
  <2> HIDE DEF d
  <2>3. b \in BuildType /\ b.split = d
    BY ZenonT(60), <2>1 DEF BuildType, Typed, TypeOK
  <2> HIDE DEF b
  <2>4. build' \in [Miner -> BuildType] /\ BuildShape'
    BY <2>1, <2>2, <2>3, BuildSet
  <2> QED BY <1>5, <2>4 DEF BuildBalances, Typed, TypeOK, SnapshotShape, CallShape, KickShape
<1>6. ASSUME NEW f \in Miner, BuildWrite(f) PROVE Typed'
  <2> DEFINE d == IF reset.pc = "rows" THEN Late(build[f].split) ELSE build[f].split
  <2>1. d \in Split /\ d.finder = f
    BY <1>6, LateType DEF BuildWrite, Typed, TypeOK, BuildShape
  <2>2. snapshot' = [snapshot EXCEPT ![f] = d] /\ Resolve(f, d)
    BY <1>6 DEF BuildWrite
  <2> HIDE DEF d
  <2>3. build' \in [Miner -> BuildType] /\ BuildShape'
    BY <2>2, NoRecords, BuildSet DEF Resolve
  <2>4. cache' \subseteq Split /\ jobs' \subseteq Split
    BY <2>1, <2>2 DEF Resolve, Typed, TypeOK
  <2>5. snapshot' \in [Miner -> Split \cup {None}] /\ SnapshotShape'
    BY <2>1, <2>2 DEF Typed, TypeOK, SnapshotShape
  <2> QED BY <1>6, <2>3, <2>4, <2>5 DEF BuildWrite, Typed, TypeOK, CallShape, KickShape
<1>7. CASE Expire
  <2>1. left' \in Case
    BY <1>7 DEF Expire, Spend, Typed, TypeOK, Case
  <2> QED BY <1>7, <2>1
             DEF Expire, Typed, TypeOK, BuildShape, SnapshotShape, CallShape, KickShape
<1>8. ASSUME NEW d \in jobs, SolveBlock(d) PROVE Typed'
  <2> DEFINE h == tip + 1
             c == [NoCall EXCEPT !.pc = "notify", !.finder = d.finder, !.reward = d.reward]
  <2>1. left.blocks \in 0..MaxHeight /\ tip \in Int
    BY DEF Typed, TypeOK, Case
  <2>2. h \in Height /\ h \in 0..MaxHeight /\ tip < h /\ tip' = h
    BY <1>8, <2>1, SoloAssumption DEF SolveBlock, Height, Typed, TypeOK
  <2>3. d \in Split
    BY DEF Typed, TypeOK
  <2>4. c \in CallType /\ c.pc = "notify" /\ c.finder \in Miner /\ c.reward \in Reward
    BY <2>3 DEF Split, CallType, NoCall
  <2>5. call' = [call EXCEPT ![h] = c] /\ UNCHANGED history
    BY <1>8 DEF SolveBlock
  <2>6. history[h] = None
    BY <2>2 DEF Typed, CallShape
  <2> HIDE DEF c, h
  <2>7. /\ tip' \in Int /\ tip <= tip' /\ h <= tip'
        /\ history'[h] = None /\ \A k \in Height : k # h => history'[k] = history[k]
    BY <2>1, <2>2, <2>5, <2>6
  <2>8. call' \in [Height -> CallType] /\ CallShape'
    BY <2>2, <2>4, <2>5, <2>6, <2>7, CallSet
  <2>9. build' \in [Miner -> BuildType] /\ BuildShape'
    <3>1. \A f \in Miner : /\ build'[f] \in BuildType /\ build'[f].pc = build[f].pc
                           /\ build'[f].split = build[f].split
      BY <1>8 DEF SolveBlock, Typed, TypeOK, BuildType
    <3> QED BY <1>8, <3>1 DEF SolveBlock, Typed, TypeOK, BuildShape
  <2> QED BY <1>8, <2>2, <2>8, <2>9 DEF SolveBlock, Typed, TypeOK, SnapshotShape, KickShape
<1>9. ASSUME NEW h \in Height, Enter(h) PROVE Typed'
  <2>1. call' \in [Height -> CallType] /\ CallShape'
    BY <1>9, GotoType DEF Enter, Locked, Over, Begun
  <2> QED BY <1>9, <2>1 DEF Enter, Typed, TypeOK, BuildShape, SnapshotShape, KickShape
<1>10. ASSUME NEW h \in Height, PreCheck(h) PROVE Typed'
  <2>1. call' \in [Height -> CallType] /\ CallShape'
    BY <1>10, GotoType DEF PreCheck, Leave, Locked, Over, Begun
  <2> QED BY <1>10, <2>1
             DEF PreCheck, Leave, Typed, TypeOK, BuildShape, SnapshotShape, KickShape
<1>11. ASSUME NEW h \in Height, ReadSnapshot(h) PROVE Typed'
  <2>1. call[h].finder \in Miner /\ call[h].reward \in Reward /\ history[h] = None
    BY <1>11 DEF ReadSnapshot, Typed, CallShape, Locked, Begun
  <2> DEFINE d == snapshot[call[h].finder]
             c == IF d = None THEN [call[h] EXCEPT !.pc = "window"]
                  ELSE IF d.reward # call[h].reward THEN [call[h] EXCEPT !.pc = "discard"]
                  ELSE [call[h] EXCEPT !.pc = "apply", !.split = d]
  <2>2. d \in Split \cup {None} /\ (d # None => d.finder = call[h].finder)
    BY <2>1 DEF Typed, TypeOK, SnapshotShape
  <2>3. call' = [call EXCEPT ![h] = c]
    BY <1>11 DEF ReadSnapshot, SnapshotFor, Typed, TypeOK
  <2> HIDE DEF d
  <2>4. /\ c \in CallType /\ c.finder = call[h].finder /\ c.reward = call[h].reward
        /\ c.pc \notin {"balances"}
        /\ c.pc = "apply" => c.split = d /\ d \in Split /\ d.finder = c.finder /\ d.reward = c.reward
    BY ZenonT(60), <2>2 DEF Typed, TypeOK, CallType, Locked, Over
  <2> HIDE DEF c
  <2>5 /\ tip' \in Int /\ tip <= tip' /\ h <= tip'
        /\ history' = history /\ \A k \in Height : k # h => history'[k] = history[k]
    BY <1>11 DEF ReadSnapshot, Typed, TypeOK, CallShape, Locked
  <2>6. call' \in [Height -> CallType] /\ CallShape'
    BY <2>1, <2>3, <2>4, <2>5, CallSet
  <2> QED BY <1>11, <2>6 DEF ReadSnapshot, Typed, TypeOK, BuildShape, SnapshotShape, KickShape
<1>12. ASSUME NEW h \in Height, Discard(h) PROVE Typed'
  <2>1. call' \in [Height -> CallType] /\ CallShape'
    BY <1>12, GotoType DEF Discard, Locked, Over, Begun
  <2> QED BY <1>12, <2>1 DEF Discard, Typed, TypeOK, BuildShape, SnapshotShape, KickShape
<1>13. ASSUME NEW h \in Height, ReadWindow(h) PROVE Typed'
  <2>1. call[h].finder \in Miner /\ call[h].reward \in Reward /\ history[h] = None
    BY <1>13 DEF ReadWindow, Typed, CallShape, Locked, Begun
  <2>2 /\ tip' \in Int /\ tip <= tip' /\ h <= tip'
        /\ history' = history /\ \A k \in Height : k # h => history'[k] = history[k]
    BY <1>13 DEF ReadWindow, Typed, TypeOK, CallShape, Locked
  <2>3. CASE window = {}
    <3>1. Goto(h, "flag")
      BY <1>13, <2>3 DEF ReadWindow, Goto, Typed, TypeOK
    <3>2. call' \in [Height -> CallType] /\ CallShape'
      BY <1>13, <2>2, <3>1, GotoType DEF ReadWindow, Locked, Over, Begun
    <3> QED BY <1>13, <3>2 DEF ReadWindow, Typed, TypeOK, BuildShape, SnapshotShape, KickShape
  <2>4. CASE window # {}
    <3> DEFINE d == [finder |-> call[h].finder, reward |-> call[h].reward,
                     shares |-> window, base |-> NoRows, late |-> FALSE]
               c == [call[h] EXCEPT !.pc = "balances", !.split = d]
    <3>1. d \in Split /\ d.finder = call[h].finder /\ d.reward = call[h].reward
      BY <2>1, NoRecords DEF Split, Typed, TypeOK
    <3>2. call' = [call EXCEPT ![h] = c]
      BY <1>13, <2>4 DEF ReadWindow, Typed, TypeOK
    <3> HIDE DEF d
    <3>3. /\ c \in CallType /\ c.finder = call[h].finder /\ c.reward = call[h].reward
          /\ c.pc = "balances" /\ c.split = d
      BY <3>1 DEF Typed, TypeOK, CallType, Locked
    <3> HIDE DEF c
    <3>4. call' \in [Height -> CallType] /\ CallShape'
      BY <2>1, <2>2, <3>1, <3>2, <3>3, CallSet
    <3> QED BY <1>13, <3>4 DEF ReadWindow, Typed, TypeOK, BuildShape, SnapshotShape, KickShape
  <2> QED BY <2>3, <2>4
<1>14. ASSUME NEW h \in Height, ReadBalances(h) PROVE Typed'
  <2>1. /\ call[h].finder \in Miner /\ call[h].reward \in Reward /\ history[h] = None
        /\ call[h].split \in Split /\ call[h].split.finder = call[h].finder
        /\ call[h].split.reward = call[h].reward
    BY <1>14 DEF ReadBalances, Typed, CallShape, Locked, Begun
  <2>2 /\ tip' \in Int /\ tip <= tip' /\ h <= tip'
        /\ history' = history /\ \A k \in Height : k # h => history'[k] = history[k]
    BY <1>14 DEF ReadBalances, Typed, TypeOK, CallShape, Locked
  <2> DEFINE d == [call[h].split EXCEPT !.base = row]
             c == [call[h] EXCEPT !.pc = "apply", !.split = d]
  <2>3. d \in Split /\ d.finder = call[h].finder /\ d.reward = call[h].reward
    BY <2>1 DEF Split, Typed, TypeOK
  <2>4. call' = [call EXCEPT ![h] = c]
    BY <1>14 DEF ReadBalances, Typed, TypeOK, CallType
  <2> HIDE DEF d
  <2>5. /\ c \in CallType /\ c.finder = call[h].finder /\ c.reward = call[h].reward
        /\ c.pc = "apply" /\ c.split = d
    BY <2>3 DEF Typed, TypeOK, CallType, Locked
  <2> HIDE DEF c
  <2>6. call' \in [Height -> CallType] /\ CallShape'
    BY <2>1, <2>2, <2>3, <2>4, <2>5, CallSet
  <2> QED BY <1>14, <2>6 DEF ReadBalances, Typed, TypeOK, BuildShape, SnapshotShape, KickShape
<1>15. ASSUME NEW h \in Height, Apply(h) PROVE Typed'
  <2>1. call[h].split \in Split /\ call[h].pc = "apply" /\ call[h].finder \in Miner
    BY <1>15 DEF Apply, Typed, CallShape, Locked
  <2>2. RowsAfter(h, call[h].split) \in Row
    BY <2>1 DEF RowsAfter, Split, Row, Event, Typed, TypeOK
  <2>3. Entering \subseteq Event
    BY <1>15, <2>2 DEF Apply, Entering, Row
  <2>4. history' \in [Height -> Split \cup {None}] /\ \A k \in Height : k # h => history'[k] = history[k]
    BY <1>15, <2>1 DEF Apply, Typed, TypeOK
  <2>5. call' \in [Height -> CallType] /\ CallShape'
    <3> DEFINE c == [call[h] EXCEPT !.pc = "flag"]
    <3>1. call' = [call EXCEPT ![h] = c]
      BY <1>15 DEF Apply, Goto, Typed, TypeOK
    <3>2. /\ c \in CallType /\ c.pc = "flag" /\ c.finder = call[h].finder
          /\ c.reward = call[h].reward
      BY DEF Typed, TypeOK, CallType, Locked
    <3> HIDE DEF c
    <3>3. c.finder \in Miner /\ c.reward \in Reward /\ h <= tip /\ tip \in Int
      BY <2>1, <3>2 DEF Typed, TypeOK, CallShape, Locked
    <3>4. tip' \in Int /\ tip <= tip' /\ h <= tip'
      BY <1>15, <3>3 DEF Apply
    <3>5. c.pc \notin Begun /\ c.pc \notin {"balances", "apply"}
      BY <3>2 DEF Begun
    <3> QED BY <2>4, <3>1, <3>2, <3>3, <3>4, <3>5, CallSet
  <2>6. build' \in [Miner -> BuildType] /\ BuildShape'
    BY <1>15, LateBuildsEffect DEF Apply
  <2>7. kick' \in KickType /\ KickShape'
    BY <1>15 DEF Apply, LateKick, Typed, TypeOK, KickType, KickShape
  <2>8. row' \in Row /\ back' \subseteq Event
    BY <1>15, <2>2, <2>3 DEF Apply, Typed, TypeOK
  <2> QED BY <1>15, <2>4, <2>5, <2>6, <2>7, <2>8 DEF Apply, Typed, TypeOK, SnapshotShape
<1>16. ASSUME NEW h \in Height, ReadFlag(h) PROVE Typed'
  <2>1. call' \in [Height -> CallType] /\ CallShape'
    BY <1>16, GotoType DEF ReadFlag, Locked, Over, Begun
  <2> QED BY <1>16, <2>1 DEF ReadFlag, Typed, TypeOK, BuildShape, SnapshotShape, KickShape
<1>17. ASSUME NEW h \in Height, Wipe(h) PROVE Typed'
  <2>1. call' \in [Height -> CallType] /\ CallShape'
    BY <1>17, GotoType DEF Wipe, Locked, Over, Begun
  <2>2. build' \in [Miner -> BuildType] /\ BuildShape'
    BY <1>17, LateBuildsEffect DEF Wipe, EmptyRound
  <2> QED BY <1>17, <2>1, <2>2 DEF Wipe, EmptyRound, Typed, TypeOK, SnapshotShape, KickShape
<1>18. ASSUME NEW h \in Height, DropSnapshots(h) PROVE Typed'
  <2>1. call' \in [Height -> CallType] /\ CallShape'
    BY <1>18, GotoType DEF DropSnapshots, Leave, Locked, Over, Begun
  <2> QED BY <1>18, <2>1
             DEF DropSnapshots, Leave, Typed, TypeOK, BuildShape, SnapshotShape, KickShape
<1>19. ASSUME NEW h \in Height, Fail(h) PROVE Typed'
  <2>1. call' \in [Height -> CallType] /\ CallShape'
    BY <1>19, GotoType DEF Fail, Leave, Locked, Over, Begun
  <2>2. left' \in Case
    BY <1>19 DEF Fail, Spend, Typed, TypeOK, Case
  <2>3. torn' \subseteq Height /\ lock' \in BOOLEAN
    BY <1>19 DEF Fail, Leave, Typed, TypeOK
  <2>4. snapshot' \in [Miner -> Split \cup {None}] /\ SnapshotShape' /\ window' \subseteq Share
    BY <1>19, KeepEffect DEF Fail, Typed, TypeOK, SnapshotShape
  <2> QED BY <1>19, <2>1, <2>2, <2>3, <2>4
             DEF Fail, Typed, TypeOK, BuildShape, KickShape
<1>20. CASE ResetStart
  <2>1. left' \in Case
    BY <1>20 DEF ResetStart, Spend, Typed, TypeOK, Case
  <2>2. Booked \cup (IF kick.pc = "idle" THEN {Credit} ELSE {}) \in SUBSET Event
    BY DEF Booked, Event
  <2>3. reset' \in ResetType
    BY <1>20, <2>2 DEF ResetStart, Typed, TypeOK, ResetType
  <2> QED BY <1>20, <2>1, <2>3
             DEF ResetStart, Typed, TypeOK, BuildShape, SnapshotShape, CallShape, KickShape
<1>21. CASE ResetRound
  <2>1. call' \in [Height -> CallType] /\ CallShape'
    BY <1>21, LateCallsEffect DEF ResetRound
  <2>2. build' \in [Miner -> BuildType] /\ BuildShape'
    BY <1>21, LateBuildsEffect DEF ResetRound, EmptyRound
  <2>3. reset' \in ResetType
    BY <1>21 DEF ResetRound, Typed, TypeOK, ResetType
  <2> QED BY <1>21, <2>1, <2>2, <2>3
             DEF ResetRound, EmptyRound, Typed, TypeOK, SnapshotShape, KickShape
<1>22. CASE ResetSnapshots
  <2>1. reset' \in ResetType
    BY <1>22 DEF ResetSnapshots, Typed, TypeOK, ResetType
  <2> QED BY <1>22, <2>1
             DEF ResetSnapshots, Typed, TypeOK, BuildShape, SnapshotShape, CallShape,
                 KickShape
<1>23. CASE ResetRows
  <2>1. call' \in [Height -> CallType] /\ CallShape'
    BY <1>23, LateCallsEffect DEF ResetRows
  <2>2. build' \in [Miner -> BuildType] /\ BuildShape'
    BY <1>23, LateBuildsEffect DEF ResetRows
  <2>3. kick' \in KickType /\ KickShape'
    BY <1>23 DEF ResetRows, LateKick, Typed, TypeOK, KickType, KickShape
  <2>4. gone' \in [shares : SUBSET Share, events : SUBSET Event, spared : SUBSET Split]
    BY <1>23 DEF ResetRows, Typed, TypeOK, ResetType
  <2>5. row' \in Row /\ reset' \in ResetType
    BY <1>23, NoRecords DEF ResetRows
  <2> QED BY <1>23, <2>1, <2>2, <2>3, <2>4, <2>5 DEF ResetRows, Typed, TypeOK, SnapshotShape
<1>24. ASSUME NEW m \in Member, KickMember(m) PROVE Typed'
  <2>1. left' \in Case
    BY <1>24 DEF KickMember, Spend, Typed, TypeOK, Case
  <2>2. kick' \in KickType /\ KickShape'
    BY <1>24 DEF KickMember, NoKick, Typed, TypeOK, KickType, KickShape, Miner
  <2> QED BY <1>24, <2>1, <2>2
             DEF KickMember, Typed, TypeOK, BuildShape, SnapshotShape, CallShape
<1>25. CASE KickRead
  <2>1. kick' \in KickType /\ KickShape'
    BY <1>25 DEF KickRead, Typed, TypeOK, KickType, KickShape
  <2> QED BY <1>25, <2>1 DEF KickRead, Typed, TypeOK, BuildShape, SnapshotShape, CallShape
<1>26. CASE KickRound
  <2>1. kick' \in KickType /\ KickShape'
    BY <1>26 DEF KickRound, Typed, TypeOK, KickType, KickShape
  <2> QED BY <1>26, <2>1 DEF KickRound, Typed, TypeOK, BuildShape, SnapshotShape, CallShape
<1>27. CASE KickRow
  <2>1. kick' \in KickType /\ KickShape'
    BY <1>27 DEF KickRow, Typed, TypeOK, KickType, KickShape
  <2>2. row' \in Row
    BY ZenonT(60), <1>27, RowSet DEF KickRow, Typed, KickShape
  <2> QED BY <1>27, <2>1, <2>2 DEF KickRow, Typed, TypeOK, BuildShape, SnapshotShape, CallShape
<1>28. ASSUME NEW a \in Miner, FindPending(a) PROVE Typed'
  <2>1. kick' \in KickType /\ KickShape'
    BY <1>28 DEF FindPending, Typed, TypeOK, KickType, KickShape, Row
  <2> QED BY <1>28, <2>1 DEF FindPending, Typed, TypeOK, BuildShape, SnapshotShape, CallShape
<1>29. CASE SavePending
  <2>1. kick' \in KickType /\ KickShape'
    BY <1>29 DEF SavePending, Typed, TypeOK, KickType, KickShape
  <2>2. kick.who \in Miner /\ kick.seen \cup {Credit} \in SUBSET Event
    BY <1>29 DEF SavePending, Typed, TypeOK, KickType, KickShape, Event
  <2>3. row' \in Row
    BY <1>29, <2>2, RowSet DEF SavePending
  <2>4. back' \subseteq Event
    BY <1>29, <2>3 DEF SavePending, Entering, Row, Typed, TypeOK
  <2> QED BY <1>29, <2>1, <2>3, <2>4
             DEF SavePending, Typed, TypeOK, BuildShape, SnapshotShape, CallShape
<1>30. CASE KickRebuild
  BY <1>30, NoRecords
     DEF KickRebuild, Typed, TypeOK, BuildShape, SnapshotShape, CallShape, KickShape
<1>31. CASE SweepPick
  <2>1. left' \in Case
    BY <1>31 DEF SweepPick, Spend, Typed, TypeOK, Case
  <2> QED BY <1>31, <2>1
             DEF SweepPick, Typed, TypeOK, BuildShape, SnapshotShape, CallShape, KickShape
<1>32. ASSUME NEW a \in Miner, SweepRow(a) PROVE Typed'
  <2>1. row' \in Row
    BY <1>32, RowSet DEF SweepRow
  <2> QED BY <1>32, <2>1
             DEF SweepRow, Typed, TypeOK, BuildShape, SnapshotShape, CallShape, KickShape
<1>33. CASE Restart
  <2>1. left' \in Case
    <3>1. Spend("faults")
      BY <1>33 DEF Restart
    <3> QED BY <3>1 DEF Spend, Typed, TypeOK, Case
  <2>2. ASSUME NEW h \in Height
        PROVE  /\ call'[h] \in CallType /\ call'[h].pc \in Over
               /\ call[h].pc = "none" => call'[h].pc = "none"
    <3>1. call[h] \in CallType
      BY DEF Typed, TypeOK
    <3>2. call'[h] = IF call[h].pc \in Over THEN call[h]
                     ELSE [call[h] EXCEPT !.pc = "failed", !.split = None]
      BY <1>33 DEF Restart
    <3>3. CASE call[h].pc \in Over
      BY <3>1, <3>2, <3>3
    <3>4. CASE call[h].pc \notin Over
      BY <3>1, <3>2, <3>4 DEF CallType, Over
    <3> QED BY <3>3, <3>4
  <2>3. call' \in [Height -> CallType]
    BY <1>33, <2>2 DEF Restart
  <2>4. CallShape'
    <3>1. \A h \in Height : call'[h].pc \notin Locked \cup {"notify"} /\ call'[h].pc \notin Begun
      BY <2>2 DEF Over, Locked, Begun
    <3>2. {"balances", "apply"} \subseteq Locked
      BY DEF Locked
    <3> QED BY <1>33, <2>2, <3>1, <3>2 DEF Restart, Typed, CallShape
  <2>5. build' \in [Miner -> BuildType] /\ BuildShape' /\ KickShape'
    BY <1>33, NoRecords DEF Restart, BuildShape, KickShape
  <2>6. torn' \subseteq Height
    BY <1>33 DEF Restart, Booked, Typed, TypeOK
  <2> QED BY <1>33, <2>1, <2>3, <2>4, <2>5, <2>6, NoRecords
             DEF Restart, Typed, TypeOK, SnapshotShape
<1>34. ASSUME NEW fs \in SUBSET Miner, ResetSpares(fs) PROVE Typed'
  <2>1. left' \in Case
    <3>1. Spend("faults")
      BY <1>34 DEF ResetSpares
    <3> QED BY <3>1 DEF Spend, Typed, TypeOK, Case
  <2>2. snapshot' \in [Miner -> Split \cup {None}] /\ SnapshotShape'
    BY <1>34, KeepEffect DEF ResetSpares
  <2> QED BY <1>34, <2>1, <2>2, ResetSparesEffect
             DEF ResetSpares, Typed, TypeOK, BuildShape, CallShape, KickShape
<1>35. CASE ResetFail
  <2>1. left' \in Case
    <3>1. Spend("faults")
      BY <1>35 DEF ResetFail
    <3> QED BY <3>1 DEF Spend, Typed, TypeOK, Case
  <2>2. snapshot' \in [Miner -> Split \cup {None}] /\ SnapshotShape' /\ window' \subseteq Share
    BY <1>35, KeepEffect DEF ResetFail, Typed, TypeOK, SnapshotShape
  <2> QED BY <1>35, <2>1, <2>2, NoRecords
             DEF ResetFail, Typed, TypeOK, BuildShape, CallShape, KickShape
<1> QED BY <1>1, <1>2, <1>3, <1>4, <1>5, <1>6, <1>7, <1>8, <1>9, <1>10, <1>11, <1>12, <1>13,
           <1>14, <1>15, <1>16, <1>17, <1>18, <1>19, <1>20, <1>21, <1>22, <1>23, <1>24, <1>25,
           <1>26, <1>27, <1>28, <1>29, <1>30, <1>31, <1>32, <1>33, <1>34, <1>35
        DEF Next, CallStep

-------------------------------------------------------------------------------
(* What a step does to a variable. *)


USE DEF Next, CallStep, vars, redis, db, dist, tasks, ghost, RecordShare, NewTemplate,
        BuildWindow, BuildBalances, BuildWrite, Expire, SolveBlock, Enter, PreCheck,
        ReadSnapshot, Discard, ReadWindow, ReadBalances, Apply, ReadFlag, Wipe, DropSnapshots,
        Fail, ResetStart, ResetRound, ResetSnapshots, ResetSpares, ResetFail, ResetRows, KickMember, KickRead,
        KickRound, KickRow, FindPending, SavePending, KickRebuild, SweepPick, SweepRow, Restart

\* A booking is written once and stays.
LEMMA HistoryStep ==
  ASSUME [Next]_vars
  PROVE  history' = history \/ \E h \in Height : Apply(h)
  OBVIOUS

LEMMA WindowStep ==
  ASSUME [Next]_vars
  PROVE  window' \subseteq window \/ \E s \in Share : RecordShare(s)
  BY DEF EmptyRound

LEMMA SentStep ==
  ASSUME [Next]_vars
  PROVE  sent \subseteq sent'
  OBVIOUS

LEMMA SnapshotMoves ==
  ASSUME [Next]_vars
  PROVE  \/ snapshot' = snapshot \/ snapshot' = [f \in Miner |-> None]
         \/ \E fs \in SUBSET Miner : KeepSnapshots(fs)
         \/ snapshot' = [snapshot EXCEPT ![kick.who] = None]
         \/ \E f \in Miner : snapshot' = [snapshot EXCEPT ![f] = None] \/ BuildWrite(f)
  OBVIOUS

LEMMA BuildMoves ==
  ASSUME [Next]_vars
  PROVE  \/ build' = build \/ build' = LateBuilds
         \/ build' = [f \in Miner |-> NoBuild]
         \/ \E f \in Miner : \/ \E r \in Reward : NewTemplate(f, r)
                             \/ BuildWindow(f) \/ BuildBalances(f) \/ BuildWrite(f)
         \/ \E d \in jobs : SolveBlock(d)
  BY DEF EmptyRound

LEMMA CallMoves ==
  ASSUME [Next]_vars
  PROVE  \/ (call' = call \/ call' = LateCalls) /\ lock' = lock
         \/ Restart
         \/ \E h \in Height : CallStep(h) \/ Fail(h)
         \/ \E d \in jobs : SolveBlock(d)
  OBVIOUS

LEMMA RowMoves ==
  ASSUME [Next]_vars
  PROVE  \/ row' = row \/ ResetRows \/ KickRow \/ SavePending
         \/ \E a \in Miner : SweepRow(a)
         \/ \E h \in Height : Apply(h)
  OBVIOUS

LEMMA KickMoves ==
  ASSUME [Next]_vars
  PROVE  \/ kick' = kick \/ kick' = LateKick \/ kick' = NoKick
         \/ \E m \in Member : KickMember(m)
         \/ KickRead \/ KickRound \/ KickRow \/ SavePending
         \/ \E a \in Miner : FindPending(a)
  OBVIOUS

LEMMA ResetMoves ==
  ASSUME [Next]_vars
  PROVE  \/ reset' = reset \/ reset' = NoReset
         \/ ResetStart \/ ResetRound \/ ResetSnapshots
         \/ \E fs \in SUBSET Miner : ResetSpares(fs)
  OBVIOUS

LEMMA GoneMoves ==
  ASSUME [Next]_vars
  PROVE  gone' = gone \/ ResetRows
  OBVIOUS

LEMMA LeftMoves ==
  ASSUME [Next]_vars
  PROVE  \/ left' = left
         \/ \E what \in {"builds", "resets", "kicks", "sweeps", "faults", "expiries"} : Spend(what)
         \/ left' = [left EXCEPT !.builds = @ - 1]
  OBVIOUS

LEMMA TornStep ==
  ASSUME [Next]_vars
  PROVE  torn \subseteq torn'
  OBVIOUS

LEMMA BackStep ==
  ASSUME [Next]_vars
  PROVE  back \subseteq back' \/ ResetRows
  OBVIOUS

HIDE DEF Next, CallStep, vars, redis, db, dist, tasks, ghost, RecordShare, NewTemplate,
         BuildWindow, BuildBalances, BuildWrite, Expire, SolveBlock, Enter, PreCheck,
         ReadSnapshot, Discard, ReadWindow, ReadBalances, Apply, ReadFlag, Wipe, DropSnapshots,
         Fail, ResetStart, ResetRound, ResetSnapshots, ResetSpares, ResetFail, ResetRows, KickMember, KickRead,
         KickRound, KickRow, FindPending, SavePending, KickRebuild, SweepPick, SweepRow, Restart

\* The distribution a build holds is the one it held, or it has just read the round
\* or the rows.  What was late stays late.
LEMMA BuildStep ==
  ASSUME Typed, [Next]_vars, NEW f \in Miner, build'[f].pc \in {"balances", "write"}
  PROVE  \/ /\ build[f].pc = build'[f].pc
            /\ build'[f].split.shares = build[f].split.shares
            /\ build'[f].split.base = build[f].split.base
            /\ build[f].split.late => build'[f].split.late
         \/ /\ BuildWindow(f) /\ build[f].pc = "window" /\ build'[f].pc = "balances"
            /\ build'[f].split.shares = window
         \/ /\ BuildBalances(f) /\ build[f].pc = "balances" /\ build'[f].pc = "write"
            /\ build'[f].split.shares = build[f].split.shares
            /\ build'[f].split.base = row
            /\ build'[f].split.late = build[f].split.late
<1>1. CASE build' = build
  BY <1>1
<1>2. CASE build' = LateBuilds
  BY <1>2, LateBuildsEffect, LateType DEF Typed, TypeOK, BuildShape
<1>3. CASE build' = [g \in Miner |-> NoBuild]
  BY <1>3, NoRecords
<1>4. ASSUME NEW g \in Miner, NEW r \in Reward, NewTemplate(g, r) PROVE g # f \/ build' = build
  BY <1>4 DEF NewTemplate, Typed, TypeOK
<1>5. ASSUME NEW g \in Miner, g # f,
             \/ \E r \in Reward : NewTemplate(g, r)
             \/ BuildWindow(g) \/ BuildBalances(g) \/ BuildWrite(g)
      PROVE  build'[f] = build[f]
  BY <1>5 DEF NewTemplate, BuildWindow, BuildBalances, BuildWrite, Resolve, Typed, TypeOK
<1>6. CASE BuildWindow(f)
  <2> DEFINE d == [build[f].split EXCEPT !.shares = window, !.late = FALSE]
  <2>1. build[f].split \in Split
    BY <1>6 DEF BuildWindow, Typed, BuildShape
  <2>2. d.shares = window
    BY <2>1 DEF Split
  <2>3. ~Resolve(f, d)
    BY NoRecords DEF Resolve, Typed, TypeOK
  <2>4. build' = [build EXCEPT ![f].pc = "balances", ![f].split = d]
    BY <1>6, <2>3 DEF BuildWindow
  <2> HIDE DEF d
  <2>5. build'[f].pc = "balances" /\ build'[f].split = d
    BY <2>4 DEF Typed, TypeOK, BuildType
  <2> QED BY <1>6, <2>2, <2>5 DEF BuildWindow
<1>7. CASE BuildBalances(f)
  <2>1. build[f].split \in Split /\ build[f] \in BuildType
    BY <1>7 DEF BuildBalances, Typed, TypeOK, BuildShape
  <2> DEFINE d == [build[f].split EXCEPT !.base = row]
  <2>2. build'[f] = [build[f] EXCEPT !.pc = "write", !.split = d]
    BY <1>7, <2>1 DEF BuildBalances, Typed, TypeOK, BuildType
  <2>3. d.shares = build[f].split.shares /\ d.base = row /\ d.late = build[f].split.late
    BY <2>1 DEF Split
  <2> HIDE DEF d
  <2>4. build'[f].pc = "write" /\ build'[f].split = d
    BY <2>1, <2>2 DEF BuildType
  <2> QED BY <1>7, <2>3, <2>4 DEF BuildBalances
<1>8. CASE BuildWrite(f)
  BY <1>8, NoRecords DEF BuildWrite, Resolve, Typed, TypeOK
<1>9. ASSUME NEW d \in jobs, SolveBlock(d)
      PROVE  build'[f].pc = build[f].pc /\ build'[f].split = build[f].split
  BY <1>9 DEF SolveBlock, Typed, TypeOK, BuildType
<1> QED BY <1>1, <1>2, <1>3, <1>4, <1>5, <1>6, <1>7, <1>8, <1>9, BuildMoves

\* A snapshot stays, goes or comes from a build.
LEMMA SnapshotStep ==
  ASSUME Typed, [Next]_vars, NEW f \in Miner
  PROVE  \/ snapshot'[f] = snapshot[f] \/ snapshot'[f] = None
         \/ /\ BuildWrite(f) /\ build[f].pc = "write" /\ build[f].split \in Split
            /\ snapshot'[f].shares = build[f].split.shares
            /\ snapshot'[f].base = build[f].split.base
            /\ build[f].split.late \/ reset.pc = "rows" => snapshot'[f].late
<1>1. ASSUME BuildWrite(f)
      PROVE  /\ build[f].pc = "write" /\ build[f].split \in Split
             /\ snapshot'[f].shares = build[f].split.shares
             /\ snapshot'[f].base = build[f].split.base
             /\ build[f].split.late \/ reset.pc = "rows" => snapshot'[f].late
  <2>1. build[f].pc = "write" /\ build[f].split \in Split
    BY <1>1 DEF BuildWrite, Typed, BuildShape
  <2>2. snapshot'[f] = IF reset.pc = "rows" THEN Late(build[f].split) ELSE build[f].split
    BY <1>1 DEF BuildWrite, Typed, TypeOK
  <2>3. CASE reset.pc = "rows"
    <3>1. snapshot'[f] = Late(build[f].split)
      BY <2>2, <2>3
    <3> QED BY <2>1, <3>1, LateType
  <2>4. CASE reset.pc # "rows"
    <3>1. snapshot'[f] = build[f].split
      BY <2>2, <2>4
    <3> QED BY <2>1, <2>4, <3>1
  <2> QED BY <2>3, <2>4
<1>2. ASSUME NEW g \in Miner, g # f, BuildWrite(g) PROVE snapshot'[f] = snapshot[f]
  BY <1>2 DEF BuildWrite, Typed, TypeOK
<1>3. ASSUME NEW fs \in SUBSET Miner, KeepSnapshots(fs)
      PROVE  snapshot'[f] = snapshot[f] \/ snapshot'[f] = None
  BY <1>3, KeepEffect
<1> QED BY <1>1, <1>2, <1>3, SnapshotMoves DEF Typed, TypeOK

\* A jump changes where the call is and nothing else.
LEMMA GotoEffect ==
  ASSUME Typed, NEW h \in Height, NEW p, Goto(h, p)
  PROVE  /\ call'[h].pc = p /\ call'[h].finder = call[h].finder
         /\ call'[h].reward = call[h].reward /\ call'[h].split = call[h].split
         /\ \A k \in Height : k # h => call'[k] = call[k]
  BY DEF Goto, Typed, TypeOK, CallType

LEMMA ReadSnapshotEffect ==
  ASSUME Typed, NEW h \in Height, ReadSnapshot(h)
  PROVE  /\ call[h].pc = "snapshot" /\ call[h].finder \in Miner
         /\ call'[h].finder = call[h].finder /\ call'[h].reward = call[h].reward
         /\ \/ call'[h].pc \in {"window", "discard"}
            \/ /\ call'[h].pc = "apply" /\ snapshot[call[h].finder] # None
               /\ call'[h].split = snapshot[call[h].finder]
         /\ \A k \in Height : k # h => call'[k] = call[k]
  BY DEF ReadSnapshot, SnapshotFor, Typed, TypeOK, CallType, CallShape, Locked

LEMMA ReadWindowEffect ==
  ASSUME Typed, NEW h \in Height, ReadWindow(h)
  PROVE  /\ call[h].pc = "window"
         /\ call'[h].finder = call[h].finder /\ call'[h].reward = call[h].reward
         /\ \/ call'[h].pc = "flag"
            \/ call'[h].pc = "balances" /\ call'[h].split.shares = window
         /\ \A k \in Height : k # h => call'[k] = call[k]
  BY DEF ReadWindow, Typed, TypeOK, CallType

LEMMA ReadBalancesEffect ==
  ASSUME Typed, NEW h \in Height, ReadBalances(h)
  PROVE  /\ call[h].pc = "balances" /\ call'[h].pc = "apply"
         /\ call'[h].finder = call[h].finder /\ call'[h].reward = call[h].reward
         /\ call'[h].split.shares = call[h].split.shares
         /\ call'[h].split.base = row
         /\ call'[h].split.late = call[h].split.late
         /\ \A k \in Height : k # h => call'[k] = call[k]
<1> DEFINE d == [call[h].split EXCEPT !.base = row]
<1>1. call[h].split \in Split /\ call[h].pc = "balances" /\ call[h] \in CallType
  BY DEF ReadBalances, Typed, TypeOK, CallShape
<1>2. d.shares = call[h].split.shares /\ d.base = row /\ d.late = call[h].split.late
  BY <1>1 DEF Split
<1>3. call' = [call EXCEPT ![h] = [call[h] EXCEPT !.pc = "apply", !.split = d]]
  BY <1>1 DEF ReadBalances, Typed, TypeOK, CallType
<1> HIDE DEF d
<1>4. /\ call'[h].pc = "apply" /\ call'[h].split = d
      /\ call'[h].finder = call[h].finder /\ call'[h].reward = call[h].reward
      /\ \A k \in Height : k # h => call'[k] = call[k]
  BY <1>1, <1>3 DEF Typed, TypeOK, CallType
<1> QED BY <1>1, <1>2, <1>4

LEMMA SolveBlockEffect ==
  ASSUME Typed, NEW d \in jobs, SolveBlock(d)
  PROVE  /\ tip + 1 \in Height /\ tip + 1 > tip
         /\ call[tip + 1].pc = "none" /\ call'[tip + 1].pc = "notify"
         /\ \A k \in Height : k # tip + 1 => call'[k] = call[k]
<1>1. tip + 1 \in Height /\ tip + 1 > tip
  BY SoloAssumption DEF SolveBlock, Typed, TypeOK, Case, Height
<1>2. call'[tip + 1] = [NoCall EXCEPT !.pc = "notify", !.finder = d.finder, !.reward = d.reward]
  BY <1>1 DEF SolveBlock, Typed, TypeOK
<1> QED BY <1>1, <1>2 DEF SolveBlock, NoCall, Typed, TypeOK, CallShape

LEMMA RestartEffect ==
  ASSUME Typed, Restart, NEW h \in Height
  PROVE  /\ call'[h].finder = call[h].finder /\ call'[h].reward = call[h].reward
         /\ call'[h].pc = IF call[h].pc \in Over THEN call[h].pc ELSE "failed"
         /\ h \in Booked /\ call[h].pc \in Locked => h \in torn'
<1>1. call[h] \in CallType
  BY DEF Typed, TypeOK
<1>2. call'[h] = IF call[h].pc \in Over THEN call[h]
                 ELSE [call[h] EXCEPT !.pc = "failed", !.split = None]
  BY DEF Restart
<1>3. h \in Booked /\ call[h].pc \in Locked => h \in torn'
  BY DEF Restart
<1> QED BY <1>1, <1>2, <1>3 DEF CallType

\* The steps of a call that are jumps.
Jumps(h) ==
    Enter(h) \/ PreCheck(h) \/ Discard(h) \/ Apply(h) \/ ReadFlag(h) \/ Wipe(h)
    \/ DropSnapshots(h) \/ Fail(h)

LEMMA JumpEffect ==
  ASSUME Typed, NEW h \in Height, Jumps(h)
  PROVE  \E p \in (Locked \cup Over) \ {"none", "balances", "apply"} : Goto(h, p)
  BY DEF Jumps, Enter, PreCheck, Discard, Apply, ReadFlag, Wipe, DropSnapshots, Fail, Leave,
     Locked, Over

\* What a call holds is what it held, or it has just read it.
LEMMA HoldStep ==
  ASSUME Typed, [Next]_vars, NEW h \in Height, call'[h].pc \in {"balances", "apply"}
  PROVE  \/ /\ call[h].pc = call'[h].pc
            /\ call'[h].split.shares = call[h].split.shares
            /\ call'[h].split.base = call[h].split.base
            /\ call[h].split.late => call'[h].split.late
         \/ /\ ReadSnapshot(h) /\ call[h].pc = "snapshot" /\ call'[h].pc = "apply"
            /\ call[h].finder \in Miner /\ snapshot[call[h].finder] # None
            /\ call'[h].split = snapshot[call[h].finder]
         \/ /\ ReadWindow(h) /\ call[h].pc = "window" /\ call'[h].pc = "balances"
            /\ call'[h].split.shares = window
         \/ /\ ReadBalances(h) /\ call[h].pc = "balances" /\ call'[h].pc = "apply"
            /\ call'[h].split.shares = call[h].split.shares
            /\ call'[h].split.base = row
            /\ call'[h].split.late = call[h].split.late
<1>1. CASE call' = call
  BY <1>1
<1>2. CASE call' = LateCalls
  BY <1>2, LateCallsEffect, LateType DEF Typed, CallShape, Locked
<1>3. CASE Restart
  BY <1>3, RestartEffect DEF Over
<1>4. ASSUME NEW k \in Height, k # h, CallStep(k) \/ Fail(k) PROVE call'[h] = call[h]
  BY <1>4, JumpEffect, GotoEffect, ReadSnapshotEffect, ReadWindowEffect, ReadBalancesEffect
     DEF CallStep, Jumps
<1>5. CASE CallStep(h) \/ Fail(h)
  <2>1. CASE Jumps(h)
    BY <2>1, JumpEffect, GotoEffect
  <2>2. CASE ReadSnapshot(h)
    BY <2>2, ReadSnapshotEffect
  <2>3. CASE ReadWindow(h)
    BY <2>3, ReadWindowEffect
  <2>4. CASE ReadBalances(h)
    BY <2>4, ReadBalancesEffect
  <2> QED BY <1>5, <2>1, <2>2, <2>3, <2>4 DEF CallStep, Jumps
<1>6. ASSUME NEW d \in jobs, SolveBlock(d) PROVE call'[h] = call[h]
  BY <1>6, SolveBlockEffect
<1> QED BY <1>1, <1>2, <1>3, <1>4, <1>5, <1>6, CallMoves

LEMMA PcStep ==
  ASSUME Typed, [Next]_vars, NEW h \in Height
  PROVE  \/ call'[h].pc = call[h].pc
         \/ call[h].pc = "none" /\ call'[h].pc = "notify"
         \/ CallStep(h) \/ Fail(h) \/ Restart
<1>1. ASSUME NEW k \in Height, k # h, CallStep(k) \/ Fail(k) PROVE call'[h] = call[h]
  BY <1>1, JumpEffect, GotoEffect, ReadSnapshotEffect, ReadWindowEffect, ReadBalancesEffect
     DEF CallStep, Jumps
<1>2. ASSUME NEW d \in jobs, SolveBlock(d), h # tip + 1 PROVE call'[h] = call[h]
  BY <1>2, SolveBlockEffect
<1> QED BY <1>1, <1>2, SolveBlockEffect, LateCallsEffect, CallMoves

\* The finder and the reward of a call stay once its height has come.
LEMMA NameStep ==
  ASSUME Typed, [Next]_vars, NEW h \in Height
  PROVE  \/ call'[h].finder = call[h].finder /\ call'[h].reward = call[h].reward
         \/ history[h] = None /\ history' = history
<1>1. ASSUME NEW k \in Height, CallStep(k) \/ Fail(k)
      PROVE  call'[h].finder = call[h].finder /\ call'[h].reward = call[h].reward
  BY <1>1, JumpEffect, GotoEffect, ReadSnapshotEffect, ReadWindowEffect, ReadBalancesEffect
     DEF CallStep, Jumps
<1>2. ASSUME NEW d \in jobs, SolveBlock(d)
      PROVE  \/ call'[h] = call[h]
             \/ history[h] = None /\ history' = history
  <2>1. history' = history
    BY <1>2 DEF SolveBlock, db
  <2> QED BY <1>2, <2>1, SolveBlockEffect DEF Typed, CallShape
<1> QED BY <1>1, <1>2, LateCallsEffect, RestartEffect, CallMoves

-------------------------------------------------------------------------------
(* The lock. *)

LEMMA LockHeldStep == Typed /\ LockHeld /\ [Next]_vars => LockHeld'
<1> SUFFICES ASSUME Typed, LockHeld, [Next]_vars PROVE LockHeld'
  OBVIOUS
<1>1. ASSUME lock' = lock, \A h \in Height : call'[h].pc \in Locked <=> call[h].pc \in Locked
      PROVE  LockHeld'
  BY <1>1 DEF LockHeld
<1>2. ASSUME NEW h \in Height, NEW p, Leave(h, p), p \notin Locked, call[h].pc \in Locked
      PROVE  LockHeld'
  BY <1>2, GotoEffect DEF Leave, LockHeld
<1>3. CASE (call' = call \/ call' = LateCalls) /\ lock' = lock
  BY <1>1, <1>3, LateCallsEffect
<1>4. CASE Restart
  <2>1. \A h \in Height : call'[h].pc \notin Locked
    BY <1>4, RestartEffect DEF Over, Locked
  <2>2. ~lock'
    BY <1>4 DEF Restart
  <2> QED BY <2>1, <2>2 DEF LockHeld
<1>5. ASSUME NEW d \in jobs, SolveBlock(d) PROVE LockHeld'
  <2>1. lock' = lock
    BY <1>5 DEF SolveBlock
  <2>2. \A h \in Height : call'[h].pc \in Locked <=> call[h].pc \in Locked
    BY <1>5, SolveBlockEffect DEF Locked
  <2> QED BY <1>1, <2>1, <2>2
<1>6. ASSUME NEW h \in Height, Enter(h) PROVE LockHeld'
  <2>1. CASE Goto(h, "skipped") /\ lock' = lock
    BY <1>1, <1>6, <2>1, GotoEffect DEF Enter, Locked
  <2>2. CASE ~lock /\ Goto(h, "precheck") /\ lock'
    <3>1. \A k \in Height : call[k].pc \notin Locked
      BY <2>2 DEF LockHeld
    <3>2. \A k \in Height : call'[k].pc \in Locked <=> k = h
      BY <2>2, <3>1, GotoEffect DEF Locked
    <3> QED BY <2>2, <3>2 DEF LockHeld
  <2> QED BY <1>6, <2>1, <2>2 DEF Enter
<1>7. ASSUME NEW h \in Height, PreCheck(h) PROVE LockHeld'
  <2>1. CASE Leave(h, "done")
    BY <1>2, <1>7, <2>1 DEF PreCheck, Locked
  <2>2. CASE Goto(h, "snapshot") /\ lock' = lock
    BY <1>1, <1>7, <2>2, GotoEffect DEF PreCheck, Locked
  <2> QED BY <1>7, <2>1, <2>2 DEF PreCheck
<1>8. ASSUME NEW h \in Height, DropSnapshots(h) PROVE LockHeld'
  BY <1>2, <1>8 DEF DropSnapshots, Locked
<1>9. ASSUME NEW h \in Height, Fail(h) PROVE LockHeld'
  <2>1. CASE Leave(h, "failed")
    BY <1>2, <1>9, <2>1 DEF Fail, Locked
  <2>2. CASE /\ lock' = lock
             /\ \/ call[h].pc = "flag" /\ Goto(h, "drop")
                \/ call[h].pc = "discard" /\ Goto(h, "window")
    BY <1>1, <2>2, GotoEffect DEF Locked
  <2> QED BY <1>9, <2>1, <2>2 DEF Fail
<1>10. ASSUME NEW h \in Height,
              \/ ReadSnapshot(h) \/ ReadWindow(h) \/ ReadBalances(h)
              \/ Discard(h) \/ Apply(h) \/ ReadFlag(h) \/ Wipe(h)
       PROVE  LockHeld'
  <2>1. lock' = lock
    BY <1>10 DEF ReadSnapshot, ReadWindow, ReadBalances, Discard, Apply, ReadFlag, Wipe
  <2>2. call[h].pc \in Locked /\ call'[h].pc \in Locked
    BY <1>10, ReadSnapshotEffect, ReadWindowEffect, ReadBalancesEffect, GotoEffect
       DEF Discard, Apply, ReadFlag, Wipe, Locked
  <2>3. \A k \in Height : k # h => call'[k] = call[k]
    BY <1>10, ReadSnapshotEffect, ReadWindowEffect, ReadBalancesEffect, GotoEffect
       DEF Discard, Apply, ReadFlag, Wipe
  <2> QED BY <1>1, <2>1, <2>2, <2>3
<1> QED BY <1>3, <1>4, <1>5, <1>6, <1>7, <1>8, <1>9, <1>10, CallMoves DEF CallStep

-------------------------------------------------------------------------------
(* A block is booked for its own finder. *)

LEMMA BookedForFinderStep ==
  Typed /\ BookedForFinder /\ [Next]_vars => BookedForFinder'
<1> SUFFICES ASSUME Typed, BookedForFinder, [Next]_vars, NEW h \in Height, history'[h] # None
             PROVE  /\ history'[h].finder = call'[h].finder
                    /\ history'[h].reward = call'[h].reward
  BY DEF BookedForFinder, Booked
<1>1. CASE history' = history
  BY <1>1, NameStep DEF BookedForFinder, Booked
<1>2. ASSUME NEW k \in Height, Apply(k)
      PROVE  /\ history'[h].finder = call'[h].finder
             /\ history'[h].reward = call'[h].reward
  <2>1. /\ call[k].split.finder = call[k].finder /\ call[k].split.reward = call[k].reward
        /\ history' = [history EXCEPT ![k] = call[k].split]
    BY <1>2 DEF Apply, Typed, CallShape
  <2>2. call'[h].finder = call[h].finder /\ call'[h].reward = call[h].reward
    BY <1>2, GotoEffect DEF Apply
  <2> QED BY <2>1, <2>2 DEF BookedForFinder, Booked, Typed, TypeOK
<1> QED BY <1>1, <1>2, HistoryStep

-------------------------------------------------------------------------------
(* Shares. *)

\* Apply writes what the call holds.
LEMMA ApplyEffect ==
  ASSUME Typed, NEW h \in Height, Apply(h)
  PROVE  /\ call[h].pc = "apply" /\ call[h].split \in Split /\ call'[h].pc = "flag"
         /\ history[h] = None /\ history'[h] = call[h].split
         /\ \A k \in Height : k # h => history'[k] = history[k] /\ call'[k] = call[k]
  BY GotoEffect DEF Apply, Typed, TypeOK, CallShape, Begun

LEMMA SharesSentStep == Typed /\ SharesSent /\ [Next]_vars => SharesSent'
<1> SUFFICES ASSUME Typed, SharesSent, [Next]_vars PROVE SharesSent'
  OBVIOUS
<1>1. sent \subseteq sent'
  BY SentStep
<1>2. window' \subseteq sent'
  BY <1>1, WindowStep DEF RecordShare, SharesSent
<1>3. ASSUME NEW f \in Miner, snapshot'[f] # None PROVE snapshot'[f].shares \subseteq sent'
  BY <1>1, <1>3, SnapshotStep DEF SharesSent
<1>4. ASSUME NEW f \in Miner, build'[f].pc \in {"balances", "write"}
      PROVE  build'[f].split.shares \subseteq sent'
  BY <1>1, <1>4, BuildStep DEF SharesSent
<1>5. ASSUME NEW h \in Height, call'[h].pc \in {"balances", "apply"}
      PROVE  call'[h].split.shares \subseteq sent'
  BY <1>1, <1>5, HoldStep DEF SharesSent
<1>6. ASSUME NEW h \in Height, history'[h] # None PROVE history'[h].shares \subseteq sent'
  BY <1>1, <1>6, HistoryStep, ApplyEffect DEF SharesSent
<1>7. reset'.shares \subseteq sent'
  <2>1. CASE ResetStart
    BY <1>1, <2>1 DEF ResetStart, Typed, TypeOK
  <2>2. CASE ~ResetStart
    BY <1>1, <2>2, ResetMoves, ResetSparesEffect
       DEF ResetRound, ResetSnapshots, NoReset, SharesSent, Typed, TypeOK, ResetType
  <2> QED BY <2>1, <2>2
<1>8. gone'.shares \subseteq sent'
  BY <1>1, GoneMoves DEF ResetRows, SharesSent
<1> QED BY <1>2, <1>3, <1>4, <1>5, <1>6, <1>7, <1>8 DEF SharesSent

-------------------------------------------------------------------------------
(* A share is paid for once. *)

LEMMA LeftStep ==
  ASSUME Typed, [Next]_vars
  PROVE  left'.wipes = left.wipes
<1>1. ASSUME NEW what \in {"builds", "resets", "kicks", "sweeps", "faults", "expiries"}, Spend(what)
      PROVE  left'.wipes = left.wipes
  BY <1>1 DEF Spend, Typed, TypeOK, Case
<1>2. CASE left' = [left EXCEPT !.builds = @ - 1]
  BY <1>2 DEF Typed, TypeOK, Case
<1> QED BY <1>1, <1>2, LeftMoves

\* What was clean was booked, or is booked now.
LEMMA CleanStep ==
  ASSUME Typed, [Next]_vars, NEW b \in Height, Clean(b)'
  PROVE  \/ Clean(b) /\ history'[b] = history[b]
         \/ Apply(b) /\ call'[b].pc = "flag"
<1>1. b \notin torn
  BY TornStep DEF Clean
<1>2. CASE history' = history
  BY <1>1, <1>2 DEF Clean
<1>3. ASSUME NEW h \in Height, Apply(h)
      PROVE  \/ Clean(b) /\ history'[b] = history[b]
             \/ Apply(b) /\ call'[b].pc = "flag"
  BY <1>1, <1>3, ApplyEffect DEF Clean
<1> QED BY <1>2, <1>3, HistoryStep

\* A booked height leaves its clean-up by the wipe and the drop, or it is torn.
LEMMA LeaveWipe ==
  ASSUME Typed, [Next]_vars, left.wipes, NEW b \in Height, history[b] # None, b \notin torn',
         call[b].pc \in {"flag", "wipe"}, call'[b].pc \notin {"flag", "wipe"}
  PROVE  Wipe(b)
<1>1. CASE CallStep(b)
  <2>1. ~ReadFlag(b)
    BY GotoEffect DEF ReadFlag
  <2> QED BY <1>1, <2>1 DEF CallStep, Enter, PreCheck, ReadSnapshot, Discard, ReadWindow,
             ReadBalances, Apply, DropSnapshots
<1>2. CASE Fail(b)
  BY <1>2 DEF Fail
<1>3. CASE Restart
  BY <1>3, RestartEffect DEF Booked, Locked
<1> QED BY <1>1, <1>2, <1>3, PcStep

LEMMA LeaveDrop ==
  ASSUME Typed, [Next]_vars, NEW b \in Height, history[b] # None, b \notin torn',
         call[b].pc \in Closing, call'[b].pc \notin Closing
  PROVE  DropSnapshots(b)
<1>1. CASE CallStep(b)
  <2>1. ~ReadFlag(b) /\ ~Wipe(b)
    BY GotoEffect DEF ReadFlag, Wipe, Closing
  <2> QED BY <1>1, <2>1 DEF CallStep, Enter, PreCheck, ReadSnapshot, Discard, ReadWindow,
             ReadBalances, Apply, Closing
<1>2. CASE Fail(b)
  BY <1>2 DEF Fail
<1>3. CASE Restart
  BY <1>3, RestartEffect DEF Booked, Locked, Closing
<1> QED BY <1>1, <1>2, <1>3, PcStep DEF Closing

LEMMA PaidApartStep ==
  Typed /\ LockHeld /\ SharesSent /\ PaidApart /\ [Next]_vars => PaidApart'
<1> SUFFICES ASSUME Typed, LockHeld, SharesSent, PaidApart, [Next]_vars, left.wipes,
                    NEW b \in Height, Clean(b)'
             PROVE  /\ call'[b].pc \notin {"flag", "wipe"} => WipedFrom(b)'
                    /\ call'[b].pc \notin Closing => DroppedFrom(b)'
  BY LeftStep DEF PaidApart
<1>1. CASE Apply(b) /\ call'[b].pc = "flag"
  BY <1>1 DEF Closing
<1> SUFFICES ASSUME Clean(b), history'[b] = history[b]
             PROVE  /\ call'[b].pc \notin {"flag", "wipe"} => WipedFrom(b)'
                    /\ call'[b].pc \notin Closing => DroppedFrom(b)'
  BY <1>1, CleanStep
<1>2. b \notin torn' /\ history[b] # None
  BY DEF Clean
<1>3. ASSUME WipedFrom(b) PROVE WipedFrom(b)'
  <2>1. window' \cap history[b].shares = {}
    BY <1>2, <1>3, WindowStep DEF WipedFrom, SharesSent, RecordShare
  <2>2. ASSUME NEW f \in Miner, build'[f].pc \in {"balances", "write"}, ~build'[f].split.late
        PROVE  build'[f].split.shares \cap history[b].shares = {}
    BY <1>3, <2>2, BuildStep DEF WipedFrom
  <2> QED BY <2>1, <2>2 DEF WipedFrom
<1>4. ASSUME call'[b].pc \notin {"flag", "wipe"} PROVE WipedFrom(b)'
  <2>1. CASE call[b].pc \notin {"flag", "wipe"}
    BY <1>3, <2>1 DEF PaidApart
  <2>2. CASE Wipe(b)
    <3>1. window' = {} /\ build' = LateBuilds
      BY <2>2 DEF Wipe, EmptyRound
    <3>2. \A f \in Miner : build'[f].pc \in {"balances", "write"} => build'[f].split.late
      BY <3>1, LateBuildsEffect, LateType DEF Typed, BuildShape
    <3> QED BY <3>1, <3>2 DEF WipedFrom
  <2> QED BY <1>2, <1>4, <2>1, <2>2, LeaveWipe
<1>5. ASSUME call'[b].pc \notin Closing PROVE DroppedFrom(b)'
  <2>1. CASE call[b].pc \notin Closing
    <3>1. WipedFrom(b) /\ DroppedFrom(b)
      BY <2>1 DEF PaidApart, Closing
    <3>2. ASSUME NEW f \in Miner, snapshot'[f] # None, ~snapshot'[f].late
          PROVE  snapshot'[f].shares \cap history[b].shares = {}
      BY <3>1, <3>2, SnapshotStep DEF WipedFrom, DroppedFrom
    <3>3. ASSUME NEW k \in Height, call'[k].pc \in {"balances", "apply"}, ~call'[k].split.late
          PROVE  call'[k].split.shares \cap history[b].shares = {}
      BY <3>1, <3>3, HoldStep DEF WipedFrom, DroppedFrom
    <3> QED BY <3>2, <3>3 DEF DroppedFrom
  <2>2. CASE DropSnapshots(b)
    <3>1. \A f \in Miner : snapshot'[f] = None
      BY <2>2 DEF DropSnapshots
    <3>2. call[b].pc \in Locked /\ call'[b].pc = "done"
      BY <2>2, GotoEffect DEF DropSnapshots, Leave, Locked
    <3>3. \A k \in Height : k # b => call'[k].pc \notin {"balances", "apply"}
      BY <2>2, <3>2, GotoEffect DEF DropSnapshots, Leave, LockHeld, Locked
    <3> QED BY <3>1, <3>2, <3>3 DEF DroppedFrom
  <2> QED BY <1>2, <1>5, <2>1, <2>2, LeaveDrop
<1> QED BY <1>4, <1>5

LEMMA PaidOnceStep == Typed /\ LockHeld /\ PaidApart /\ PaidOnce /\ [Next]_vars => PaidOnce'
<1> SUFFICES ASSUME Typed, LockHeld, PaidApart, PaidOnce, [Next]_vars, left.wipes,
                    NEW g \in Height, Clean(g)', NEW h \in Height, Clean(h)', g # h
             PROVE  history'[g].shares \cap history'[h].shares = {}
  BY LeftStep DEF PaidOnce, Clean, Booked
<1>1. ASSUME NEW b \in Height, NEW k \in Height, b # k, Clean(b), Clean(k)', Apply(k)
      PROVE  history'[k].shares \cap history[b].shares = {}
  <2>1. call[k].pc = "apply" /\ history'[k] = call[k].split
    BY <1>1, ApplyEffect
  <2>2. call[b].pc \notin Closing
    BY <1>1, <2>1 DEF LockHeld, Closing, Locked
  <2> QED BY <1>1, <2>1, <2>2 DEF PaidApart, DroppedFrom, Clean
<1>2. CASE Clean(g) /\ history'[g] = history[g] /\ Clean(h) /\ history'[h] = history[h]
  BY <1>2 DEF PaidOnce, Clean, Booked
<1>3. ~(Apply(g) /\ Apply(h))
  BY ApplyEffect
<1> QED BY <1>1, <1>2, <1>3, CleanStep

-------------------------------------------------------------------------------
(* Events. *)

LEMMA BookedStays ==
  ASSUME Typed, [Next]_vars, NEW h \in Height, history[h] # None
  PROVE  history'[h] # None
  BY HistoryStep, ApplyEffect

\* A row gains what a booking or a credit puts into it.
LEMMA RowStep ==
  ASSUME Typed, [Next]_vars, NEW a \in Miner, NEW e \in row'[a]
  PROVE  \/ e \in row[a]
         \/ \E h \in Height : /\ Apply(h)
                              /\ e = h \/ (e \in back' /\ e \in call[h].split.base[a])
         \/ SavePending /\ e \in back' /\ (e = Credit \/ e \in kick.seen)
<1>1. ASSUME NEW h \in Height, Apply(h)
      PROVE  e \in row[a] \/ e = h \/ (e \in back' /\ e \in call[h].split.base[a])
  <2>1. row' = RowsAfter(h, call[h].split)
    BY <1>1 DEF Apply
  <2>2. e \in row[a] \/ e = h \/ e \in call[h].split.base[a]
    BY <2>1 DEF RowsAfter
  <2>3. e \notin row[a] /\ e # h => e \in back'
    BY <1>1 DEF Apply, Entering
  <2> QED BY <2>2, <2>3
<1>2. ASSUME SavePending
      PROVE  e \in row[a] \/ (e \in back' /\ (e = Credit \/ e \in kick.seen))
  <2>1. row' = [row EXCEPT ![kick.who] = kick.seen \cup {Credit}]
    BY <1>2 DEF SavePending
  <2>2. e \in row[a] \/ e = Credit \/ e \in kick.seen
    BY <2>1 DEF Typed, TypeOK, Row
  <2>3. e \notin row[a] => e \in back'
    BY <1>2 DEF SavePending, Entering
  <2> QED BY <2>2, <2>3
<1>3. CASE KickRow
  BY <1>3 DEF KickRow, Typed, TypeOK, Row
<1>4. ASSUME NEW b \in Miner, SweepRow(b) PROVE e \in row[a]
  BY <1>4 DEF SweepRow, Typed, TypeOK, Row
<1>5. CASE ResetRows
  BY <1>5, NoRecords DEF ResetRows
<1> QED BY <1>1, <1>2, <1>3, <1>4, <1>5, RowMoves

LEMMA KickStep ==
  ASSUME Typed, [Next]_vars
  PROVE  \/ /\ kick'.seen = kick.seen /\ kick'.who = kick.who
            /\ kick'.pc = "save" => kick.pc = "save" /\ (kick.late => kick'.late)
         \/ kick'.seen = {} /\ kick'.pc # "save"
         \/ \E a \in Miner : FindPending(a) /\ kick'.seen = row[a] /\ kick'.who = a
<1> USE DEF Typed, TypeOK, KickType
<1>1. CASE kick' = kick
  BY <1>1
<1>2. CASE kick' = LateKick
  BY <1>2 DEF LateKick
<1>3. kick' = NoKick => kick'.seen = {} /\ kick'.pc # "save"
  BY DEF NoKick
<1>4. ASSUME NEW m \in Member, KickMember(m) PROVE kick'.seen = {} /\ kick'.pc # "save"
  <2>1. kick' = [NoKick EXCEPT !.pc = "read", !.who = m, !.to = roster \ {m}]
    BY <1>4 DEF KickMember
  <2> QED BY <2>1 DEF NoKick
<1>5. CASE KickRead
  <2> DEFINE some == row[kick.who] # {}
  <2>1. kick' = [kick EXCEPT !.pc = "round", !.some = some]
    BY <1>5 DEF KickRead
  <2> HIDE DEF some
  <2> QED BY <2>1
<1>6. CASE KickRound \/ KickRow \/ SavePending
  BY <1>6 DEF KickRound, KickRow, SavePending
<1>7. ASSUME NEW a \in Miner, FindPending(a)
      PROVE  kick'.seen = row[a] /\ kick'.who = a
  BY <1>7 DEF FindPending
<1> QED BY <1>1, <1>2, <1>3, <1>4, <1>5, <1>6, <1>7, KickMoves

LEMMA EventsKnownStep == Typed /\ EventsKnown /\ [Next]_vars => EventsKnown'
<1> SUFFICES ASSUME Typed, EventsKnown, [Next]_vars PROVE EventsKnown'
  OBVIOUS
<1>1. ASSUME NEW e, e = Credit \/ (e \in Height /\ history[e] # None)
      PROVE  e = Credit \/ (e \in Height /\ history'[e] # None)
  BY <1>1, BookedStays
<1>2. Known(reset.events)'
  <2>1. CASE ResetStart
    BY <1>1, <2>1 DEF ResetStart, Known, Booked
  <2>2. CASE ~ResetStart
    BY <1>1, <2>2, ResetMoves, ResetSparesEffect
       DEF ResetRound, ResetSnapshots, NoReset, EventsKnown, Known, Typed, TypeOK, ResetType
  <2> QED BY <2>1, <2>2
<1>3. Known(gone.events)'
  BY <1>1, GoneMoves DEF ResetRows, EventsKnown, Known
<1>4. Known(kick.seen)'
  BY <1>1, KickStep DEF EventsKnown, Known
<1>5. ASSUME NEW a \in Miner PROVE Known(row[a])'
  <2> SUFFICES ASSUME NEW e \in row'[a]
               PROVE  e = Credit \/ (e \in Height /\ history'[e] # None)
    BY DEF Known
  <2>1. CASE e \in row[a]
    BY <1>1, <2>1 DEF EventsKnown, Known
  <2>2. ASSUME NEW h \in Height, Apply(h), e = h \/ e \in call[h].split.base[a]
        PROVE  e = Credit \/ (e \in Height /\ history'[e] # None)
    BY <1>1, <2>2, ApplyEffect, SoloAssumption DEF EventsKnown, Known
  <2>3. CASE e = Credit \/ e \in kick.seen
    BY <1>1, <2>3 DEF EventsKnown, Known
  <2> QED BY <2>1, <2>2, <2>3, RowStep
<1>6. ASSUME NEW f \in Miner, build'[f].pc = "write", NEW a \in Miner
      PROVE  Known(build[f].split.base[a])'
  BY <1>1, <1>6, BuildStep DEF EventsKnown, Known
<1>7. ASSUME NEW f \in Miner, snapshot'[f] # None, NEW a \in Miner
      PROVE  Known(snapshot[f].base[a])'
  BY <1>1, <1>7, SnapshotStep DEF EventsKnown, Known
<1>8. ASSUME NEW h \in Height, call'[h].pc = "apply", NEW a \in Miner
      PROVE  Known(call[h].split.base[a])'
  BY <1>1, <1>8, HoldStep DEF EventsKnown, Known
<1> QED BY <1>2, <1>3, <1>4, <1>5, <1>6, <1>7, <1>8 DEF EventsKnown

-------------------------------------------------------------------------------
(* A finished reset leaves nothing of what it found. *)

LEMMA ResetRowsEffect ==
  ASSUME Typed, ResetRows
  PROVE  /\ reset.pc = "rows" /\ UNCHANGED <<window, snapshot>>
         /\ gone'.shares = reset.shares /\ gone'.events = reset.events
         /\ gone'.spared = reset.spared
         /\ \A a \in Miner : row'[a] = {}
         /\ reset'.pc = "idle"
         /\ \A f \in Miner : build'[f].pc \in {"balances", "write"} => build'[f].split.late
<1>1. build' = LateBuilds
  BY DEF ResetRows
<1>2. \A f \in Miner : build'[f].pc \in {"balances", "write"} => build'[f].split.late
  BY <1>1, LateBuildsEffect, LateType DEF Typed, BuildShape
<1> QED BY <1>2, NoRecords DEF ResetRows, redis, NoReset

LEMMA ForgottenStep ==
  Typed /\ SharesSent /\ EventsKnown /\ Forgotten /\ ResetIsComplete /\ [Next]_vars => Forgotten'
<1> SUFFICES ASSUME Typed, SharesSent, EventsKnown, Forgotten, ResetIsComplete, [Next]_vars
             PROVE  Forgotten'
  OBVIOUS
<1>1. ASSUME reset'.pc \in {"drop", "rows"} PROVE window' \cap reset'.shares = {}
  <2>1. CASE ResetRound
    BY <2>1 DEF ResetRound, EmptyRound
  <2>2. CASE ~ResetRound
    <3>1. reset'.shares = reset.shares /\ reset.pc \in {"drop", "rows"}
      BY <1>1, <2>2, ResetMoves, ResetSparesEffect
         DEF ResetStart, ResetSnapshots, NoReset, Typed, TypeOK, ResetType
    <3> QED BY <3>1, WindowStep DEF Forgotten, SharesSent, RecordShare
  <2> QED BY <2>1, <2>2
<1>2. ASSUME reset'.pc = "rows", NEW f \in Miner
      PROVE  snapshot'[f] \in {None} \cup reset'.spared \/ snapshot'[f].late
  <2>1. CASE ResetSnapshots
    BY <2>1 DEF ResetSnapshots
  <2>2. CASE \E fs \in SUBSET Miner : ResetSpares(fs)
    BY <2>2, ResetSparesEffect
  <2>3. CASE ~ResetSnapshots /\ ~\E fs \in SUBSET Miner : ResetSpares(fs)
    <3>1. reset.pc = "rows" /\ reset' = reset
      BY <1>2, <2>3, ResetMoves DEF ResetStart, ResetRound, NoReset, Typed, TypeOK, ResetType
    <3> QED BY <3>1, SnapshotStep DEF Forgotten
  <2> QED BY <2>1, <2>2, <2>3
<1>3. CASE ResetRows
  BY <1>1, <1>2, <1>3, ResetRowsEffect DEF Forgotten
<1>4. CASE ~ResetRows
  <2>1. gone' = gone /\ back \subseteq back'
    BY <1>4, GoneMoves, BackStep
  <2>2. ASSUME NEW f \in Miner, build'[f].pc \in {"balances", "write"}, ~build'[f].split.late
        PROVE  build'[f].split.shares \cap gone'.shares = {}
    BY <2>1, <2>2, BuildStep DEF Forgotten, ResetIsComplete
  <2>3. ASSUME NEW a \in Miner PROVE row'[a] \cap gone'.events \subseteq back'
    <3>1. ASSUME NEW h \in Height, Apply(h) PROVE h \notin gone.events
      BY <3>1, ApplyEffect DEF EventsKnown, Known, Height, Credit
    <3> QED BY <2>1, <3>1, RowStep DEF Forgotten
  <2>4. ASSUME NEW f \in Miner, build'[f].pc = "write", ~build'[f].split.late, NEW a \in Miner
        PROVE  build'[f].split.base[a] \cap gone'.events \subseteq back'
    BY <2>1, <2>4, BuildStep DEF Forgotten
  <2> QED BY <1>1, <1>2, <2>2, <2>3, <2>4 DEF Forgotten
<1> QED BY <1>3, <1>4

LEMMA ResetIsCompleteStep ==
  Typed /\ SharesSent /\ Forgotten /\ ResetIsComplete /\ [Next]_vars => ResetIsComplete'
<1> SUFFICES ASSUME Typed, SharesSent, Forgotten, ResetIsComplete, [Next]_vars
             PROVE  ResetIsComplete'
  OBVIOUS
<1>1. CASE ResetRows
  BY <1>1, ResetRowsEffect DEF Forgotten, ResetIsComplete
<1>2. CASE ~ResetRows
  <2>1. gone' = gone /\ back \subseteq back'
    BY <1>2, GoneMoves, BackStep
  <2>2. window' \cap gone'.shares = {}
    BY <2>1, WindowStep DEF ResetIsComplete, SharesSent, RecordShare
  <2>3. ASSUME NEW f \in Miner, snapshot'[f] \notin {None} \cup gone'.spared, ~snapshot'[f].late
        PROVE  /\ snapshot'[f].shares \cap gone'.shares = {}
               /\ \A a \in Miner : snapshot'[f].base[a] \cap gone'.events \subseteq back'
    BY <2>1, <2>3, SnapshotStep DEF Forgotten, ResetIsComplete
  <2> QED BY <2>2, <2>3 DEF ResetIsComplete
<1> QED BY <1>1, <1>2

-------------------------------------------------------------------------------
(* Bookings stay in the rows. *)

\* What a booking or a reset makes late.
LEMMA LateEffect ==
  ASSUME Typed, ResetRows \/ \E h \in Height : Apply(h)
  PROVE  /\ \A f \in Miner : build'[f].pc = "write" => build'[f].split.late
         /\ kick'.pc = "save" => kick'.late
<1>1. build' = LateBuilds /\ kick' = LateKick
  BY DEF ResetRows, Apply
<1>2. \A f \in Miner : build'[f].pc = "write" => build'[f].split.late
  BY <1>1, LateBuildsEffect, LateType DEF Typed, BuildShape
<1>3. kick'.pc = "save" => kick'.late
  BY <1>1 DEF LateKick, Typed, TypeOK, KickType
<1> QED BY <1>2, <1>3

\* Without a booking and a reset, a row gains heights only through what back remembers.
LEMMA QuietRow ==
  ASSUME Typed, [Next]_vars, ~ResetRows, ~\E h \in Height : Apply(h),
         NEW a \in Miner, NEW e \in row'[a] \cap Height
  PROVE  (e \in row[a] \/ e \in back') /\ back \subseteq back'
  BY RowStep, BackStep

LEMMA RowsReadStep ==
  Typed /\ LockHeld /\ EventsKnown /\ RowsRead /\ [Next]_vars => RowsRead'
<1> SUFFICES ASSUME Typed, LockHeld, EventsKnown, RowsRead, [Next]_vars PROVE RowsRead'
  OBVIOUS
<1>1. ASSUME NEW f \in Miner, build'[f].pc = "write", ~build'[f].split.late, NEW a \in Miner,
             NEW e \in row'[a] \cap Height
      PROVE  e \in build'[f].split.base[a] \/ e \in back'
  <2>1. ~ResetRows /\ ~\E h \in Height : Apply(h)
    BY <1>1, LateEffect
  <2>2. (e \in row[a] \/ e \in back') /\ back \subseteq back'
    BY <2>1, QuietRow
  <2>3. CASE BuildBalances(f) /\ build'[f].split.base = row
    BY <2>2, <2>3
  <2>4. CASE /\ build[f].pc = "write" /\ build'[f].split.base = build[f].split.base
             /\ ~build[f].split.late
    BY <2>2, <2>4 DEF RowsRead, Has
  <2> QED BY <1>1, <2>3, <2>4, BuildStep
<1>2. ASSUME NEW f \in Miner, snapshot'[f] # None, ~snapshot'[f].late, NEW a \in Miner,
             NEW e \in row'[a] \cap Height
      PROVE  \/ e \in snapshot'[f].base[a] \/ e \in back' \/ e \in torn'
             \/ call'[e].pc \in Closing
  <2>1. CASE ResetRows
    BY <2>1, ResetRowsEffect
  <2>2. CASE ~ResetRows /\ e \notin row[a]
    BY <2>2, RowStep, ApplyEffect DEF Closing, Height, Credit
  <2>3. CASE ~ResetRows /\ e \in row[a]
    <3>1. back \subseteq back' /\ torn \subseteq torn' /\ history[e] # None
      BY <2>3, BackStep, TornStep DEF EventsKnown, Known, Height, Credit
    <3>2. CASE BuildWrite(f) /\ build[f].pc = "write" /\ snapshot'[f].base = build[f].split.base
               /\ ~build[f].split.late
      BY <2>3, <3>1, <3>2 DEF RowsRead, Has
    <3>3. CASE snapshot'[f] = snapshot[f]
      <4>1. \/ e \in snapshot[f].base[a] \/ e \in back \/ e \in torn \/ call[e].pc \in Closing
        BY <1>2, <2>3, <3>3 DEF RowsRead
      <4>2. ~DropSnapshots(e)
        BY <1>2 DEF DropSnapshots
      <4> QED BY <3>1, <3>3, <4>1, <4>2, LeaveDrop
    <3> QED BY <1>2, <3>2, <3>3, SnapshotStep
  <2> QED BY <2>1, <2>2, <2>3
<1>3. ASSUME NEW h \in Height, call'[h].pc = "apply", ~call'[h].split.late, NEW a \in Miner,
             NEW e \in row'[a] \cap Height
      PROVE  e \in call'[h].split.base[a] \/ e \in back' \/ e \in torn'
  <2>1. CASE ResetRows
    BY <2>1, ResetRowsEffect
  <2>2. CASE ~ResetRows
    <3>1. ASSUME NEW k \in Height, Apply(k) PROVE FALSE
      <4>1. call[k].pc = "apply" /\ call'[k].pc = "flag"
        BY <3>1, ApplyEffect
      <4>2. call'[k].pc \in Locked /\ call'[h].pc \in Locked
        BY <1>3, <4>1 DEF Locked
      <4> QED BY <1>3, <4>1, <4>2, LockHeldStep DEF LockHeld
    <3>2. (e \in row[a] \/ e \in back') /\ back \subseteq back' /\ torn \subseteq torn'
      BY <2>2, <3>1, QuietRow, TornStep
    <3>3. CASE ReadBalances(h) /\ call'[h].split.base = row
      BY <3>2, <3>3
    <3>4. CASE /\ ReadSnapshot(h) /\ call[h].pc = "snapshot" /\ call[h].finder \in Miner
               /\ snapshot[call[h].finder] # None
               /\ call'[h].split = snapshot[call[h].finder]
      <4>1. ~(call[e].pc \in Closing)
        BY <3>4 DEF LockHeld, Locked, Closing
      <4> QED BY <1>3, <3>2, <3>4, <4>1 DEF RowsRead
    <3>5. CASE /\ call[h].pc = "apply" /\ call'[h].split.base = call[h].split.base
               /\ ~call[h].split.late
      BY <3>2, <3>5 DEF RowsRead, BaseHas
    <3> QED BY <1>3, <3>3, <3>4, <3>5, HoldStep
  <2> QED BY <2>1, <2>2
<1>4. ASSUME kick'.pc = "save", ~kick'.late, NEW e \in row'[kick'.who] \cap Height
      PROVE  e \in kick'.seen \/ e \in back'
  <2>1. ~ResetRows /\ ~\E h \in Height : Apply(h)
    BY <1>4, LateEffect
  <2>2. kick'.who \in Miner
    BY <1>4, TypedStep DEF Typed, KickShape
  <2>3. (e \in row[kick'.who] \/ e \in back') /\ back \subseteq back'
    BY <2>1, <2>2, <1>4, QuietRow
  <2>4. CASE \E a \in Miner : FindPending(a) /\ kick'.seen = row[a] /\ kick'.who = a
    BY <2>3, <2>4
  <2>5. CASE kick'.seen = kick.seen /\ kick'.who = kick.who /\ kick.pc = "save" /\ ~kick.late
    BY <2>3, <2>5 DEF RowsRead, Has
  <2> QED BY <1>4, <2>4, <2>5, KickStep
<1> QED BY <1>1, <1>2, <1>3, <1>4 DEF RowsRead, Has, BaseHas

-------------------------------------------------------------------------------
(* The theorems. *)

LEMMA InitIInv == Init => IInv
<1> SUFFICES ASSUME Init PROVE IInv
  OBVIOUS
<1>1. Typed
  BY InitTyped
<1>2. /\ \A f \in Miner : build[f].pc = "idle" /\ snapshot[f] = None
      /\ \A h \in Height : call[h].pc = "none" /\ history[h] = None
      /\ \A a \in Miner : row[a] = {}
      /\ window = sent /\ reset.pc = "idle" /\ reset.shares = {} /\ reset.events = {}
      /\ gone.shares = {} /\ gone.events = {} /\ kick.pc = "idle" /\ kick.seen = {} /\ ~lock
  BY DEF Init, NoBuild, NoCall, NoRows, NoReset, NoKick
<1>3. LockHeld
  BY <1>2 DEF LockHeld, Locked
<1>4. SharesSent /\ EventsKnown
  BY <1>2 DEF SharesSent, EventsKnown, Known
<1>5. PaidApart /\ PaidOnce /\ BookedForFinder
  BY <1>2 DEF PaidApart, Clean, PaidOnce, BookedForFinder, Booked
<1>6. Forgotten /\ ResetIsComplete
  BY <1>2 DEF Forgotten, ResetIsComplete
<1>7. RowsRead
  BY <1>2 DEF RowsRead
<1> QED BY <1>1, <1>3, <1>4, <1>5, <1>6, <1>7 DEF IInv

LEMMA StepIInv == IInv /\ [Next]_vars => IInv'
  BY TypedStep, LockHeldStep, SharesSentStep, PaidApartStep, EventsKnownStep, ForgottenStep,
     RowsReadStep, PaidOnceStep, ResetIsCompleteStep, BookedForFinderStep DEF IInv

THEOREM Inductive == Spec => []IInv
  BY InitIInv, StepIInv, PTL DEF Spec

\* Shares are paid for once, a finished reset has left nothing but the snapshots its scan
\* failed to get through to and what builds, bookings and credits in flight stored or put
\* back, and blocks are booked for their finders, whatever mixture of blocks, builds,
\* resets, kicks, sweeps, rejected awaits of blocks and resets, and restarts the members,
\* the timers and the network bring about.
THEOREM RoundIsSafe == Spec => []RoundHolds
<1>1. IInv => RoundHolds
  BY DEF IInv, Typed, RoundHolds
<1> QED BY <1>1, Inductive, PTL

\* A step that takes a booking out of a row is a reset, the sweep of that row, the kick
\* of that member, or the write of somebody who had read the row before.
LEMMA BookingStaysStep ==
  ASSUME IInv, [Next]_vars, NEW a \in Miner,
         NEW h \in (row[a] \cap Height) \ (row'[a] \cup torn \cup back)
  PROVE  \/ reset.pc = "rows" /\ reset'.pc = "idle"
         \/ a \in sweep \ sweep'
         \/ kick.pc = "delete" /\ kick.who = a
         \/ kick.pc = "save" /\ kick.late
         \/ \E g \in Booked' \ Booked : history'[g].late
<1> USE DEF IInv
<1>1. CASE ResetRows
  BY <1>1, ResetRowsEffect
<1>2. ASSUME NEW b \in Miner, SweepRow(b) PROVE a \in sweep \ sweep'
  BY <1>2 DEF SweepRow, Typed, TypeOK, Row
<1>3. CASE KickRow
  BY <1>3 DEF KickRow, Typed, TypeOK, Row
<1>4. CASE SavePending
  <2>1. kick.who = a /\ h \notin kick.seen /\ kick.pc = "save"
    BY <1>4 DEF SavePending, Typed, TypeOK, Row
  <2> QED BY <2>1 DEF RowsRead, Has
<1>5. ASSUME NEW g \in Height, Apply(g) PROVE \E b \in Booked' \ Booked : history'[b].late
  <2>1. g \in Booked' \ Booked /\ history'[g] = call[g].split /\ call[g].pc = "apply"
    BY <1>5, ApplyEffect, SoloAssumption DEF Booked
  <2>2. h \notin call[g].split.base[a]
    BY <1>5 DEF Apply, RowsAfter
  <2> QED BY <2>1, <2>2 DEF RowsRead, BaseHas
<1> QED BY <1>1, <1>2, <1>3, <1>4, <1>5, RowMoves

THEOREM BookingsAreKept == Spec => BookingsStay
<1>1. IInv /\ [Next]_vars =>
        [\A a \in Miner : \A h \in (row[a] \cap Height) \ (row'[a] \cup torn \cup back) :
            \/ reset.pc = "rows" /\ reset'.pc = "idle"
            \/ a \in sweep \ sweep'
            \/ kick.pc = "delete" /\ kick.who = a
            \/ kick.pc = "save" /\ kick.late
            \/ \E g \in Booked' \ Booked : history'[g].late]_vars
  BY BookingStaysStep
<1> QED BY <1>1, Inductive, PTL DEF Spec, BookingsStay

-------------------------------------------------------------------------------
(* The inductive invariant of the groups.  First, what a call carries. *)

Fields == DOMAIN Membership!Idle

\* The steps at which a call needs its group, its address, and its copy of the row.
InGroup == {"enroll", "look", "add", "insert", "count", "load", "store", "remove", "demote",
            "promote", "hand", "patch", "empty", "last", "bury", "invite", "mint", "revoke",
            "commit", "file"}
ForAddress == {"found", "enroll", "look", "add", "insert", "remove", "demote", "promote", "hand",
               "mint", "file"}
WithCopy == {"demote", "promote", "hand", "patch", "bury", "store"}

\* What never changes about an invitation or a request.
Alike(n, m) == n.kind = m.kind /\ n.group = m.group /\ n.addr = m.addr /\ n.approval = m.approval

\* Who joins was asked, followed a link, or asked.
Hosted(r, ns) ==
    \/ /\ r.op = "accept" /\ r.i \in DOMAIN ns
       /\ ns[r.i].kind = "directed" /\ ns[r.i].group = r.g /\ ns[r.i].addr = r.a
    \/ r.op = "claim" /\ \E i \in DOMAIN ns : ns[i].kind = "link" /\ ns[i].group = r.g /\ ~ns[i].approval
    \/ /\ r.op = "approve" /\ r.i \in DOMAIN ns
       /\ ns[r.i].kind = "request" /\ ns[r.i].group = r.g /\ ns[r.i].addr = r.a

CallOK(r, gs, ns) ==
    /\ DOMAIN r = Fields
    /\ r.at = "idle" => r = Membership!Idle
    /\ r.at \in InGroup => r.g \in Group /\ gs[r.g] # Membership!NoGroup
    /\ r.at \in {"invite", "mint"} => r.rest \subseteq Address
    /\ r.at = "found" => r.g \in Group /\ gs[r.g] = Membership!NoGroup
    /\ r.at \in ForAddress => r.a \in Address
    /\ r.at \in WithCopy => r.row \in Membership!Row
    /\ r.at = "store" => r.row.active # Membership!ShouldBeActive(r.n)
    /\ r.at = "demote" => r.from \in Address /\ r.old = [group |-> r.g, role |-> "creator"]
    /\ r.at \in {"demote", "promote"} => r.new = [group |-> r.g, role |-> "member"]
    /\ r.at \in {"demote", "promote", "hand"} => r.op = "transfer"
    /\ r.at \in {"empty", "last", "bury"} => r.op = "dissolve"
    /\ r.at \in {"found", "enroll"} => r.op = "create"
    /\ r.at \in {"revoke", "commit"} => r.note \in Membership!Message /\ r.note.kind = "link" /\
            r.note.group = r.g
    /\ r.at = "publish" => DOMAIN r.snap \subseteq Address
    /\ r.at = "answer" => r.i # 0
    /\ r.i # 0 => /\ r.i \in DOMAIN ns /\ r.note \in Membership!Message /\ Alike(r.note, ns[r.i])
                  /\ [r.note EXCEPT !.status = r.verdict] \in Membership!Message
    /\ r.at \in {"look", "add", "insert"} => Hosted(r, ns)

NotesOK(ns, gs) ==
    /\ ns \in Seq(Membership!Message)
    /\ \A i \in DOMAIN ns : gs[ns[i].group] # Membership!NoGroup /\
            (ns[i].kind # "link" => ns[i].addr \in Address)

GroupsOK(gs) == DOMAIN gs = Group /\ \A g \in Group : gs[g] = Membership!NoGroup \/ gs[g] \in Membership!Row
MembersOK(ms, gs) ==
    /\ DOMAIN ms = Address
    /\ \A a \in Address : ms[a] = Membership!NoRow \/
            (ms[a] \in Membership!Seat /\ gs[ms[a].group] # Membership!NoGroup)

CallsOK ==
    /\ DOMAIN task = Membership!Task
    /\ \A t \in Membership!Task : CallOK(task[t], groups, notes)

RestOK ==
    /\ DOMAIN addressCache \subseteq Address /\ party \subseteq Address /\ idle \subseteq Address
    /\ armed \subseteq {g \in Group : groups[g] # Membership!NoGroup}

\* Nobody else knows of a group that is being founded.
Founding(r, g) == r.g = g /\ r.at \in {"found", "enroll"}
NewGroups ==
    \A t \in Membership!Task, g \in Group : Founding(task[t], g) =>
        /\ \A u \in Membership!Task : u # t => task[u].g # g
        /\ \A i \in DOMAIN notes : notes[i].group # g
        /\ Membership!MembersOf(g) = {}
        /\ task[t].at = "enroll" => groups[g] = Membership!NewGroup(task[t].a)

Shape == GroupsOK(groups) /\ MembersOK(members, groups) /\ NotesOK(notes, groups)
         /\ CallsOK /\ RestOK /\ NewGroups

-------------------------------------------------------------------------------
(* Then what a group is, while calls are in the middle of changing it. *)

\* The calls at some of the steps on a group.
On(at, g) == {t \in Membership!Task : task[t].g = g /\ task[t].at \in at}

Crowning(g) == On({"promote", "hand"}, g)
Emptying(g)  == On({"last", "bury"}, g)
Counting(g) == On({"count", "load", "store"}, g)
Founders(g) == On({"found", "enroll"}, g)
Transferring(g) == On({"demote", "promote", "hand"}, g)
Creators(g) == {a \in Membership!MembersOf(g) : members[a].role = "creator"}

\* The copies of transfers are no newer than the row; one that is older will be blamed.
Tokens(g) ==
    groups[g] # Membership!NoGroup /\ ~Membership!Blamed({"stale"}, g) =>
        \A t \in Transferring(g) : task[t].row.token <= groups[g].token
Outdated(g) == \E t \in Crowning(g) : task[t].row.token # groups[g].token

Sound(g) == Membership!Alive(g) /\ ~Membership!Blamed({"stale", "torn", "orphan"}, g) /\
        Emptying(g) = {} /\ Founders(g) = {}

\* One creator, whom the row names; a transfer on its own has taken the role from one
\* and given it to the other.
Crown(g) ==
    Sound(g) /\ ~Outdated(g) =>
        /\ Crowning(g) = {} => Creators(g) = {groups[g].creator}
        /\ \A t \in Crowning(g) : Crowning(g) = {t} =>
            Creators(g) = IF task[t].at = "promote" THEN {} ELSE {task[t].a}

Counted(g) ==
    Sound(g) /\ ~Membership!Blamed({"miscount"}, g) /\ Counting(g) = {} =>
        groups[g].active = Membership!ShouldBeActive(Cardinality(Membership!MembersOf(g)))

Capped(g) ==
    Membership!Alive(g) /\ groups[g].cap > 0 /\ ~Membership!Blamed({"rushed", "lowered", "stale"}, g) =>
        /\ Cardinality(Membership!MembersOf(g)) <= groups[g].cap
        /\ Membership!Inserting(g) # {} => Cardinality(Membership!MembersOf(g)) < groups[g].cap

Gone(g) ==
    groups[g] # Membership!NoGroup /\ groups[g].dissolved /\
            ~Membership!Blamed({"stale", "outlived", "torn"}, g) =>
        Membership!MembersOf(g) = {} /\ Membership!Joining(g) = {}

GroupOK(g) == Tokens(g) /\ Crown(g) /\ Counted(g) /\ Capped(g) /\ Gone(g)

\* Whoever will still read the rows for the cache, or has to.
Dirty == {"promote", "hand", "last", "bury", "count", "load", "store", "read"}
Stirring == {t \in Membership!Task : task[t].at \in Dirty}
Steady == <<"missed", None>> \notin blame /\ \A g \in Group : ~Membership!Blamed({"stale"}, g)

Fresh ==
    /\ cachedAt \in Nat /\ reads \in Nat /\ cachedAt <= reads
    /\ \A t \in Membership!Task : task[t].at = "publish" => task[t].seq \in Nat /\ task[t].seq <= reads
    /\ Steady /\ Stirring = {} =>
        /\ cachedAt = reads => addressCache = Membership!View
        /\ \A t \in Membership!Task : task[t].at = "publish" /\ task[t].seq = reads =>
                task[t].snap = Membership!View

ApartInv ==
    \A t \in Membership!Task : task[t].at \in {"found", "enroll", "insert"} /\ task[t].a \in party =>
        <<"crossed", task[t].a>> \in blame

RosterInv == Shape /\ (\A g \in Group : GroupOK(g)) /\ Fresh /\ ApartInv /\ Membership!OneModeAtATime

-------------------------------------------------------------------------------
(* Rows and records. *)

\* A row is there or it is not.
LEMMA RowsAre ==
    /\ None \notin Address /\ None \notin Group
    /\ \A r \in Membership!Row : r # Membership!NoGroup
    /\ Membership!NoRow.group = None /\ \A s \in Membership!Seat : s # Membership!NoRow /\
            s.group \in Group /\ s.group # None
  BY RosterAssumption
     DEF Membership!MembershipAssumption, Membership!Row, Membership!NoGroup,
         Membership!NoRow, Membership!Seat

\* The fields of a call.
LEMMA FieldsAre ==
    /\ Fields = {"at", "op", "g", "a", "row", "old", "new", "from", "i", "note", "verdict",
                 "n", "snap", "seq", "rest"}
    /\ Membership!Idle.at = "idle" /\ Membership!Idle.op = None /\ Membership!Idle.g = None /\
            Membership!Idle.a = None /\ Membership!Idle.i = 0
    /\ Membership!Idle.from = None /\ Membership!Idle.row = Membership!NoGroup
  BY DEF Fields, Membership!Idle

\* Invitations and requests are added and answered; what they are stays.
NotesKept(ns, ms) ==
    /\ DOMAIN ns \subseteq DOMAIN ms
    /\ \A i \in DOMAIN ns : Alike(ns[i], ms[i])

\* What a call carries stays right while groups and notes come and none goes.
LEMMA CallMono ==
  ASSUME NEW r, NEW gs, NEW hs, NEW ns, NEW ms, CallOK(r, gs, ns), NotesKept(ns, ms),
         \A g \in Group : gs[g] # Membership!NoGroup => hs[g] # Membership!NoGroup,
         r.at = "found" => hs[r.g] = Membership!NoGroup
  PROVE  CallOK(r, hs, ms)
<1>1. Hosted(r, ns) => Hosted(r, ms)
  BY DEF Hosted, NotesKept, Alike
<1>2. ASSUME r.i # 0
      PROVE  /\ r.i \in DOMAIN ms /\ r.note \in Membership!Message /\ Alike(r.note, ms[r.i])
             /\ [r.note EXCEPT !.status = r.verdict] \in Membership!Message
  <2>1. /\ r.i \in DOMAIN ns /\ r.note \in Membership!Message /\ Alike(r.note, ns[r.i])
        /\ [r.note EXCEPT !.status = r.verdict] \in Membership!Message
    BY <1>2 DEF CallOK
  <2> QED
    BY <2>1 DEF NotesKept, Alike
<1> QED
  BY <1>1, <1>2, Zenon DEF CallOK, InGroup

LEMMA IdleIsOK ==
  ASSUME NEW gs, NEW ns
  PROVE  CallOK(Membership!Idle, gs, ns)
  BY FieldsAre DEF CallOK, Fields, InGroup, ForAddress, WithCopy

\* One call takes a step.
Moves(t, r) == task' = [task EXCEPT ![t] = r]

LEMMA MovesIs ==
  ASSUME CallsOK, NEW t \in Membership!Task, NEW r, Moves(t, r)
  PROVE  /\ DOMAIN task' = Membership!Task /\ task'[t] = r
         /\ \A u \in Membership!Task : u # t => task'[u] = task[u]
  BY DEF CallsOK, Moves

LEMMA CallsStep ==
  ASSUME CallsOK, NEW t \in Membership!Task, NEW r, Moves(t, r), CallOK(r, groups', notes'),
         NotesKept(notes, notes'),
         \A g \in Group : groups[g] # Membership!NoGroup => groups'[g] # Membership!NoGroup,
         \A u \in Membership!Task : u # t /\ task[u].at = "found" => groups'[task[u].g] = Membership!NoGroup
  PROVE  CallsOK'
<1>1. DOMAIN task' = Membership!Task /\ task'[t] = r /\ \A u \in Membership!Task : u # t =>
        task'[u] = task[u]
  BY MovesIs
<1>2. ASSUME NEW u \in Membership!Task, u # t PROVE CallOK(task[u], groups', notes')
  <2>1. CallOK(task[u], groups, notes)
    BY DEF CallsOK
  <2> QED
    BY <1>2, <2>1, CallMono
<1>3. ASSUME NEW u \in Membership!Task PROVE CallOK(task'[u], groups', notes')
  BY <1>1, <1>2
<1> QED
  BY <1>1, <1>3 DEF CallsOK

\* How the calls at some of the steps change with it.
LEMMA OnStep ==
  ASSUME CallsOK, NEW t \in Membership!Task, NEW r, Moves(t, r), NEW at, NEW g
  PROVE  /\ On(at, g)' \ {t} = On(at, g) \ {t}
         /\ t \in On(at, g)' <=> r.g = g /\ r.at \in at
         /\ t \in On(at, g) <=> task[t].g = g /\ task[t].at \in at
<1>1. DOMAIN task' = Membership!Task /\ task'[t] = r /\ \A u \in Membership!Task : u # t =>
        task'[u] = task[u]
  BY MovesIs
<1> QED
  BY <1>1 DEF On

\* The step concerns this group in none of these ways, before or after.
LEMMA OnSame ==
  ASSUME CallsOK, NEW t \in Membership!Task, NEW r, Moves(t, r), NEW at, NEW g,
         ~(r.g = g /\ r.at \in at), ~(task[t].g = g /\ task[t].at \in at)
  PROVE  On(at, g)' = On(at, g)
  BY OnStep

LEMMA InsertingIs ==
  ASSUME NEW g
  PROVE  /\ Membership!Inserting(g) = On({"insert"}, g) /\ Membership!Joining(g) = On({"add", "insert"}, g)
         /\ Membership!Inserting(g)' = On({"insert"}, g)' /\
                 Membership!Joining(g)' = On({"add", "insert"}, g)'
  BY DEF Membership!Inserting, Membership!Joining, On, Membership!At

\* The membership module counts with its own copy of the library's operators.
LEMMA CopiesAgree ==
  \A S : /\ Membership!IsFiniteSet(S) <=> IsFiniteSet(S)
        /\ Membership!Cardinality(S) = Cardinality(S)
<1> TAKE S
<1>1. Membership!IsFiniteSet(S) <=> IsFiniteSet(S)
  BY DEF Membership!IsFiniteSet, IsFiniteSet
<1>2. Membership!Cardinality(S) = Cardinality(S)
  BY DEF Membership!Cardinality, Cardinality
<1> QED
  BY <1>1, <1>2

LEMMA RosterFinite ==
  ASSUME NEW g
  PROVE  /\ IsFiniteSet(Membership!MembersOf(g)) /\ Cardinality(Membership!MembersOf(g)) \in Nat
         /\ Membership!MembersOf(g) \subseteq Address
<1>1. IsFiniteSet(Address) /\ Membership!MembersOf(g) \subseteq Address
  BY CopiesAgree, RosterAssumption DEF Membership!MembershipAssumption, Membership!MembersOf
<1>2. IsFiniteSet(Membership!MembersOf(g))
  BY <1>1, FS_Subset
<1> QED
  BY <1>1, <1>2, FS_CardinalityType

-------------------------------------------------------------------------------
(* What keeps each part of the invariant of a group. *)

Causes == {"stale", "torn", "orphan", "miscount", "rushed", "lowered", "outlived"}
BlameStays(g) == \A c \in Causes : <<c, g>> \in blame => <<c, g>> \in blame'

LEMMA BlamedStays ==
  ASSUME NEW g, BlameStays(g), NEW cs \in SUBSET Causes, Membership!Blamed(cs, g)
  PROVE  Membership!Blamed(cs, g)'
  BY DEF BlameStays, Membership!Blamed

LEMMA TokensFrame ==
  ASSUME NEW g \in Group, Tokens(g), BlameStays(g), GroupsOK(groups),
         \A t \in Transferring(g) : task[t].row \in Membership!Row,
         groups'[g] # Membership!NoGroup => groups'[g] \in Membership!Row,
         groups'[g] # Membership!NoGroup /\ ~Membership!Blamed({"stale"}, g)' =>
             /\ groups[g] # Membership!NoGroup /\ groups[g].token <= groups'[g].token
             /\ Transferring(g)' \subseteq Transferring(g)
             /\ \A t \in Transferring(g)' : task'[t].row = task[t].row
  PROVE  Tokens(g)'
<1>1. ASSUME groups'[g] # Membership!NoGroup, ~Membership!Blamed({"stale"}, g)', NEW t \in Transferring(g)'
      PROVE  task'[t].row.token <= groups'[g].token
  <2>1. ~Membership!Blamed({"stale"}, g)
    BY <1>1, BlamedStays DEF Causes
  <2>2. t \in Transferring(g) /\ task'[t].row = task[t].row /\ groups[g] # Membership!NoGroup
        /\ groups[g].token <= groups'[g].token
    BY <1>1
  <2>3. task[t].row.token <= groups[g].token
    BY <2>1, <2>2 DEF Tokens
  <2>4. task[t].row.token \in Nat /\ groups[g].token \in Nat /\ groups'[g].token \in Nat
    BY <1>1, <2>2 DEF GroupsOK, Membership!Row
  <2> QED
    BY <2>2, <2>3, <2>4
<1> QED
  BY <1>1 DEF Tokens

LEMMA CrownFrame ==
  ASSUME NEW g \in Group, Crown(g), BlameStays(g),
         Sound(g)' => /\ Membership!Alive(g)
                      /\ groups'[g].creator = groups[g].creator /\ groups'[g].token = groups[g].token
                      /\ Creators(g)' = Creators(g) /\ Crowning(g)' = Crowning(g)
                      /\ \A t \in Crowning(g) : task'[t] = task[t]
                      /\ (Emptying(g) # {} => Emptying(g)' # {})
                      /\ (Founders(g) # {} => Founders(g)' # {})
  PROVE  Crown(g)'
<1> SUFFICES ASSUME Sound(g)', ~Outdated(g)'
             PROVE  /\ Crowning(g)' = {} => Creators(g)' = {groups'[g].creator}
                    /\ \A t \in Crowning(g)' : Crowning(g)' = {t} =>
                        Creators(g)' = IF task'[t].at = "promote" THEN {} ELSE {task'[t].a}
  BY DEF Crown
<1>1. /\ Membership!Alive(g)
      /\ groups'[g].creator = groups[g].creator /\ groups'[g].token = groups[g].token
      /\ Creators(g)' = Creators(g) /\ Crowning(g)' = Crowning(g)
      /\ \A t \in Crowning(g) : task'[t] = task[t]
      /\ Emptying(g) = {} /\ Founders(g) = {}
  BY DEF Sound
<1>2. ~Membership!Blamed({"stale", "torn", "orphan"}, g)
  BY BlamedStays DEF Causes, Sound
<1>3. ~Outdated(g)
  BY <1>1 DEF Outdated
<1>4. /\ Crowning(g) = {} => Creators(g) = {groups[g].creator}
      /\ \A t \in Crowning(g) : Crowning(g) = {t} =>
            Creators(g) = IF task[t].at = "promote" THEN {} ELSE {task[t].a}
  BY <1>1, <1>2, <1>3 DEF Crown, Sound
<1> HIDE DEF Crowning, Creators
<1> QED
  BY <1>1, <1>4

LEMMA CountedFrame ==
  ASSUME NEW g \in Group, Counted(g), BlameStays(g),
         Sound(g)' /\ ~Membership!Blamed({"miscount"}, g)' /\ Counting(g)' = {} =>
            /\ Membership!Alive(g) /\ groups'[g].active = groups[g].active
            /\ Membership!MembersOf(g)' = Membership!MembersOf(g)
            /\ (Emptying(g) # {} => Emptying(g)' # {})
            /\ (Founders(g) # {} => Founders(g)' # {})
            /\ (Counting(g) # {} => Counting(g)' # {})
  PROVE  Counted(g)'
<1> SUFFICES ASSUME Sound(g)', ~Membership!Blamed({"miscount"}, g)', Counting(g)' = {}
             PROVE  groups'[g].active = Membership!ShouldBeActive(Cardinality(Membership!MembersOf(g)'))
  BY DEF Counted, Membership!ShouldBeActive
<1>1. /\ Membership!Alive(g) /\ groups'[g].active = groups[g].active
      /\ Membership!MembersOf(g)' = Membership!MembersOf(g)
      /\ Emptying(g) = {} /\ Founders(g) = {} /\ Counting(g) = {}
  BY DEF Sound
<1>2. ~Membership!Blamed({"stale", "torn", "orphan"}, g) /\ ~Membership!Blamed({"miscount"}, g)
  BY BlamedStays DEF Causes, Sound
<1>3. groups[g].active = Membership!ShouldBeActive(Cardinality(Membership!MembersOf(g)))
  BY <1>1, <1>2 DEF Counted, Sound
<1> QED
  BY <1>1, <1>3

LEMMA CappedFrame ==
  ASSUME NEW g \in Group, Capped(g), BlameStays(g),
         Membership!Alive(g)' /\ ~Membership!Blamed({"rushed", "lowered", "stale"}, g)' =>
            /\ Membership!Alive(g) /\ groups'[g].cap = groups[g].cap
            /\ Membership!MembersOf(g)' \subseteq Membership!MembersOf(g) /\
                    Membership!Inserting(g)' \subseteq Membership!Inserting(g),
         GroupsOK(groups)
  PROVE  Capped(g)'
<1> SUFFICES ASSUME Membership!Alive(g)', groups'[g].cap > 0, ~Membership!Blamed({"rushed", "lowered", "stale"}, g)'
             PROVE  /\ Cardinality(Membership!MembersOf(g)') <= groups'[g].cap
                    /\ Membership!Inserting(g)' # {} =>
                            Cardinality(Membership!MembersOf(g)') < groups'[g].cap
  BY DEF Capped
<1>1. /\ Membership!Alive(g) /\ groups'[g].cap = groups[g].cap
      /\ Membership!MembersOf(g)' \subseteq Membership!MembersOf(g) /\
              Membership!Inserting(g)' \subseteq Membership!Inserting(g)
  OBVIOUS
<1>2. ~Membership!Blamed({"rushed", "lowered", "stale"}, g)
  BY BlamedStays DEF Causes
<1>3. /\ Cardinality(Membership!MembersOf(g)) <= groups[g].cap
      /\ Membership!Inserting(g) # {} => Cardinality(Membership!MembersOf(g)) < groups[g].cap
  BY <1>1, <1>2 DEF Capped
<1>4. /\ Cardinality(Membership!MembersOf(g)') <= Cardinality(Membership!MembersOf(g))
      /\ Cardinality(Membership!MembersOf(g)') \in Nat /\ Cardinality(Membership!MembersOf(g)) \in Nat
  <2>1. IsFiniteSet(Membership!MembersOf(g))
    BY RosterFinite
  <2>2. IsFiniteSet(Membership!MembersOf(g)')
    BY <1>1, <2>1, FS_Subset
  <2> QED
    BY <1>1, <2>1, <2>2, FS_Subset, FS_CardinalityType
<1>5. groups[g].cap \in Nat
  BY <1>1, RosterAssumption
     DEF Membership!MembershipAssumption, GroupsOK, Membership!Row, Membership!Alive
<1> QED
  BY <1>1, <1>3, <1>4, <1>5

LEMMA GoneFrame ==
  ASSUME NEW g \in Group, Gone(g), BlameStays(g),
         groups'[g] # Membership!NoGroup /\ groups'[g].dissolved /\
                 ~Membership!Blamed({"stale", "outlived", "torn"}, g)' =>
            /\ groups[g] # Membership!NoGroup /\ groups[g].dissolved
            /\ Membership!MembersOf(g)' \subseteq Membership!MembersOf(g) /\
                    Membership!Joining(g)' \subseteq Membership!Joining(g)
  PROVE  Gone(g)'
<1> SUFFICES ASSUME groups'[g] # Membership!NoGroup, groups'[g].dissolved, ~Membership!Blamed({"stale", "outlived", "torn"}, g)'
             PROVE  Membership!MembersOf(g)' = {} /\ Membership!Joining(g)' = {}
  BY DEF Gone
<1>1. ~Membership!Blamed({"stale", "outlived", "torn"}, g)
  BY BlamedStays DEF Causes
<1>2. Membership!MembersOf(g) = {} /\ Membership!Joining(g) = {}
  BY <1>1 DEF Gone
<1> QED
  BY <1>2

\* The steps that matter to the invariant of a group.
Marked == {"found", "enroll", "demote", "promote", "hand", "last", "bury", "count", "load", "store",
           "add", "insert"}

SeatsKept(g) ==
    /\ DOMAIN members' = DOMAIN members
    /\ \A a \in Address : members'[a] = members[a] \/ (members[a].group # g /\ members'[a].group # g)

LEMMA SeatsSame ==
  ASSUME NEW g, SeatsKept(g)
  PROVE  Membership!MembersOf(g)' = Membership!MembersOf(g) /\ Creators(g)' = Creators(g)
<1>1. Membership!MembersOf(g)' = Membership!MembersOf(g)
  BY DEF SeatsKept, Membership!MembersOf
<1> QED
  BY <1>1 DEF SeatsKept, Creators, Membership!MembersOf

LEMMA GroupFrame ==
  ASSUME Shape, NEW t \in Membership!Task, NEW r, Moves(t, r), NEW g \in Group, GroupOK(g), BlameStays(g),
         groups'[g] = groups[g], SeatsKept(g),
         task[t].g = g => task[t].at \notin Marked,
         r.g = g => r.at \notin Marked
  PROVE  GroupOK(g)'
<1>0. CallsOK /\ GroupsOK(groups) /\ \A u \in Membership!Task : CallOK(task[u], groups, notes)
  BY DEF Shape, CallsOK
<1>1. Membership!MembersOf(g)' = Membership!MembersOf(g) /\ Creators(g)' = Creators(g)
  BY SeatsSame
<1>2. /\ Crowning(g)' = Crowning(g) /\ Emptying(g)' = Emptying(g) /\ Counting(g)' = Counting(g)
      /\ Founders(g)' = Founders(g) /\ Transferring(g)' = Transferring(g)
      /\ Membership!Inserting(g)' = Membership!Inserting(g) /\
              Membership!Joining(g)' = Membership!Joining(g)
  <2>1. ASSUME NEW at \in SUBSET Marked PROVE On(at, g)' = On(at, g)
    BY <1>0, OnSame
  <2>2. Membership!Inserting(g)' = On({"insert"}, g)' /\ Membership!Joining(g)' = On({"add", "insert"}, g)'
    BY InsertingIs
  <2> QED
    BY <2>1, <2>2, InsertingIs DEF Marked, Crowning, Emptying, Counting, Founders, Transferring
<1>3. /\ \A u \in Transferring(g) : task'[u] = task[u] /\ task[u].row \in Membership!Row
      /\ \A u \in Crowning(g) : task'[u] = task[u]
  BY <1>0, MovesIs DEF Transferring, Crowning, On, Marked, CallOK, WithCopy
<1>4. Tokens(g)'
  <2>1. groups'[g] # Membership!NoGroup => groups'[g] \in Membership!Row /\
          groups[g].token <= groups'[g].token
    BY <1>0 DEF GroupsOK, Membership!Row
  <2> QED
    BY <1>0, <1>2, <1>3, <2>1, TokensFrame DEF GroupOK
<1>5. Crown(g)'
  BY <1>1, <1>2, <1>3, CrownFrame DEF GroupOK, Membership!Alive, Sound
<1>6. Counted(g)'
  BY <1>1, <1>2, CountedFrame DEF GroupOK, Membership!Alive, Sound
<1>7. Capped(g)'
  BY <1>0, <1>1, <1>2, CappedFrame DEF GroupOK, Membership!Alive
<1>8. Gone(g)'
  BY <1>1, <1>2, GoneFrame DEF GroupOK
<1> QED
  BY <1>4, <1>5, <1>6, <1>7, <1>8 DEF GroupOK

\* The cache follows what it was read from.
LEMMA ViewSame ==
  ASSUME DOMAIN members' = DOMAIN members,
         \A a \in Address : /\ members'[a].group = members[a].group
                            /\ members[a].group # None =>
                                /\ Membership!Alive(members[a].group)' = Membership!Alive(members[a].group)
                                /\ Membership!Alive(members[a].group) =>
                                    groups'[members[a].group].active = groups[members[a].group].active
  PROVE  Membership!View' = Membership!View
<1> DEFINE S == {a \in Address : members[a].group # None /\ Membership!Alive(members[a].group)}
<1>2. S' = S
  BY DEF Membership!Alive
<1>3. Membership!View = [a \in S |-> [group |-> members[a].group, active |-> groups[members[a].group].active]]
  BY DEF Membership!View
<1>4. Membership!View' = [a \in S' |-> [group |-> members'[a].group, active |-> groups'[members'[a].group].active]]
  BY DEF Membership!View
<1> QED
  BY <1>2, <1>3, <1>4

\* A call that stirs still does, or has said that it failed.
LEMMA FreshFrame ==
  ASSUME Shape, Fresh, NEW t \in Membership!Task, NEW r, Moves(t, r),
         UNCHANGED <<addressCache, reads, cachedAt>>,
         \A g \in Group : BlameStays(g),
         Steady' => /\ <<"missed", None>> \notin blame
                    /\ (task[t].at \in Dirty => r.at \in Dirty)
                    /\ (r.at \notin Dirty => Membership!View' = Membership!View),
         r.at = "publish" => r = task[t]
  PROVE  Fresh'
<1>0. CallsOK
  BY DEF Shape
<1>1. DOMAIN task' = Membership!Task /\ task'[t] = r /\ \A u \in Membership!Task : u # t =>
        task'[u] = task[u]
  BY <1>0, MovesIs
<1>2. \A u \in Membership!Task : task'[u].at = "publish" => task'[u] = task[u]
  BY <1>1
<1>3. ASSUME Steady', Stirring' = {}
      PROVE  Steady /\ Stirring = {} /\ Membership!View' = Membership!View
  <2>1. Steady
    <3>1. \A g \in Group : ~Membership!Blamed({"stale"}, g)
      BY <1>3, BlamedStays DEF Steady, Causes
    <3> QED
      BY <1>3, <3>1 DEF Steady
  <2>2. r.at \notin Dirty /\ Membership!View' = Membership!View
    BY <1>1, <1>3 DEF Stirring
  <2>3. Stirring = {}
    BY <1>1, <1>3, <2>2 DEF Stirring
  <2> QED
    BY <2>1, <2>2, <2>3
<1>4. /\ cachedAt' \in Nat /\ reads' \in Nat /\ cachedAt' <= reads'
      /\ \A u \in Membership!Task : task'[u].at = "publish" => task'[u].seq \in Nat /\
              task'[u].seq <= reads'
  BY <1>2 DEF Fresh
<1>5. ASSUME Steady', Stirring' = {}
      PROVE  /\ cachedAt' = reads' => addressCache' = Membership!View'
             /\ \A u \in Membership!Task : task'[u].at = "publish" /\ task'[u].seq = reads' =>
                     task'[u].snap = Membership!View'
  BY <1>2, <1>3, <1>5 DEF Fresh
<1> QED
  BY <1>4, <1>5 DEF Fresh

-------------------------------------------------------------------------------
(* Calls that go on and leave groups and members alone. *)

Notable == Marked \cup Dirty \cup {"publish"}

Passed(t, r) ==
    /\ Moves(t, r) /\ UNCHANGED <<groups, members, addressCache, party, idle, reads, cachedAt, blame>>
    /\ armed' \subseteq armed
    /\ task[t].at \notin Notable
    /\ CallOK(r, groups, notes') /\ NotesOK(notes', groups) /\ NotesKept(notes, notes')
    /\ \A i \in DOMAIN notes' : i \in DOMAIN notes \/ notes'[i].group = task[t].g
    /\ r.g = task[t].g \/ r.g \notin Group \/ Founders(r.g) = {}
    /\ r.at \in Notable => r.at \in {"found", "add", "demote", "promote"}
    /\ r.at = "found" => r.a \notin party /\ \A u \in Membership!Task : task[u].g # r.g
    /\ r.at = "add" => Membership!Alive(r.g)
    /\ r.at \in {"demote", "promote"} => r.row = groups[r.g]
    /\ r.at = "promote" => Creators(r.g) = {}

LEMMA MembersExist ==
  ASSUME Shape, NEW g \in Group, groups[g] = Membership!NoGroup
  PROVE  Membership!MembersOf(g) = {} /\ \A i \in DOMAIN notes : notes[i].group # g
<1>1. Membership!MembersOf(g) = {}
  BY RowsAre DEF Shape, MembersOK, Membership!MembersOf
<1> QED
  BY <1>1 DEF Shape, NotesOK

LEMMA ModeFrame ==
  ASSUME Membership!OneModeAtATime, UNCHANGED party, DOMAIN members' = DOMAIN members,
         \A a \in party : members'[a] # Membership!NoRow =>
            members[a] # Membership!NoRow /\ members'[a].group = members[a].group,
         blame \ {<<"missed", None>>} \subseteq blame'
  PROVE  Membership!OneModeAtATime'
<1>1. ASSUME NEW a \in party, members'[a] # Membership!NoRow
      PROVE  <<"crossed", a>> \in blame' \/ Membership!Blamed({"stale"}, members[a].group)'
  <2>1. members'[a].group = members[a].group /\ members[a] # Membership!NoRow
    BY <1>1
  <2>2. <<"crossed", a>> \in blame \/ <<"stale", members[a].group>> \in blame
    BY <2>1 DEF Membership!OneModeAtATime, Membership!Blamed
  <2>3. <<"crossed", a>> \in blame' \/ <<"stale", members'[a].group>> \in blame'
    BY <2>1, <2>2
  <2> QED
    BY <2>3 DEF Membership!Blamed
<1> QED
  BY <1>1 DEF Membership!OneModeAtATime

LEMMA NewGroupsStep ==
  ASSUME Shape, NEW t \in Membership!Task, NEW r, Moves(t, r),
         \A i \in DOMAIN notes' : (i \in DOMAIN notes /\ notes'[i].group = notes[i].group)
                                  \/ notes'[i].group = task[t].g,
         r.g = task[t].g \/ r.g \notin Group \/ Founders(r.g) = {},
         \A u \in Membership!Task, g \in Group : u # t /\ Founding(task[u], g) =>
             groups'[g] = groups[g] /\ Membership!MembersOf(g)' \subseteq Membership!MembersOf(g),
         \A g \in Group : Founding(r, g) =>
             /\ \A u \in Membership!Task : u # t => task[u].g # g
             /\ \A i \in DOMAIN notes' : notes'[i].group # g
             /\ Membership!MembersOf(g)' = {}
             /\ r.at = "enroll" => groups'[g] = Membership!NewGroup(r.a)
  PROVE  NewGroups'
<1>1. DOMAIN task' = Membership!Task /\ task'[t] = r /\ \A u \in Membership!Task : u # t =>
        task'[u] = task[u]
  BY MovesIs DEF Shape
<1>2. ASSUME NEW u \in Membership!Task, NEW g \in Group, Founding(task'[u], g)
      PROVE  /\ \A w \in Membership!Task : w # u => task'[w].g # g
             /\ \A i \in DOMAIN notes' : notes'[i].group # g
             /\ Membership!MembersOf(g)' = {}
             /\ task'[u].at = "enroll" => groups'[g] = Membership!NewGroup(task'[u].a)
  <2>1. CASE u = t
    BY <1>1, <1>2, <2>1
  <2>2. CASE u # t
    <3>1. Founding(task[u], g) /\ task'[u] = task[u] /\ u \in Founders(g)
      BY <1>1, <1>2, <2>2 DEF Founding, Founders, On
    <3>2. /\ \A w \in Membership!Task : w # u => task[w].g # g
          /\ \A i \in DOMAIN notes : notes[i].group # g
          /\ Membership!MembersOf(g) = {}
          /\ task[u].at = "enroll" => groups[g] = Membership!NewGroup(task[u].a)
      BY <3>1 DEF Shape, NewGroups
    <3>3. groups'[g] = groups[g] /\ Membership!MembersOf(g)' = {}
      BY <2>2, <3>1, <3>2 DEF Founding
    <3>4. task[t].g # g /\ r.g # g
      BY <2>2, <3>1, <3>2
    <3> QED
      BY <1>1, <2>2, <3>1, <3>2, <3>3, <3>4
  <2> QED
    BY <2>1, <2>2
<1> QED
  BY <1>2 DEF NewGroups, Membership!MembersOf

LEMMA PassedKeeps ==
  ASSUME RosterInv, NEW t \in Membership!Task, NEW r, Passed(t, r)
  PROVE  RosterInv'
<1>0. Shape /\ CallsOK /\ GroupsOK(groups) /\ MembersOK(members, groups) /\ NotesOK(notes, groups)
      /\ RestOK /\ Fresh /\ Moves(t, r) /\ \A g \in Group : GroupOK(g)
  BY DEF RosterInv, Shape, Passed
<1>1. DOMAIN task' = Membership!Task /\ task'[t] = r /\ \A u \in Membership!Task : u # t =>
        task'[u] = task[u]
  BY <1>0, MovesIs
<1>2. UNCHANGED <<groups, members, addressCache, party, idle, reads, cachedAt, blame>>
  BY DEF Passed
<1>3. \A g : Membership!MembersOf(g)' = Membership!MembersOf(g) /\ Creators(g)' = Creators(g) /\
        BlameStays(g) /\ SeatsKept(g)
  BY <1>2 DEF Membership!MembersOf, Creators, BlameStays, SeatsKept
<1>4. Shape'
  <2>1. CallsOK'
    <3>1. \A u \in Membership!Task : task[u].at = "found" => groups[task[u].g] = Membership!NoGroup
      BY <1>0 DEF CallsOK, CallOK
    <3>2. CallOK(r, groups', notes') /\ NotesKept(notes, notes')
      BY <1>2 DEF Passed
    <3> QED
      BY <1>0, <1>2, <3>1, <3>2, CallsStep
  <2>2. NewGroups'
    <3>1. \A g \in Group : Founding(r, g) =>
             /\ \A u \in Membership!Task : u # t => task[u].g # g
             /\ \A i \in DOMAIN notes' : notes'[i].group # g
             /\ Membership!MembersOf(g)' = {}
             /\ r.at = "enroll" => groups'[g] = Membership!NewGroup(r.a)
      <4> SUFFICES ASSUME NEW g \in Group, Founding(r, g)
                   PROVE  /\ \A u \in Membership!Task : u # t => task[u].g # g
                          /\ \A i \in DOMAIN notes' : notes'[i].group # g
                          /\ Membership!MembersOf(g)' = {}
                          /\ r.at = "enroll" => groups'[g] = Membership!NewGroup(r.a)
        OBVIOUS
      <4>1. r.at = "found" /\ r.g = g
        BY DEF Founding, Passed, Notable, Marked
      <4>2. groups[g] = Membership!NoGroup /\ \A u \in Membership!Task : task[u].g # g
        BY <4>1 DEF Passed, CallOK
      <4>3. Membership!MembersOf(g) = {} /\ \A i \in DOMAIN notes' : notes'[i].group # g
        BY <1>0, <1>2, <4>2, MembersExist DEF Passed, NotesOK
      <4> QED
        BY <1>3, <4>1, <4>2, <4>3
    <3>2. \A i \in DOMAIN notes' : (i \in DOMAIN notes /\ notes'[i].group = notes[i].group)
                                  \/ notes'[i].group = task[t].g
      BY DEF Passed, NotesKept, Alike
    <3>3. \A u \in Membership!Task, g \in Group : u # t /\ Founding(task[u], g) =>
             groups'[g] = groups[g] /\ Membership!MembersOf(g)' \subseteq Membership!MembersOf(g)
      BY <1>2, <1>3
    <3>4. r.g = task[t].g \/ r.g \notin Group \/ Founders(r.g) = {}
      BY DEF Passed
    <3> QED
      BY <1>0, <3>1, <3>2, <3>3, <3>4, NewGroupsStep
  <2>3. RestOK'
    BY <1>0, <1>2 DEF Passed, RestOK
  <2> QED
    BY <1>0, <1>2, <2>1, <2>2, <2>3 DEF Passed, Shape
<1>5. ASSUME NEW g \in Group PROVE GroupOK(g)'
  <2>0. task[t].at \notin Marked /\ GroupOK(g) /\ groups'[g] = groups[g] /\ GroupsOK(groups)
    BY <1>0, <1>2 DEF Passed, Notable
  <2>1. CASE r.g = g => r.at \notin Marked
    BY <1>0, <1>3, <2>0, <2>1, GroupFrame
  <2>2. CASE r.g = g /\ r.at \in Marked
    <3>1. r.at \in {"found", "add", "demote", "promote"}
      BY <2>2 DEF Passed, Notable
    <3>2. CASE r.at = "found"
      <4>1. groups'[g] = Membership!NoGroup
        BY <1>2, <2>2, <3>2 DEF Passed, CallOK
      <4> QED
        BY <4>1 DEF GroupOK, Tokens, Crown, Counted, Capped, Gone, Membership!Alive, Sound
    <3>3. CASE r.at # "found"
      <4>1. /\ Emptying(g)' = Emptying(g) /\ Counting(g)' = Counting(g)
            /\ Founders(g)' = Founders(g) /\ Membership!Inserting(g)' = Membership!Inserting(g)
        <5>1. ASSUME NEW at \in SUBSET {"last", "bury", "count", "load", "store", "found", "enroll", "insert"}
              PROVE  On(at, g)' = On(at, g)
          <6>1. r.at \notin at /\ task[t].at \notin at
            BY <2>0, <3>1, <3>3 DEF Marked
          <6> QED
            BY <1>0, <6>1, OnSame
        <5>2. Membership!Inserting(g)' = On({"insert"}, g)'
          BY InsertingIs
        <5> QED
          BY <5>1, <5>2, InsertingIs DEF Emptying, Counting, Founders
      <4>2. Counted(g)'
        BY <1>2, <1>3, <2>0, <4>1, CountedFrame DEF GroupOK, Membership!Alive, Sound
      <4>3. Capped(g)'
        BY <1>2, <1>3, <2>0, <4>1, CappedFrame DEF GroupOK, Membership!Alive
      <4>4. Gone(g)'
        <5>1. CASE r.at = "add"
          <6>1. ~groups'[g].dissolved
            BY <1>2, <2>2, <5>1 DEF Passed, Membership!Alive
          <6> QED
            BY <6>1 DEF Gone
        <5>2. CASE r.at # "add"
          <6>1. On({"add", "insert"}, g)' = On({"add", "insert"}, g)
            BY <1>0, <2>0, <3>1, <5>2, OnSame DEF Marked
          <6>2. Membership!Joining(g)' = On({"add", "insert"}, g)'
            BY InsertingIs
          <6> QED
            BY <1>2, <1>3, <2>0, <6>1, <6>2, InsertingIs, GoneFrame DEF GroupOK
        <5> QED
          BY <5>1, <5>2
      <4>5. Tokens(g)'
        <5>1. Transferring(g)' \subseteq Transferring(g) \cup {t}
          BY <1>1 DEF Transferring, On
        <5>2. ASSUME groups'[g] # Membership!NoGroup, ~Membership!Blamed({"stale"}, g)',
                NEW u \in Transferring(g)'
              PROVE  task'[u].row.token <= groups'[g].token
          <6>1. CASE u = t
            <7>1. r.at \in {"demote", "promote"}
              BY <1>1, <3>1, <3>3, <5>2, <6>1 DEF Transferring, On
            <7>2. r.row = groups[g]
              BY <2>2, <7>1 DEF Passed
            <7>3. groups[g].token \in Nat
              BY <1>2, <2>0, <5>2 DEF GroupsOK, Membership!Row
            <7> QED
              BY <1>1, <1>2, <6>1, <7>2, <7>3
          <6>2. CASE u # t
            <7>1. u \in Transferring(g) /\ task'[u] = task[u]
              BY <1>1, <5>1, <6>2 DEF Transferring, On
            <7>2. ~Membership!Blamed({"stale"}, g) /\ groups[g] # Membership!NoGroup
              BY <1>2, <5>2 DEF Membership!Blamed
            <7> QED
              BY <1>2, <2>0, <7>1, <7>2 DEF GroupOK, Tokens
          <6> QED
            BY <6>1, <6>2
        <5> QED
          BY <5>2 DEF Tokens
      <4>6. Crown(g)'
        <5>1. CASE r.at # "promote"
          <6>1. Crowning(g)' = Crowning(g) /\ \A u \in Crowning(g) : task'[u] = task[u]
            BY <1>1, <2>0, <3>1, <3>3, <5>1 DEF Crowning, On, Marked
          <6> QED
            BY <1>2, <1>3, <2>0, <4>1, <6>1, CrownFrame DEF GroupOK, Membership!Alive, Sound
        <5>2. CASE r.at = "promote"
          <6>1. Crowning(g)' = Crowning(g) \cup {t} /\ t \notin Crowning(g)
            BY <1>1, <2>0, <2>2, <5>2 DEF Crowning, On, Marked
          <6>2. Creators(g)' = {}
            BY <1>3, <2>2, <5>2 DEF Passed
          <6>3. CASE Crowning(g) = {}
            <7>1. ASSUME Sound(g)', ~Outdated(g)' PROVE FALSE
              <8>1. Sound(g)
                BY <1>2, <4>1, <7>1 DEF Sound, Membership!Alive, Membership!Blamed
              <8>2. ~Outdated(g)
                BY <6>3 DEF Outdated
              <8>3. Creators(g) = {groups[g].creator}
                BY <2>0, <6>3, <8>1, <8>2 DEF GroupOK, Crown
              <8> QED
                BY <1>3, <6>2, <8>3
            <7> QED
              BY <7>1 DEF Crown
          <6>4. CASE Crowning(g) # {}
            <7>1. Crowning(g)' # {} /\ \A u \in Crowning(g)' : Crowning(g)' # {u}
              BY <6>1, <6>4
            <7> HIDE DEF Crowning, Creators
            <7>2. /\ Crowning(g)' = {} => Creators(g)' = {groups'[g].creator}
                  /\ \A u \in Crowning(g)' : Crowning(g)' = {u} =>
                        Creators(g)' = IF task'[u].at = "promote" THEN {} ELSE {task'[u].a}
              BY <7>1
            <7> QED
              BY <7>2 DEF Crown
          <6> QED
            BY <6>3, <6>4
        <5> QED
          BY <5>1, <5>2
      <4> QED
        BY <4>2, <4>3, <4>4, <4>5, <4>6 DEF GroupOK
    <3> QED
      BY <3>2, <3>3
  <2> QED
    BY <2>1, <2>2
<1>6. Fresh'
  <2>1. /\ task[t].at \notin Dirty /\ r.at # "publish"
    BY DEF Passed, Notable
  <2>2. Membership!View' = Membership!View
    BY <1>2 DEF Membership!View, Membership!Alive
  <2>3. Steady' => <<"missed", None>> \notin blame
    BY <1>2 DEF Steady
  <2> QED
    BY <1>0, <1>2, <1>3, <2>1, <2>2, <2>3, FreshFrame
<1>7. ApartInv'
  <2>1. ASSUME NEW u \in Membership!Task, task'[u].at \in {"found", "enroll", "insert"}, task'[u].a \in party'
        PROVE  <<"crossed", task'[u].a>> \in blame'
    <3>1. u # t
      BY <1>1, <1>2, <2>1 DEF Passed, Notable, Marked
    <3> QED
      BY <1>1, <1>2, <2>1, <3>1 DEF RosterInv, ApartInv
  <2> QED
    BY <2>1 DEF ApartInv
<1>8. Membership!OneModeAtATime'
  BY <1>2 DEF RosterInv, Membership!OneModeAtATime, Membership!Blamed
<1> QED
  BY <1>4, <1>5, <1>6, <1>7, <1>8 DEF RosterInv

-------------------------------------------------------------------------------
(* Invitations and requests. *)

\* Notes that are answered in place.
LEMMA NotesRestated ==
  ASSUME NEW gs, NEW ns, NEW ms, NotesOK(ns, gs),
         ms = [i \in DOMAIN ns |-> ms[i]],
         \A i \in DOMAIN ns : ms[i] \in Membership!Message /\ Alike(ns[i], ms[i])
  PROVE  NotesOK(ms, gs) /\ NotesKept(ns, ms) /\ DOMAIN ms = DOMAIN ns
<1>1. DOMAIN ms = DOMAIN ns /\ DOMAIN ns = 1..Len(ns) /\ Len(ns) \in Nat
  BY DEF NotesOK
<1>2. ms \in [1..Len(ns) -> Membership!Message]
  BY <1>1
<1>3. ms \in Seq(Membership!Message)
  BY <1>1, <1>2
<1> QED
  BY <1>1, <1>3 DEF NotesOK, NotesKept, Alike

LEMMA NotesAppended ==
  ASSUME NEW ms, NEW n, NotesOK(notes, groups), NotesOK(ms, groups), NotesKept(notes, ms),
         DOMAIN ms = DOMAIN notes, notes' = Append(ms, n),
         n \in Membership!Message, groups[n.group] # Membership!NoGroup, n.kind # "link" =>
                 n.addr \in Address
  PROVE  /\ NotesOK(notes', groups) /\ NotesKept(notes, notes')
         /\ \A i \in DOMAIN notes' : i \in DOMAIN notes \/ notes'[i].group = n.group
<1> DEFINE out == notes'
<1>1. /\ out \in Seq(Membership!Message)
      /\ Len(ms) \in Nat /\ DOMAIN ms = 1..Len(ms) /\ DOMAIN out = 1..(Len(ms) + 1)
      /\ \A i \in 1..Len(ms) : out[i] = ms[i]
      /\ out[Len(ms) + 1] = n
  BY DEF NotesOK
<1> HIDE DEF out
<1>2. \A i \in DOMAIN out : i \in DOMAIN ms \/ out[i] = n
  BY <1>1
<1>3. DOMAIN ms \subseteq DOMAIN out /\ \A i \in DOMAIN ms : out[i] = ms[i]
  BY <1>1
<1>4. out \in Seq(Membership!Message)
  BY <1>1
<1>5. /\ NotesOK(out, groups) /\ NotesKept(notes, out)
      /\ \A i \in DOMAIN out : i \in DOMAIN notes \/ out[i].group = n.group
  BY <1>2, <1>3, <1>4 DEF NotesOK, NotesKept
<1> QED
  BY <1>5 DEF out

LEMMA CloseIs ==
  ASSUME NEW is, NEW status \in {"pending", "expired", "revoked", "deleted", "accepted", "declined",
                                 "approved", "rejected"},
         NotesOK(notes, groups), Membership!Close(is, status)
  PROVE  NotesOK(notes', groups) /\ NotesKept(notes, notes') /\ DOMAIN notes' = DOMAIN notes
<1>1. notes' = [i \in DOMAIN notes |-> IF i \in is THEN [notes[i] EXCEPT !.status = status] ELSE notes[i]]
  BY DEF Membership!Close
<1>2. ASSUME NEW i \in DOMAIN notes
      PROVE  notes'[i] \in Membership!Message /\ Alike(notes[i], notes'[i])
  <2>1. notes[i] \in Membership!Message
    BY DEF NotesOK
  <2> QED
    BY <1>1, <2>1 DEF Membership!Message, Alike
<1>3. notes' = [i \in DOMAIN notes |-> notes'[i]]
  BY <1>1
<1> QED
  BY <1>2, <1>3, NotesRestated

\* Nothing happens to the groups, and no call goes on.
LEMMA RestedKeeps ==
  ASSUME RosterInv, UNCHANGED <<groups, members, task, addressCache, party, reads, cachedAt, blame>>,
         armed' \subseteq armed, idle' \subseteq Address,
         NotesOK(notes', groups), NotesKept(notes, notes'), DOMAIN notes' = DOMAIN notes
  PROVE  RosterInv'
<1>1. CallsOK'
  <2>1. ASSUME NEW u \in Membership!Task PROVE CallOK(task[u], groups, notes')
    <3>1. CallOK(task[u], groups, notes)
      BY DEF RosterInv, Shape, CallsOK
    <3> QED
      BY <3>1, CallMono DEF CallOK
  <2> QED
    BY <2>1 DEF RosterInv, Shape, CallsOK
<1>2. NewGroups'
  <2>1. \A g : Membership!MembersOf(g)' = Membership!MembersOf(g)
    BY DEF Membership!MembersOf
  <2>2. \A i \in DOMAIN notes : notes'[i].group = notes[i].group
    BY DEF NotesKept, Alike
  <2> QED
    BY <2>1, <2>2 DEF RosterInv, Shape, NewGroups
<1>3. Shape'
  BY <1>1, <1>2 DEF RosterInv, Shape, RestOK
<1>4. ASSUME NEW g \in Group PROVE GroupOK(g)'
  <2>1. GroupOK(g)
    BY DEF RosterInv
  <2>2. Tokens(g)' /\ Crown(g)'
    BY <2>1 DEF GroupOK, Tokens, Crown, Transferring, Crowning, Emptying, Founders, On,
                Creators, Membership!MembersOf, Outdated, Sound, Membership!Alive, Membership!Blamed
  <2>3. Counted(g)'
    BY <2>1
       DEF GroupOK, Counted, Counting, Emptying, Founders, On, Membership!MembersOf, Sound,
           Membership!Alive, Membership!Blamed
  <2>4. Capped(g)' /\ Gone(g)'
    BY <2>1
       DEF GroupOK, Capped, Gone, Membership!Inserting, Membership!Joining, Membership!At,
           Membership!MembersOf, Membership!Alive, Membership!Blamed
  <2> QED
    BY <2>2, <2>3, <2>4 DEF GroupOK
<1>5. Fresh'
  BY DEF RosterInv, Fresh, Steady, Stirring, Membership!View, Membership!Alive,
         Membership!Blamed
<1>6. ApartInv' /\ Membership!OneModeAtATime'
  BY DEF RosterInv, ApartInv, Membership!OneModeAtATime, Membership!Blamed
<1> QED
  BY <1>3, <1>4, <1>5, <1>6 DEF RosterInv

-------------------------------------------------------------------------------
(* How calls begin. *)

\* A call whose group nobody is founding begins at a step that is not marked.
LEMMA Begins ==
  ASSUME RosterInv, NEW t \in Membership!Task, Membership!Free(t), NEW r, Moves(t, r),
         UNCHANGED <<Membership!rows, addressCache, party, idle, Membership!ghost>>, armed' \subseteq armed,
         CallOK(r, groups, notes),
         r.g \notin Group \/ Founders(r.g) = {},
         r.at \in Notable => r.at \in {"found", "add", "demote", "promote"},
         r.at = "found" => r.a \notin party /\ \A u \in Membership!Task : task[u].g # r.g,
         r.at = "add" => Membership!Alive(r.g),
         r.at \in {"demote", "promote"} => r.row = groups[r.g],
         r.at = "promote" => Creators(r.g) = {}
  PROVE  RosterInv'
<1>1. task[t] = Membership!Idle
  BY DEF Membership!Free, RosterInv, Shape, CallsOK, CallOK
<1>2. task[t].at \notin Notable
  BY <1>1, FieldsAre DEF Notable, Marked, Dirty
<1>3. notes' = notes /\ UNCHANGED <<groups, members, addressCache, party, idle, reads, cachedAt, blame>>
  BY DEF Membership!rows, Membership!ghost
<1>4. NotesOK(notes', groups) /\ NotesKept(notes, notes')
  BY <1>3 DEF RosterInv, Shape, NotesKept, Alike
<1>5. CallOK(r, groups, notes')
  BY <1>3
<1>6. Passed(t, r)
  BY <1>2, <1>3, <1>4, <1>5 DEF Passed
<1> QED
  BY <1>6, PassedKeeps

\* The admin of a group has its token, so it was founded.
LEMMA AdminIs ==
  ASSUME RosterInv, NEW g \in Group, Membership!Admin(g)
  PROVE  Membership!Alive(g) /\ groups[g] # Membership!NoGroup /\ groups[g] \in Membership!Row /\
          Founders(g) = {}
<1>1. Membership!Alive(g) /\ groups[g] # Membership!NoGroup
  BY DEF Membership!Admin, Membership!Alive
<1>2. groups[g] \in Membership!Row
  BY <1>1 DEF RosterInv, Shape, GroupsOK
<1>3. ASSUME NEW u \in Founders(g) PROVE FALSE
  <2>1. u \in Membership!Task /\ task[u].g = g /\ task[u].at \in {"found", "enroll"}
    BY DEF Founders, On
  <2>2. task[u].op = "create"
    BY <2>1 DEF RosterInv, Shape, CallsOK, CallOK
  <2> QED
    BY <2>1, <2>2 DEF Membership!Admin
<1> QED
  BY <1>1, <1>2, <1>3

\* A note is about a group that was founded.
LEMMA NoteIs ==
  ASSUME RosterInv, NEW i \in DOMAIN notes
  PROVE  /\ notes[i] \in Membership!Message /\ notes[i].group \in Group /\
             groups[notes[i].group] # Membership!NoGroup
         /\ notes[i].kind # "link" => notes[i].addr \in Address
         /\ Founders(notes[i].group) = {} /\ i # 0
         /\ \A verdict \in {"accepted", "declined", "approved", "rejected"} :
                [notes[i] EXCEPT !.status = verdict] \in Membership!Message
<1>1. /\ notes[i] \in Membership!Message /\ groups[notes[i].group] # Membership!NoGroup
      /\ notes[i].kind # "link" => notes[i].addr \in Address
      /\ i \in 1..Len(notes) /\ Len(notes) \in Nat
  BY DEF RosterInv, Shape, NotesOK
<1>2. notes[i].group \in Group
  BY <1>1 DEF Membership!Message
<1>3. ASSUME NEW u \in Founders(notes[i].group) PROVE FALSE
  BY <1>2 DEF RosterInv, Shape, NewGroups, Founding, Founders, On
<1>4. \A verdict \in {"accepted", "declined", "approved", "rejected"} :
                [notes[i] EXCEPT !.status = verdict] \in Membership!Message
  BY <1>1 DEF Membership!Message
<1> QED
  BY <1>1, <1>2, <1>3, <1>4

LEMMA AddressIsNot ==
  ASSUME NEW a \in Address
  PROVE  a # None
  BY RowsAre

LEMMA CreateKeeps ==
  ASSUME RosterInv, NEW t \in Membership!Task, NEW a \in Address, Membership!Create(t, a)
  PROVE  RosterInv'
<1>1. PICK g \in Group :
        /\ groups[g] = Membership!NoGroup /\ \A u \in Membership!Task : task[u].g # g
        /\ task' = [task EXCEPT ![t] = [Membership!Idle EXCEPT !.op = "create", !.at = "found", !.g = g, !.a = a]]
  BY DEF Membership!Create
<1> DEFINE r == [Membership!Idle EXCEPT !.op = "create", !.at = "found", !.g = g, !.a = a]
<1>2. /\ DOMAIN r = Fields /\ r.op = "create" /\ r.at = "found" /\ r.g = g /\ r.a = a /\ r.i = 0
  BY DEF Fields, Membership!Idle
<1>3. Moves(t, r)
  BY <1>1 DEF Moves
<1> HIDE DEF r
<1>4. CallOK(r, groups, notes)
  BY <1>1, <1>2 DEF CallOK, InGroup, ForAddress, WithCopy
<1>5. Founders(g) = {}
  BY <1>1 DEF Founders, On
<1>6. a \notin party /\ Membership!Free(t) /\
        UNCHANGED <<Membership!rows, addressCache, party, idle, armed, Membership!ghost>>
  BY DEF Membership!Create, Membership!Unbound
<1> QED
  BY <1>1, <1>2, <1>3, <1>4, <1>5, <1>6, Begins

LEMMA InviteKeeps ==
  ASSUME RosterInv, NEW t \in Membership!Task, NEW g \in Group, NEW as \in SUBSET Address,
          Membership!Invite(t, g, as)
  PROVE  RosterInv'
<1> DEFINE r == [Membership!Idle EXCEPT !.op = "invite", !.at = "invite", !.g = g, !.rest = as, !.row = groups[g]]
<1>1. DOMAIN r = Fields /\ r.at = "invite" /\ r.g = g /\ r.i = 0 /\ r.rest = as
  BY DEF Fields, Membership!Idle
<1>2. Moves(t, r) /\ Membership!Free(t) /\ Membership!Admin(g) /\
        UNCHANGED <<Membership!rows, addressCache, party, idle, armed, Membership!ghost>>
  BY DEF Membership!Invite, Moves
<1> HIDE DEF r
<1>3. Founders(g) = {} /\ groups[g] # Membership!NoGroup
  BY <1>2, AdminIs
<1>4. CallOK(r, groups, notes)
  BY <1>1, <1>3 DEF CallOK, InGroup, ForAddress, WithCopy
<1> QED
  BY <1>1, <1>2, <1>3, <1>4, Begins DEF Notable, Marked, Dirty

LEMMA CreateOpenKeeps ==
  ASSUME RosterInv, NEW t \in Membership!Task, NEW g \in Group, NEW b \in BOOLEAN,
          Membership!CreateOpen(t, g, b)
  PROVE  RosterInv'
<1> DEFINE r == [Membership!Idle EXCEPT !.op = "open", !.at = "revoke", !.g = g, !.note = Membership!Note("link", g, None, b)]
<1>1. DOMAIN r = Fields /\ r.at = "revoke" /\ r.g = g /\ r.i = 0 /\
        r.note = Membership!Note("link", g, None, b)
  BY DEF Fields, Membership!Idle
<1>2. Moves(t, r) /\ Membership!Free(t) /\ Membership!Admin(g) /\
        UNCHANGED <<Membership!rows, addressCache, party, idle, armed, Membership!ghost>>
  BY DEF Membership!CreateOpen, Moves
<1> HIDE DEF r
<1>3. Founders(g) = {} /\ groups[g] # Membership!NoGroup
  BY <1>2, AdminIs
<1>4. r.note \in Membership!Message /\ r.note.kind = "link" /\ r.note.group = g
  BY <1>1 DEF Membership!Note, Membership!Message
<1>5. CallOK(r, groups, notes)
  BY <1>1, <1>3, <1>4 DEF CallOK, InGroup, ForAddress, WithCopy
<1> QED
  BY <1>1, <1>2, <1>3, <1>5, Begins DEF Notable, Marked, Dirty

LEMMA RequestKeeps ==
  ASSUME RosterInv, NEW t \in Membership!Task, NEW g \in Group, NEW a \in Address,
          Membership!Request(t, g, a)
  PROVE  RosterInv'
<1> DEFINE r == [Membership!Idle EXCEPT !.op = "request", !.at = "file", !.g = g, !.a = a]
<1>1. DOMAIN r = Fields /\ r.at = "file" /\ r.g = g /\ r.a = a /\ r.i = 0
  BY DEF Fields, Membership!Idle
<1>2. Moves(t, r) /\ Membership!Free(t) /\
        UNCHANGED <<Membership!rows, addressCache, party, idle, armed, Membership!ghost>>
  BY DEF Membership!Request, Moves
<1> HIDE DEF r
<1>3. groups[g] # Membership!NoGroup /\ groups[g].public
  BY DEF Membership!Request, Membership!Alive
<1>4. Founders(g) = {}
  <2>1. ASSUME NEW u \in Founders(g) PROVE FALSE
    <3>1. u \in Membership!Task /\ task[u].g = g /\ Founding(task[u], g)
      BY DEF Founders, On, Founding
    <3>2. task[u].at = "found" => groups[g] = Membership!NoGroup
      BY <3>1 DEF RosterInv, Shape, CallsOK, CallOK
    <3>3. task[u].at = "enroll" => groups[g] = Membership!NewGroup(task[u].a)
      BY <3>1 DEF RosterInv, Shape, NewGroups
    <3>4. groups[g] = Membership!NewGroup(task[u].a)
      BY <1>3, <3>1, <3>2, <3>3 DEF Founding
    <3> QED
      BY <1>3, <3>4 DEF Membership!NewGroup
  <2> QED
    BY <2>1
<1>5. CallOK(r, groups, notes)
  BY <1>1, <1>3 DEF CallOK, InGroup, ForAddress, WithCopy
<1> QED
  BY <1>1, <1>2, <1>4, <1>5, Begins DEF Notable, Marked, Dirty

LEMMA KickKeeps ==
  ASSUME RosterInv, NEW t \in Membership!Task, NEW g \in Group, NEW a \in Address, Membership!Kick(t, g, a)
  PROVE  RosterInv'
<1> DEFINE r == [Membership!Idle EXCEPT !.op = "kick", !.at = "remove", !.g = g, !.a = a]
<1>1. DOMAIN r = Fields /\ r.at = "remove" /\ r.g = g /\ r.a = a /\ r.i = 0
  BY DEF Fields, Membership!Idle
<1>2. Moves(t, r) /\ Membership!Free(t) /\ Membership!Admin(g) /\
        UNCHANGED <<Membership!rows, addressCache, party, idle, armed, Membership!ghost>>
  BY DEF Membership!Kick, Moves
<1> HIDE DEF r
<1>3. Founders(g) = {} /\ groups[g] # Membership!NoGroup
  BY <1>2, AdminIs
<1>4. CallOK(r, groups, notes)
  BY <1>1, <1>3 DEF CallOK, InGroup, ForAddress, WithCopy
<1> QED
  BY <1>1, <1>2, <1>3, <1>4, Begins DEF Notable, Marked, Dirty

LEMMA SettingsKeeps ==
  ASSUME RosterInv, NEW t \in Membership!Task, NEW g \in Group, NEW patch, Membership!Settings(t, g, patch)
  PROVE  RosterInv'
<1> DEFINE r == [Membership!Idle EXCEPT !.op = "settings", !.at = "patch", !.g = g, !.row = groups[g], !.rest = patch]
<1>1. DOMAIN r = Fields /\ r.at = "patch" /\ r.g = g /\ r.row = groups[g] /\ r.i = 0
  BY DEF Fields, Membership!Idle
<1>2. Moves(t, r) /\ Membership!Free(t) /\ Membership!Admin(g) /\
        UNCHANGED <<Membership!rows, addressCache, party, idle, armed, Membership!ghost>>
  BY DEF Membership!Settings, Moves
<1> HIDE DEF r
<1>3. Founders(g) = {} /\ groups[g] # Membership!NoGroup /\ groups[g] \in Membership!Row
  BY <1>2, AdminIs
<1>4. CallOK(r, groups, notes)
  BY <1>1, <1>3 DEF CallOK, InGroup, ForAddress, WithCopy
<1> QED
  BY <1>1, <1>2, <1>3, <1>4, Begins DEF Notable, Marked, Dirty

LEMMA DissolveKeeps ==
  ASSUME RosterInv, NEW t \in Membership!Task, NEW g \in Group, Membership!Dissolve(t, g)
  PROVE  RosterInv'
<1> DEFINE r == [Membership!Idle EXCEPT !.op = "dissolve", !.at = "empty", !.g = g]
<1>1. DOMAIN r = Fields /\ r.at = "empty" /\ r.g = g /\ r.op = "dissolve" /\ r.i = 0
  BY DEF Fields, Membership!Idle
<1>2. Moves(t, r) /\ Membership!Free(t) /\ Membership!Admin(g) /\
        UNCHANGED <<Membership!rows, addressCache, party, idle, Membership!ghost>>
      /\ armed' \subseteq armed
  BY DEF Membership!Dissolve, Moves
<1> HIDE DEF r
<1>3. Founders(g) = {} /\ groups[g] # Membership!NoGroup
  BY <1>2, AdminIs
<1>4. CallOK(r, groups, notes)
  BY <1>1, <1>3 DEF CallOK, InGroup, ForAddress, WithCopy
<1> QED
  BY <1>1, <1>2, <1>3, <1>4, Begins DEF Notable, Marked, Dirty

LEMMA TransferKeeps ==
  ASSUME RosterInv, NEW t \in Membership!Task, NEW g \in Group, NEW a \in Address,
          Membership!Transfer(t, g, a)
  PROVE  RosterInv'
<1>0. PICK b \in IF Creators(g) = {} THEN {None} ELSE Creators(g) :
            task' = [task EXCEPT ![t] =
                [Membership!Idle EXCEPT !.op = "transfer", !.at = IF b = None THEN "promote" ELSE "demote",
                             !.g = g, !.a = a, !.row = groups[g], !.new = members[a], !.from = b,
                             !.old = IF b = None THEN Membership!NoRow ELSE members[b]]]
  BY DEF Membership!Transfer, Creators
<1> DEFINE r == [Membership!Idle EXCEPT !.op = "transfer", !.at = IF b = None THEN "promote" ELSE "demote",
                             !.g = g, !.a = a, !.row = groups[g], !.new = members[a], !.from = b,
                             !.old = IF b = None THEN Membership!NoRow ELSE members[b]]
<1>1. /\ DOMAIN r = Fields /\ r.at = (IF b = None THEN "promote" ELSE "demote") /\ r.g = g
      /\ r.op = "transfer" /\ r.i = 0 /\ r.a = a /\ r.row = groups[g] /\ r.new = members[a]
      /\ r.from = b /\ r.old = IF b = None THEN Membership!NoRow ELSE members[b]
  BY DEF Fields, Membership!Idle
<1>2. Moves(t, r) /\ Membership!Free(t) /\ Membership!Admin(g) /\
        UNCHANGED <<Membership!rows, addressCache, party, idle, armed, Membership!ghost>>
      /\ members[a] = [group |-> g, role |-> "member"]
  BY <1>0 DEF Membership!Transfer, Moves
<1> HIDE DEF r
<1>3. Founders(g) = {} /\ groups[g] # Membership!NoGroup /\ groups[g] \in Membership!Row
  BY <1>2, AdminIs
<1>4. b # None => b \in Address /\ members[b] = [group |-> g, role |-> "creator"]
  <2> SUFFICES ASSUME b # None PROVE b \in Address /\ members[b] = [group |-> g, role |-> "creator"]
    OBVIOUS
  <2>1. b \in Creators(g)
    BY <1>0
  <2>2. b \in Address /\ members[b].group = g /\ members[b].role = "creator"
    BY <2>1 DEF Creators, Membership!MembersOf
  <2>3. members[b] \in Membership!Seat
    BY <2>2, RowsAre DEF RosterInv, Shape, MembersOK
  <2> QED
    BY <2>2, <2>3 DEF Membership!Seat
<1>5. b = None => Creators(g) = {}
  BY <1>0, RowsAre DEF Creators, Membership!MembersOf
<1>6. CallOK(r, groups, notes)
  BY <1>1, <1>2, <1>3, <1>4 DEF CallOK, InGroup, ForAddress, WithCopy
<1> QED
  BY <1>1, <1>2, <1>3, <1>5, <1>6, Begins DEF Notable, Marked, Dirty

LEMMA AcceptKeeps ==
  ASSUME RosterInv, NEW t \in Membership!Task, NEW i \in DOMAIN notes, Membership!Accept(t, i)
  PROVE  RosterInv'
<1>0. /\ notes[i] \in Membership!Message /\ notes[i].group \in Group /\
          groups[notes[i].group] # Membership!NoGroup
      /\ notes[i].kind # "link" => notes[i].addr \in Address
      /\ Founders(notes[i].group) = {} /\ i # 0
      /\ [notes[i] EXCEPT !.status = "accepted"] \in Membership!Message
  BY NoteIs
<1>1. CASE Membership!Close({i}, "expired") /\ UNCHANGED task
  <2>1. UNCHANGED <<groups, members, task, addressCache, party, idle, armed, reads, cachedAt, blame>>
    BY <1>1 DEF Membership!Accept, Membership!ghost
  <2> QED
    BY <1>1, <2>1, CloseIs, RestedKeeps DEF RosterInv, Shape, RestOK
<1>2. CASE ~notes[i].old /\ Membership!Free(t) /\ UNCHANGED notes
           /\ task' = [task EXCEPT ![t] =
                [Membership!Idle EXCEPT !.op = "accept", !.at = "look", !.g = notes[i].group,
                             !.a = notes[i].addr, !.i = i, !.note = notes[i], !.verdict = "accepted"]]
  <2> DEFINE r == [Membership!Idle EXCEPT !.op = "accept", !.at = "look", !.g = notes[i].group,
                             !.a = notes[i].addr, !.i = i, !.note = notes[i], !.verdict = "accepted"]
  <2>1. /\ DOMAIN r = Fields /\ r.at = "look" /\ r.g = notes[i].group /\ r.a = notes[i].addr
        /\ r.i = i /\ r.note = notes[i] /\ r.verdict = "accepted" /\ r.op = "accept"
    BY DEF Fields, Membership!Idle
  <2>2. Moves(t, r) /\ UNCHANGED <<Membership!rows, addressCache, party, idle, armed, Membership!ghost>>
    BY <1>2 DEF Membership!Accept, Moves, Membership!rows
  <2> HIDE DEF r
  <2>3. Hosted(r, notes) /\ r.a \in Address
    BY <1>0, <2>1 DEF Hosted, Membership!Accept
  <2>4. CallOK(r, groups, notes)
    BY <1>0, <2>1, <2>3 DEF CallOK, InGroup, ForAddress, WithCopy, Alike
  <2> QED
    BY <1>0, <1>2, <2>1, <2>2, <2>4, Begins DEF Notable, Marked, Dirty
<1> QED
  BY <1>1, <1>2 DEF Membership!Accept

LEMMA ClaimKeeps ==
  ASSUME RosterInv, NEW t \in Membership!Task, NEW i \in DOMAIN notes, NEW a \in Address,
          Membership!Claim(t, i, a)
  PROVE  RosterInv'
<1>0. /\ notes[i].group \in Group /\ groups[notes[i].group] # Membership!NoGroup /\
          Founders(notes[i].group) = {}
  BY NoteIs
<1> DEFINE r == [Membership!Idle EXCEPT !.op = "claim", !.at = "look", !.g = notes[i].group, !.a = a]
<1>1. DOMAIN r = Fields /\ r.at = "look" /\ r.g = notes[i].group /\ r.a = a /\ r.i = 0 /\ r.op = "claim"
  BY DEF Fields, Membership!Idle
<1>2. Moves(t, r) /\ Membership!Free(t) /\
        UNCHANGED <<Membership!rows, addressCache, party, idle, armed, Membership!ghost>>
  BY DEF Membership!Claim, Moves
<1> HIDE DEF r
<1>3. Hosted(r, notes)
  BY <1>1 DEF Hosted, Membership!Claim, Membership!Claimable
<1>4. CallOK(r, groups, notes)
  BY <1>0, <1>1, <1>3 DEF CallOK, InGroup, ForAddress, WithCopy
<1> QED
  BY <1>0, <1>1, <1>2, <1>4, Begins DEF Notable, Marked, Dirty

LEMMA AnswerBegins ==
  ASSUME RosterInv, NEW t \in Membership!Task, NEW i \in DOMAIN notes,
         NEW op, NEW verdict \in {"declined", "rejected"}, Membership!Free(t),
         task' = [task EXCEPT ![t] = [Membership!Idle EXCEPT !.op = op, !.at = "answer", !.i = i,
                                                  !.note = notes[i], !.verdict = verdict]],
         UNCHANGED <<Membership!rows, addressCache, party, idle, armed, Membership!ghost>>
  PROVE  RosterInv'
<1>0. notes[i] \in Membership!Message /\ i # 0 /\
        [notes[i] EXCEPT !.status = verdict] \in Membership!Message
  BY NoteIs
<1> DEFINE r == [Membership!Idle EXCEPT !.op = op, !.at = "answer", !.i = i, !.note = notes[i], !.verdict = verdict]
<1>1. DOMAIN r = Fields /\ r.at = "answer" /\ r.g = None /\ r.i = i /\ r.note = notes[i] /\
        r.verdict = verdict
  BY DEF Fields, Membership!Idle
<1>2. Moves(t, r)
  BY DEF Moves
<1> HIDE DEF r
<1>3. CallOK(r, groups, notes)
  BY <1>0, <1>1 DEF CallOK, InGroup, ForAddress, WithCopy, Alike
<1> QED
  BY <1>0, <1>1, <1>2, <1>3, RowsAre, Begins DEF Notable, Marked, Dirty

LEMMA ApproveKeeps ==
  ASSUME RosterInv, NEW t \in Membership!Task, NEW i \in DOMAIN notes, Membership!Approve(t, i)
  PROVE  RosterInv'
<1> DEFINE g == notes[i].group
           a == notes[i].addr
           verdict == IF members[a].group \in {g, None} THEN "approved" ELSE "rejected"
           at == IF members[a] = Membership!NoRow THEN "add" ELSE "answer"
           r == [Membership!Idle EXCEPT !.op = "approve", !.g = g, !.a = a, !.i = i, !.note = notes[i],
                             !.verdict = verdict, !.at = at]
<1>0. /\ notes[i] \in Membership!Message /\ g \in Group /\ groups[g] # Membership!NoGroup
      /\ notes[i].kind = "request" => a \in Address
      /\ Founders(g) = {} /\ i # 0
      /\ [notes[i] EXCEPT !.status = verdict] \in Membership!Message
  BY NoteIs
<1>1. /\ DOMAIN r = Fields /\ r.at = at /\ r.g = g /\ r.a = a
      /\ r.i = i /\ r.note = notes[i] /\ r.verdict = verdict /\ r.op = "approve"
  BY DEF Fields, Membership!Idle
<1>2. Moves(t, r) /\ Membership!Free(t) /\ Membership!Admin(g) /\
        UNCHANGED <<Membership!rows, addressCache, party, idle, armed, Membership!ghost>>
      /\ notes[i].kind = "request" /\ at \in {"add", "answer"}
  BY DEF Membership!Approve, Moves
<1> HIDE DEF r, at, verdict
<1>3. Hosted(r, notes)
  BY <1>1, <1>2 DEF Hosted
<1>4. CallOK(r, groups, notes)
  BY <1>0, <1>1, <1>2, <1>3 DEF CallOK, InGroup, ForAddress, WithCopy, Alike
<1>5. Membership!Alive(g)
  BY <1>2 DEF Membership!Admin
<1> QED
  BY <1>0, <1>1, <1>2, <1>4, <1>5, Begins DEF Notable, Marked, Dirty

LEMMA CallKeeps ==
  ASSUME RosterInv, NEW t \in Membership!Task, Membership!Call(t)
  PROVE  RosterInv'
<1>1. ASSUME NEW i \in DOMAIN notes, Membership!Decline(t, i) \/ Membership!Reject(t, i) PROVE RosterInv'
  BY <1>1, AnswerBegins DEF Membership!Decline, Membership!Reject
<1> QED
  BY <1>1, CreateKeeps, InviteKeeps, CreateOpenKeeps, RequestKeeps, KickKeeps, TransferKeeps,
     SettingsKeeps, DissolveKeeps, AcceptKeeps, ApproveKeeps, ClaimKeeps DEF Membership!Call

-------------------------------------------------------------------------------
(* How calls go on that concern invitations and requests, and the world. *)

LEMMA GoesOn ==
  ASSUME RosterInv, NEW t \in Membership!Task, NEW r, Moves(t, r),
         task[t].at \in {"invite", "mint", "answer", "revoke", "commit", "file", "look"},
         UNCHANGED <<groups, members, addressCache, party, idle, armed, Membership!ghost>>,
         NotesOK(notes', groups), NotesKept(notes, notes'),
         \A i \in DOMAIN notes' : i \in DOMAIN notes \/ notes'[i].group = task[t].g,
         r = Membership!Idle \/ /\ r.g = task[t].g /\ r.at \in {"invite", "mint", "answer", "commit", "add"}
                                /\ CallOK(r, groups, notes')
                                /\ r.at = "add" => Membership!Alive(r.g)
  PROVE  RosterInv'
<1>1. task[t].at \notin Notable
  BY DEF Notable, Marked, Dirty
<1>2. CallOK(r, groups, notes')
  BY IdleIsOK
<1>3. /\ r.g = task[t].g \/ r.g \notin Group
      /\ r.at \in Notable => r.at = "add"
      /\ r.at \notin {"found", "demote", "promote"}
      /\ r.at = "add" => Membership!Alive(r.g)
  BY FieldsAre, RowsAre DEF Notable, Marked, Dirty
<1>4. UNCHANGED <<groups, members, addressCache, party, idle, armed, reads, cachedAt, blame>>
  BY DEF Membership!ghost
<1>5. Passed(t, r)
  BY <1>1, <1>2, <1>3, <1>4 DEF Passed
<1> QED
  BY <1>5, PassedKeeps

LEMMA NotesSame ==
  ASSUME RosterInv, UNCHANGED notes, NEW g
  PROVE  /\ NotesOK(notes', groups) /\ NotesKept(notes, notes')
         /\ \A i \in DOMAIN notes' : i \in DOMAIN notes \/ notes'[i].group = g
  BY DEF RosterInv, Shape, NotesKept, Alike

LEMMA TaskIs ==
  ASSUME RosterInv, NEW t \in Membership!Task
  PROVE  CallOK(task[t], groups, notes) /\ CallsOK /\ Shape
  BY DEF RosterInv, Shape, CallsOK

LEMMA CheckKeeps ==
  ASSUME RosterInv, NEW t \in Membership!Task, Membership!Check(t)
  PROVE  RosterInv'
<1>1. /\ task[t].at = "invite"
      /\ UNCHANGED <<notes, groups, members, addressCache, party, idle, armed, Membership!ghost>>
  BY DEF Membership!Check, Membership!At, Membership!rows
<1>2. CASE Membership!Done(t)
  <2>1. Moves(t, Membership!Idle)
    BY <1>2 DEF Membership!Done, Moves
  <2> QED
    BY <1>1, <2>1, NotesSame, GoesOn
<1>3. CASE ~Membership!Done(t)
  <2> DEFINE a == CHOOSE b \in task[t].rest : TRUE
  <2>1. PICK at \in {"mint", "invite"} :
            task' = [task EXCEPT ![t].rest = @ \ {a}, ![t].a = a, ![t].at = at] /\ task[t].rest # {}
    BY <1>1, <1>3 DEF Membership!Check
  <2>2. a \in task[t].rest
    BY <2>1
  <2> HIDE DEF a
  <2>3. CallOK(task[t], groups, notes)
    BY TaskIs
  <2> DEFINE r == [task[t] EXCEPT !.rest = @ \ {a}, !.a = a, !.at = at]
  <2>4. Moves(t, r)
    BY <2>1 DEF Moves
  <2>5. /\ DOMAIN r = Fields /\ r.at = at /\ r.g = task[t].g /\ r.a = a /\ r.rest = task[t].rest \ {a}
        /\ r.i = task[t].i /\ r.note = task[t].note /\ r.verdict = task[t].verdict
    BY <2>3, FieldsAre DEF CallOK
  <2> HIDE DEF r
  <2>6. CallOK(r, groups, notes)
    BY <1>1, <2>2, <2>3, <2>5 DEF CallOK, InGroup, ForAddress, WithCopy
  <2>7. CallOK(r, groups, notes')
    BY <1>1, <2>6
  <2> QED
    BY <1>1, <2>4, <2>5, <2>7, NotesSame, GoesOn
<1> QED
  BY <1>2, <1>3

LEMMA MintKeeps ==
  ASSUME RosterInv, NEW t \in Membership!Task, Membership!Mint(t)
  PROVE  RosterInv'
<1> DEFINE g == task[t].g
           a == task[t].a
           lapsed(i) == i \in Membership!Directed(g, a) /\ notes[i].old
           ms == [i \in DOMAIN notes |-> IF lapsed(i) THEN [notes[i] EXCEPT !.status = "expired"]
                                         ELSE notes[i]]
           n == Membership!Note("directed", g, a, FALSE)
           r == [task[t] EXCEPT !.at = "invite"]
<1>1. /\ task[t].at = "mint" /\
          UNCHANGED <<groups, members, addressCache, party, idle, armed, Membership!ghost>>
      /\ notes' = Append(ms, n) /\ Moves(t, r)
  BY DEF Membership!Mint, Membership!At, Membership!Goto, Moves
<1>2. CallOK(task[t], groups, notes) /\ NotesOK(notes, groups)
  BY TaskIs DEF Shape
<1>3. g \in Group /\ a \in Address /\ groups[g] # Membership!NoGroup
  BY <1>1, <1>2 DEF CallOK, InGroup, ForAddress
<1>4. /\ DOMAIN r = Fields /\ r.at = "invite" /\ r.g = g /\ r.rest = task[t].rest
      /\ r.i = task[t].i /\ r.note = task[t].note /\ r.verdict = task[t].verdict
  BY <1>2, FieldsAre DEF CallOK
<1>5. NotesOK(ms, groups) /\ NotesKept(notes, ms) /\ DOMAIN ms = DOMAIN notes
  <2>1. ASSUME NEW i \in DOMAIN notes
        PROVE  ms[i] \in Membership!Message /\ Alike(notes[i], ms[i])
    <3>1. notes[i] \in Membership!Message
      BY <1>2 DEF NotesOK
    <3> QED
      BY <3>1 DEF Membership!Message, Alike
  <2>2. ms = [i \in DOMAIN notes |-> ms[i]]
    OBVIOUS
  <2> HIDE DEF ms
  <2> QED
    BY <1>2, <2>1, <2>2, NotesRestated
<1>6. n \in Membership!Message /\ n.group = g /\ n.addr = a
  BY <1>3 DEF Membership!Note, Membership!Message
<1> HIDE DEF ms, n
<1>7. /\ NotesOK(notes', groups) /\ NotesKept(notes, notes')
      /\ \A i \in DOMAIN notes' : i \in DOMAIN notes \/ notes'[i].group = g
  <2>1. groups[n.group] # Membership!NoGroup /\ n.addr \in Address
    BY <1>3, <1>6
  <2>2. notes' = Append(ms, n)
    BY <1>1
  <2>3. /\ NotesOK(notes', groups) /\ NotesKept(notes, notes')
        /\ \A i \in DOMAIN notes' : i \in DOMAIN notes \/ notes'[i].group = n.group
    BY <1>2, <1>5, <1>6, <2>1, <2>2, NotesAppended
  <2> QED
    BY <1>6, <2>3
<1> HIDE DEF r
<1>8. CallOK(r, groups, notes)
  BY <1>1, <1>2, <1>4 DEF CallOK, InGroup, ForAddress, WithCopy
<1>9. CallOK(r, groups, notes')
  BY <1>4, <1>7, <1>8, CallMono
<1> QED
  BY <1>1, <1>4, <1>7, <1>9, GoesOn

LEMMA AnswerKeeps ==
  ASSUME RosterInv, NEW t \in Membership!Task, Membership!Answer(t)
  PROVE  RosterInv'
<1> DEFINE i == task[t].i
           n == [task[t].note EXCEPT !.status = task[t].verdict, !.old = notes[i].old]
<1>1. /\ task[t].at = "answer" /\
          UNCHANGED <<groups, members, addressCache, party, idle, armed, Membership!ghost>>
      /\ notes' = [notes EXCEPT ![i] = n] /\ Moves(t, Membership!Idle)
  BY DEF Membership!Answer, Membership!At, Membership!Done, Moves
<1>2. CallOK(task[t], groups, notes) /\ NotesOK(notes, groups)
  BY TaskIs DEF Shape
<1>3. /\ i \in DOMAIN notes /\ task[t].note \in Membership!Message /\ Alike(task[t].note, notes[i])
      /\ [task[t].note EXCEPT !.status = task[t].verdict] \in Membership!Message
  BY <1>1, <1>2 DEF CallOK
<1>4. n \in Membership!Message /\ Alike(notes[i], n)
  <2>1. notes[i] \in Membership!Message
    BY <1>2, <1>3 DEF NotesOK
  <2>2. n = [[task[t].note EXCEPT !.status = task[t].verdict] EXCEPT !.old = notes[i].old]
    BY <1>3 DEF Membership!Message
  <2> QED
    BY <1>3, <2>1, <2>2 DEF Membership!Message, Alike
<1> HIDE DEF n, i
<1>5. notes' = [j \in DOMAIN notes |-> notes'[j]]
  BY <1>1, <1>2 DEF NotesOK
<1>6. ASSUME NEW j \in DOMAIN notes
      PROVE  notes'[j] \in Membership!Message /\ Alike(notes[j], notes'[j])
  BY <1>1, <1>2, <1>3, <1>4 DEF NotesOK, Alike
<1>7. NotesOK(notes', groups) /\ NotesKept(notes, notes') /\ DOMAIN notes' = DOMAIN notes
  BY <1>2, <1>5, <1>6, NotesRestated
<1> QED
  BY <1>1, <1>7, GoesOn

LEMMA RevokeOldKeeps ==
  ASSUME RosterInv, NEW t \in Membership!Task, Membership!RevokeOld(t)
  PROVE  RosterInv'
<1> DEFINE r == [task[t] EXCEPT !.rest = Membership!Links(task[t].g), !.at = "commit"]
<1>1. /\ task[t].at = "revoke" /\
          UNCHANGED <<notes, groups, members, addressCache, party, idle, armed, Membership!ghost>>
      /\ Moves(t, r)
  BY DEF Membership!RevokeOld, Membership!At, Moves, Membership!rows
<1>2. CallOK(task[t], groups, notes)
  BY TaskIs
<1>3. /\ DOMAIN r = Fields /\ r.at = "commit" /\ r.g = task[t].g
      /\ r.i = task[t].i /\ r.note = task[t].note /\ r.verdict = task[t].verdict
  BY <1>2, FieldsAre DEF CallOK
<1> HIDE DEF r
<1>4. CallOK(r, groups, notes)
  BY <1>1, <1>2, <1>3 DEF CallOK, InGroup, ForAddress, WithCopy
<1>5. CallOK(r, groups, notes')
  BY <1>1, <1>4
<1> QED
  BY <1>1, <1>3, <1>5, NotesSame, GoesOn

LEMMA CommitKeeps ==
  ASSUME RosterInv, NEW t \in Membership!Task, Membership!Commit(t)
  PROVE  RosterInv'
<1> DEFINE lapsing(i) == i \in task[t].rest /\ Membership!Open(i)
           ms == [i \in DOMAIN notes |-> IF lapsing(i) THEN [notes[i] EXCEPT !.status = "revoked"]
                                         ELSE notes[i]]
           n == task[t].note
<1>1. /\ task[t].at = "commit" /\
          UNCHANGED <<groups, members, addressCache, party, idle, armed, Membership!ghost>>
      /\ notes' = Append(ms, n) /\ Moves(t, Membership!Idle)
  BY DEF Membership!Commit, Membership!At, Membership!Done, Moves
<1>2. CallOK(task[t], groups, notes) /\ NotesOK(notes, groups)
  BY TaskIs DEF Shape
<1>3. /\ n \in Membership!Message /\ n.kind = "link" /\ n.group = task[t].g /\
          groups[task[t].g] # Membership!NoGroup
  BY <1>1, <1>2 DEF CallOK, InGroup
<1>5. NotesOK(ms, groups) /\ NotesKept(notes, ms) /\ DOMAIN ms = DOMAIN notes
  <2>1. ASSUME NEW i \in DOMAIN notes
        PROVE  ms[i] \in Membership!Message /\ Alike(notes[i], ms[i])
    <3>1. notes[i] \in Membership!Message
      BY <1>2 DEF NotesOK
    <3> QED
      BY <3>1 DEF Membership!Message, Alike
  <2>2. ms = [i \in DOMAIN notes |-> ms[i]]
    OBVIOUS
  <2> HIDE DEF ms
  <2> QED
    BY <1>2, <2>1, <2>2, NotesRestated
<1> HIDE DEF ms, n
<1>7. /\ NotesOK(notes', groups) /\ NotesKept(notes, notes')
      /\ \A i \in DOMAIN notes' : i \in DOMAIN notes \/ notes'[i].group = task[t].g
  <2>1. n \in Membership!Message /\ groups[n.group] # Membership!NoGroup /\
          (n.kind # "link" => n.addr \in Address)
    BY <1>3
  <2>2. notes' = Append(ms, n)
    BY <1>1
  <2>3. /\ NotesOK(notes', groups) /\ NotesKept(notes, notes')
        /\ \A i \in DOMAIN notes' : i \in DOMAIN notes \/ notes'[i].group = n.group
    BY <1>2, <1>5, <2>1, <2>2, NotesAppended
  <2> QED
    BY <1>3, <2>3
<1> QED
  BY <1>1, <1>7, GoesOn

LEMMA FileKeeps ==
  ASSUME RosterInv, NEW t \in Membership!Task, Membership!File(t)
  PROVE  RosterInv'
<1> DEFINE g == task[t].g
           a == task[t].a
           n == Membership!Note("request", g, a, FALSE)
<1>1. /\ task[t].at = "file" /\
          UNCHANGED <<groups, members, addressCache, party, idle, armed, Membership!ghost>>
      /\ notes' = notes \/ notes' = Append(notes, n)
      /\ Moves(t, Membership!Idle)
  BY DEF Membership!File, Membership!At, Membership!Done, Moves
<1>2. CallOK(task[t], groups, notes) /\ NotesOK(notes, groups)
  BY TaskIs DEF Shape
<1>3. g \in Group /\ a \in Address /\ groups[g] # Membership!NoGroup
  BY <1>1, <1>2 DEF CallOK, InGroup, ForAddress
<1>4. n \in Membership!Message /\ n.group = g /\ n.addr = a
  BY <1>3 DEF Membership!Note, Membership!Message
<1> HIDE DEF n
<1>5. NotesKept(notes, notes)
  BY DEF NotesKept, Alike
<1>6. /\ NotesOK(notes', groups) /\ NotesKept(notes, notes')
      /\ \A i \in DOMAIN notes' : i \in DOMAIN notes \/ notes'[i].group = g
  <2>1. CASE notes' = notes
    BY <2>1, NotesSame
  <2>2. CASE notes' = Append(notes, n)
    <3>1. groups[n.group] # Membership!NoGroup /\ n.addr \in Address
      BY <1>3, <1>4
    <3>2. /\ NotesOK(notes', groups) /\ NotesKept(notes, notes')
          /\ \A i \in DOMAIN notes' : i \in DOMAIN notes \/ notes'[i].group = n.group
      BY <1>2, <1>4, <1>5, <2>2, <3>1, NotesAppended
    <3> QED
      BY <1>4, <3>2
  <2> QED
    BY <1>1, <2>1, <2>2
<1> QED
  BY <1>1, <1>6, GoesOn

LEMMA LookKeeps ==
  ASSUME RosterInv, NEW t \in Membership!Task, Membership!Look(t)
  PROVE  RosterInv'
<1>1. /\ task[t].at = "look"
      /\ UNCHANGED <<notes, groups, members, addressCache, party, idle, armed, Membership!ghost>>
  BY DEF Membership!Look, Membership!At, Membership!rows
<1>2. CASE Membership!Done(t)
  <2>1. Moves(t, Membership!Idle)
    BY <1>2 DEF Membership!Done, Moves
  <2> QED
    BY <1>1, <2>1, NotesSame, GoesOn
<1>3. ASSUME NEW at \in {"add", "answer"}, Membership!Goto(t, at), at = "answer" => task[t].op = "accept",
             Membership!Alive(task[t].g)
      PROVE  RosterInv'
  <2>3. CallOK(task[t], groups, notes)
    BY TaskIs
  <2> DEFINE r == [task[t] EXCEPT !.at = at]
  <2>4. Moves(t, r)
    BY <1>3 DEF Moves, Membership!Goto
  <2>5. /\ DOMAIN r = Fields /\ r.at = at /\ r.g = task[t].g /\ r.a = task[t].a /\ r.op = task[t].op
        /\ r.i = task[t].i /\ r.note = task[t].note /\ r.verdict = task[t].verdict
    BY <2>3, FieldsAre DEF CallOK
  <2> HIDE DEF r
  <2>6. Hosted(r, notes)
    BY <1>1, <2>3, <2>5 DEF Hosted, CallOK
  <2>7. at = "answer" => r.i # 0
    <3>1. task[t].op = "accept" => task[t].i \in DOMAIN notes
      BY <1>1, <2>3 DEF CallOK, Hosted
    <3>2. \A i \in DOMAIN notes : i # 0
      BY NoteIs
    <3> QED
      BY <1>3, <2>5, <3>1, <3>2
  <2>8. CallOK(r, groups, notes)
    BY <1>1, <1>3, <2>3, <2>5, <2>6, <2>7 DEF CallOK, InGroup, ForAddress, WithCopy
  <2>9. CallOK(r, groups, notes')
    BY <1>1, <2>8
  <2> QED
    BY <1>1, <1>3, <2>4, <2>5, <2>9, NotesSame, GoesOn
<1>4. (Membership!Goto(t, "add") /\ Membership!Alive(task[t].g)) \/
        (Membership!Goto(t, "answer") /\ task[t].op = "accept" /\ Membership!Alive(task[t].g))
      \/ Membership!Done(t)
  BY DEF Membership!Look, Membership!StillThere
<1> QED
  BY <1>2, <1>3, <1>4

LEMMA WorldKeeps ==
  ASSUME RosterInv, Membership!World, ~ \E a \in Address : Membership!PartyJoins(a)
  PROVE  RosterInv'
<1>0. NotesOK(notes, groups) /\ RestOK
  BY DEF RosterInv, Shape
<1>1. ASSUME NEW is, NEW status \in {"pending", "expired", "revoked", "deleted", "accepted",
                                      "declined", "approved", "rejected"},
             Membership!Close(is, status),
             UNCHANGED <<groups, members, addressCache, party, idle, armed, task, Membership!ghost>>
      PROVE  RosterInv'
  BY <1>0, <1>1, CloseIs, RestedKeeps DEF RestOK, Membership!ghost
<1>2. ASSUME NEW g \in Group, Membership!RevokeOpen(g) PROVE RosterInv'
  BY <1>1, <1>2 DEF Membership!RevokeOpen
<1>3. ASSUME NEW g \in Group, NEW a \in Address, Membership!Cancel(g, a) PROVE RosterInv'
  BY <1>1, <1>3 DEF Membership!Cancel
<1>4. ASSUME NEW i \in DOMAIN notes, Membership!ClaimLapsed(i) PROVE RosterInv'
  BY <1>1, <1>4 DEF Membership!ClaimLapsed
<1>5. ASSUME Membership!ExpireOld PROVE RosterInv'
  BY <1>1, <1>5 DEF Membership!ExpireOld
<1>6. ASSUME NEW i \in DOMAIN notes, Membership!Age(i) PROVE RosterInv'
  <2>1. notes' = [notes EXCEPT ![i].old = TRUE]
        /\ UNCHANGED <<groups, members, addressCache, party, idle, armed, task, Membership!ghost>>
    BY <1>6 DEF Membership!Age
  <2>2. notes' = [j \in DOMAIN notes |-> notes'[j]]
    BY <2>1
  <2>3. ASSUME NEW j \in DOMAIN notes
        PROVE  notes'[j] \in Membership!Message /\ Alike(notes[j], notes'[j])
    <3>1. notes[j] \in Membership!Message
      BY <1>0 DEF NotesOK
    <3> QED
      BY <2>1, <3>1 DEF Membership!Message, Alike
  <2>4. NotesOK(notes', groups) /\ NotesKept(notes, notes') /\ DOMAIN notes' = DOMAIN notes
    BY <1>0, <2>2, <2>3, NotesRestated
  <2> QED
    BY <1>0, <2>1, <2>4, RestedKeeps DEF RestOK, Membership!ghost
<1>7. NotesKept(notes, notes)
  BY DEF NotesKept, Alike
<1>8. ASSUME NEW g \in Group, Membership!FireIfDue(g) PROVE RosterInv'
  BY <1>0, <1>7, <1>8, RestedKeeps
     DEF Membership!FireIfDue, Membership!rows, Membership!ghost, RestOK
<1>9. ASSUME NEW a \in Address, Membership!FallIdle(a) PROVE RosterInv'
  BY <1>0, <1>7, <1>9, RestedKeeps
     DEF Membership!FallIdle, Membership!rows, Membership!ghost, RestOK
<1> QED
  BY <1>2, <1>3, <1>4, <1>5, <1>6, <1>8, <1>9 DEF Membership!World

-------------------------------------------------------------------------------
(* Calls that go on with a group and leave the rows alone. *)

BlameGrows == blame \ {<<"missed", None>>} \subseteq blame'

LEMMA BlameGrowing ==
  ASSUME BlameGrows, NEW g
  PROVE  BlameStays(g)
  BY DEF BlameGrows, BlameStays, Causes

LEMMA ApartStep ==
  ASSUME RosterInv, NEW t \in Membership!Task, NEW r, Moves(t, r), UNCHANGED party, BlameGrows,
         r.at \in {"found", "enroll", "insert"} =>
            r.a \notin party \/ (r.a = task[t].a /\ task[t].at \in {"found", "enroll", "insert"})
  PROVE  ApartInv'
<1>1. DOMAIN task' = Membership!Task /\ task'[t] = r /\ \A u \in Membership!Task : u # t =>
        task'[u] = task[u]
  BY MovesIs DEF RosterInv, Shape
<1>2. ASSUME NEW u \in Membership!Task, task'[u].at \in {"found", "enroll", "insert"}, task'[u].a \in party'
      PROVE  <<"crossed", task'[u].a>> \in blame'
  <2>1. PICK w \in Membership!Task : task[w].at \in {"found", "enroll", "insert"} /\ task[w].a = task'[u].a
    BY <1>1, <1>2
  <2>2. <<"crossed", task'[u].a>> \in blame
    BY <1>2, <2>1 DEF RosterInv, ApartInv
  <2> QED
    BY <2>2 DEF BlameGrows
<1> QED
  BY <1>2 DEF ApartInv

\* The other groups, and the rest of the invariant, in a step of one call.
LEMMA ShapeStep ==
  ASSUME RosterInv, NEW t \in Membership!Task, NEW r, Moves(t, r),
         r.g = task[t].g \/ r = Membership!Idle, CallOK(r, groups', notes'), UNCHANGED notes,
         GroupsOK(groups'), MembersOK(members', groups'), RestOK',
         \A g \in Group \ {task[t].g} : groups'[g] = groups[g] /\
                 Membership!MembersOf(g)' = Membership!MembersOf(g),
         task[t].g \in Group /\ groups[task[t].g] # Membership!NoGroup =>
                 groups'[task[t].g] # Membership!NoGroup,
         r.at # "found",
         r.at = "enroll" =>
            /\ task[t].at = "found" /\ groups'[r.g] = Membership!NewGroup(r.a) /\
                    Membership!MembersOf(task[t].g)' = {}
  PROVE  Shape'
<1>1. DOMAIN task' = Membership!Task /\ task'[t] = r /\ \A u \in Membership!Task : u # t =>
        task'[u] = task[u]
  BY MovesIs DEF RosterInv, Shape
<1>2. \A u \in Membership!Task, g \in Group : u # t /\ Founding(task[u], g) => task[t].g # g
  BY DEF RosterInv, Shape, NewGroups
<1>3. \A u \in Membership!Task : u # t /\ task[u].at = "found" => groups'[task[u].g] = Membership!NoGroup
  <2> SUFFICES ASSUME NEW u \in Membership!Task, u # t, task[u].at = "found" PROVE groups'[task[u].g] = Membership!NoGroup
    OBVIOUS
  <2>1. task[u].g \in Group /\ groups[task[u].g] = Membership!NoGroup
    BY TaskIs DEF CallOK
  <2>2. task[u].g # task[t].g
    BY <1>2, <2>1 DEF Founding
  <2> QED
    BY <2>1, <2>2
<1>4. \A g \in Group : groups[g] # Membership!NoGroup => groups'[g] # Membership!NoGroup
  OBVIOUS
<1>5. NotesKept(notes, notes')
  BY DEF NotesKept, Alike
<1>6. CallsOK'
  BY <1>3, <1>4, <1>5, CallsStep DEF RosterInv, Shape
<1>7. NotesOK(notes', groups')
  <2>1. \A i \in DOMAIN notes : notes[i].group \in Group
    BY NoteIs
  <2> QED
    BY <1>4, <2>1 DEF RosterInv, Shape, NotesOK
<1>8. NewGroups'
  <2>1. \A i \in DOMAIN notes' : (i \in DOMAIN notes /\ notes'[i].group = notes[i].group)
                                  \/ notes'[i].group = task[t].g
    OBVIOUS
  <2>2. r.g = task[t].g \/ r.g \notin Group
    BY FieldsAre, RowsAre
  <2>3. \A u \in Membership!Task, g \in Group : u # t /\ Founding(task[u], g) =>
             groups'[g] = groups[g] /\ Membership!MembersOf(g)' \subseteq Membership!MembersOf(g)
    BY <1>2
  <2>4. ASSUME NEW g \in Group, Founding(r, g)
        PROVE  /\ \A u \in Membership!Task : u # t => task[u].g # g
               /\ \A i \in DOMAIN notes' : notes'[i].group # g
               /\ Membership!MembersOf(g)' = {}
               /\ r.at = "enroll" => groups'[g] = Membership!NewGroup(r.a)
    <3>1. r.at = "enroll" /\ r.g = g /\ task[t].at = "found" /\ task[t].g = g
      BY <2>4, FieldsAre DEF Founding
    <3>2. Founding(task[t], g)
      BY <3>1 DEF Founding
    <3>3. (\A u \in Membership!Task : u # t => task[u].g # g) /\
            (\A i \in DOMAIN notes : notes[i].group # g)
      BY <3>2 DEF RosterInv, Shape, NewGroups
    <3>4. Membership!MembersOf(g)' = {}
      <4>1. Membership!MembersOf(task[t].g)' = {a \in Address : members'[a].group = task'[t].g}
        BY DEF Membership!MembersOf
      <4>2. task'[t].g = g
        BY <1>1, <3>1
      <4> QED
        BY <3>1, <4>1, <4>2 DEF Membership!MembersOf
    <3> QED
      BY <3>1, <3>3, <3>4
  <2> QED
    BY <2>1, <2>2, <2>3, <2>4, NewGroupsStep DEF RosterInv
<1> QED
  BY <1>6, <1>7, <1>8 DEF Shape

LEMMA GroupsStep ==
  ASSUME RosterInv, NEW t \in Membership!Task, NEW r, Moves(t, r), r.g = task[t].g \/
          r = Membership!Idle, BlameGrows,
         \A h \in Group \ {task[t].g} : groups'[h] = groups[h] /\ SeatsKept(h),
         \A h \in Group : task[t].g = h => GroupOK(h)',
         NEW g \in Group
  PROVE  GroupOK(g)'
<1>1. CASE task[t].g = g
  BY <1>1
<1>2. CASE task[t].g # g
  <2>1. r.g # g
    BY <1>2, FieldsAre, RowsAre
  <2>2. Shape /\ GroupOK(g) /\ BlameStays(g)
    BY BlameGrowing DEF RosterInv
  <2> QED
    BY <1>2, <2>1, <2>2, GroupFrame
<1> QED
  BY <1>1, <1>2

LEMMA StillSeats ==
  ASSUME UNCHANGED members
  PROVE  \A g : SeatsKept(g) /\ Membership!MembersOf(g)' = Membership!MembersOf(g) /\
          Creators(g)' = Creators(g)
  BY DEF SeatsKept, Membership!MembersOf, Creators

\* A call goes on with its group, or leaves it as it should.
LEMMA OwnStill ==
  ASSUME RosterInv, NEW t \in Membership!Task, NEW r, Moves(t, r), NEW g \in Group, task[t].g = g,
         r.g = g \/ r = Membership!Idle, UNCHANGED <<groups, members>>, BlameGrows,
         r.at \notin {"found", "enroll", "demote", "promote", "hand"},
         task[t].at \in {"found", "enroll"} => groups[g] = Membership!NoGroup \/ <<"orphan", g>> \in blame',
         task[t].at \in {"promote", "hand"} => <<"torn", g>> \in blame',
         task[t].at \in {"last", "bury"} => r.at \in {"last", "bury"} \/ <<"torn", g>> \in blame',
         task[t].at \in {"count", "load", "store"} =>
            \/ r.at \in {"count", "load", "store"} \/ <<"miscount", g>> \in blame'
            \/ groups[g].dissolved \/
                    groups[g].active = Membership!ShouldBeActive(Cardinality(Membership!MembersOf(g))),
         r.at \in {"add", "insert"} => task[t].at \in {"add", "insert"},
         r.at = "insert" => ~Membership!Full(g)
  PROVE  GroupOK(g)'
<1>0. /\ CallsOK /\ GroupsOK(groups) /\ Tokens(g) /\ Crown(g) /\ Counted(g) /\ Capped(g) /\ Gone(g)
      /\ BlameStays(g)
  BY BlameGrowing DEF RosterInv, Shape, GroupOK
<1>1. Membership!MembersOf(g)' = Membership!MembersOf(g) /\ Creators(g)' = Creators(g)
  BY StillSeats
<1>2. DOMAIN task' = Membership!Task /\ task'[t] = r /\ \A u \in Membership!Task : u # t =>
        task'[u] = task[u]
  BY <1>0, MovesIs
<1>3. Membership!Alive(g)' = Membership!Alive(g) /\ groups'[g] = groups[g]
  BY DEF Membership!Alive
<1>4. Sound(g)' => (Emptying(g) # {} => Emptying(g)' # {}) /\ (Founders(g) # {} => Founders(g)' # {})
  <2> SUFFICES ASSUME Sound(g)'
               PROVE  (Emptying(g) # {} => Emptying(g)' # {}) /\ (Founders(g) # {} => Founders(g)' # {})
    OBVIOUS
  <2>1. <<"torn", g>> \notin blame' /\ <<"orphan", g>> \notin blame' /\ groups[g] # Membership!NoGroup
    BY <1>3 DEF Sound, Membership!Blamed, Membership!Alive
  <2>2. task[t].at \notin {"found", "enroll"}
    BY <2>1
  <2>3. task[t].at \in {"last", "bury"} => r.g = g /\ r.at \in {"last", "bury"}
    BY <2>1, FieldsAre
  <2>4. Founders(g) \subseteq Founders(g)'
    BY <1>2, <2>2 DEF Founders, On
  <2>5. Emptying(g) \subseteq Emptying(g)'
    BY <1>2, <2>3 DEF Emptying, On
  <2> QED
    BY <2>4, <2>5
<1>5. Tokens(g)'
  <2>1. Transferring(g)' \subseteq Transferring(g) /\ \A u \in Transferring(g)' : task'[u].row = task[u].row
    BY <1>2 DEF Transferring, On
  <2>2. \A u \in Transferring(g) : task[u].row \in Membership!Row
    BY <1>0 DEF Transferring, On, CallsOK, CallOK, WithCopy
  <2>3. groups'[g] # Membership!NoGroup => groups'[g] \in Membership!Row /\
          groups[g].token <= groups'[g].token
    BY <1>0, <1>3 DEF GroupsOK, Membership!Row
  <2> QED
    BY <1>0, <1>3, <2>1, <2>2, <2>3, TokensFrame
<1>6. Crown(g)'
  <2>1. ASSUME Sound(g)'
        PROVE  Crowning(g)' = Crowning(g) /\ \A u \in Crowning(g) : task'[u] = task[u]
    <3>1. task[t].at \notin {"promote", "hand"}
      BY <2>1 DEF Sound, Membership!Blamed
    <3> QED
      BY <1>2, <3>1 DEF Crowning, On
  <2>2. Sound(g)' => Membership!Alive(g)
    BY <1>3 DEF Sound
  <2> QED
    BY <1>0, <1>1, <1>3, <1>4, <2>1, <2>2, CrownFrame
<1>7. Counted(g)'
  <2>1. CASE groups[g].active = Membership!ShouldBeActive(Cardinality(Membership!MembersOf(g)))
    BY <1>1, <1>3, <2>1 DEF Counted, Membership!ShouldBeActive
  <2>2. CASE groups[g].active # Membership!ShouldBeActive(Cardinality(Membership!MembersOf(g)))
    <3>1. ASSUME Sound(g)', ~Membership!Blamed({"miscount"}, g)', Counting(g) # {}
          PROVE  Counting(g)' # {}
      <4>1. <<"miscount", g>> \notin blame' /\ ~groups[g].dissolved
        BY <1>3, <3>1 DEF Sound, Membership!Blamed, Membership!Alive
      <4>2. task[t].at \in {"count", "load", "store"} => r.g = g /\ r.at \in {"count", "load", "store"}
        BY <2>2, <4>1, FieldsAre
      <4>3. Counting(g) \subseteq Counting(g)'
        BY <1>2, <4>2 DEF Counting, On
      <4> QED
        BY <3>1, <4>3
    <3>2. Sound(g)' => Membership!Alive(g)
      BY <1>3 DEF Sound
    <3> QED
      BY <1>0, <1>1, <1>3, <1>4, <3>1, <3>2, CountedFrame
  <2> QED
    BY <2>1, <2>2
<1>8. Capped(g)'
  <2>1. CASE r.at = "insert"
    <3>1. groups[g].cap > 0 => Cardinality(Membership!MembersOf(g)) < groups[g].cap \/
            groups[g] = Membership!NoGroup
      <4>1. Cardinality(Membership!MembersOf(g)) \in Nat
        BY RosterFinite
      <4>2. groups[g] # Membership!NoGroup => groups[g].cap \in Nat
        BY <1>0, RosterAssumption DEF GroupsOK, Membership!Row, Membership!MembershipAssumption
      <4> QED
        BY CopiesAgree, <2>1, <4>1, <4>2 DEF Membership!Full
    <3>2. Cardinality(Membership!MembersOf(g)) \in Nat /\
            (groups[g] # Membership!NoGroup => groups[g].cap \in Nat)
      BY <1>0, RosterAssumption, RosterFinite
         DEF GroupsOK, Membership!Row, Membership!MembershipAssumption
    <3>3. ASSUME Membership!Alive(g)', groups'[g].cap > 0
          PROVE  Cardinality(Membership!MembersOf(g)') <= groups'[g].cap /\
                  Cardinality(Membership!MembersOf(g)') < groups'[g].cap
      BY <1>1, <1>3, <3>1, <3>2, <3>3 DEF Membership!Alive
    <3> QED
      BY <3>3 DEF Capped
  <2>2. CASE r.at # "insert"
    <3>1. Membership!Inserting(g)' \subseteq Membership!Inserting(g)
      BY <1>2, <2>2 DEF Membership!Inserting, Membership!At
    <3> QED
      BY <1>0, <1>1, <1>3, <3>1, CappedFrame
  <2> QED
    BY <2>1, <2>2
<1>9. Gone(g)'
  <2>1. Membership!Joining(g)' \subseteq Membership!Joining(g)
    BY <1>2 DEF Membership!Joining
  <2> QED
    BY <1>0, <1>1, <1>3, <2>1, GoneFrame
<1> QED
  BY <1>5, <1>6, <1>7, <1>8, <1>9 DEF GroupOK

\* What is left to show of such a step.
LEMMA Proceeds ==
  ASSUME RosterInv, NEW t \in Membership!Task, NEW r, Moves(t, r),
         r = Membership!Idle \/ (r.g = task[t].g /\ CallOK(r, groups, notes)),
         UNCHANGED <<groups, members, notes, party, armed, idle>>, DOMAIN addressCache' \subseteq Address,
         BlameGrows, r.at \notin {"found", "enroll"},
         r.at = "insert" => r.a \notin party,
         \A h \in Group : task[t].g = h => GroupOK(h)',
         Fresh'
  PROVE  RosterInv'
<1>1. CallOK(r, groups', notes')
  <2>1. CallOK(r, groups, notes)
    BY IdleIsOK
  <2> QED
    BY <2>1
<1>2. RestOK' /\ GroupsOK(groups') /\ MembersOK(members', groups')
  BY DEF RosterInv, Shape, RestOK
<1>3. Shape'
  BY <1>1, <1>2, StillSeats, ShapeStep
<1>4. \A g \in Group : GroupOK(g)'
  BY StillSeats, GroupsStep
<1>5. ApartInv'
  BY ApartStep
<1>6. Membership!OneModeAtATime'
  <2>1. Membership!OneModeAtATime /\ blame \ {<<"missed", None>>} \subseteq blame'
    BY DEF RosterInv, BlameGrows
  <2> QED
    BY <2>1, ModeFrame
<1> QED
  BY <1>3, <1>4, <1>5, <1>6 DEF RosterInv

-------------------------------------------------------------------------------
(* Those steps, one by one. *)

\* The cache is not fresh, or becomes so only by a read.
LEMMA FreshStill ==
  ASSUME RosterInv, NEW t \in Membership!Task, NEW r, Moves(t, r),
         UNCHANGED <<groups, members, addressCache, reads, cachedAt>>, BlameGrows,
         <<"missed", None>> \in blame => <<"missed", None>> \in blame',
         task[t].at \in Dirty => r.at \in Dirty \/ <<"missed", None>> \in blame',
         r.at # "publish"
  PROVE  Fresh'
<1>1. Shape /\ Fresh
  BY DEF RosterInv
<1>2. \A g \in Group : BlameStays(g)
  BY BlameGrowing
<1>3. Membership!View' = Membership!View
  BY DEF Membership!View, Membership!Alive
<1> QED
  BY <1>1, <1>2, <1>3, FreshFrame DEF Steady

\* A call that is at another step and otherwise as it was.
LEMMA GoingIs ==
  ASSUME RosterInv, NEW t \in Membership!Task, NEW at, NEW r, r = [task[t] EXCEPT !.at = at]
  PROVE  /\ DOMAIN r = Fields /\ r.at = at /\ r.op = task[t].op /\ r.g = task[t].g /\ r.a = task[t].a
         /\ r.row = task[t].row /\ r.old = task[t].old /\ r.new = task[t].new /\ r.from = task[t].from
         /\ r.i = task[t].i /\ r.note = task[t].note /\ r.verdict = task[t].verdict
         /\ r.n = task[t].n /\ r.snap = task[t].snap /\ r.seq = task[t].seq
         /\ Hosted(task[t], notes) => Hosted(r, notes)
<1>1. DOMAIN task[t] = Fields
  BY TaskIs DEF CallOK
<1>2. /\ DOMAIN r = Fields /\ r.at = at /\ r.op = task[t].op /\ r.g = task[t].g /\ r.a = task[t].a
      /\ r.row = task[t].row /\ r.old = task[t].old /\ r.new = task[t].new /\ r.from = task[t].from
      /\ r.i = task[t].i /\ r.note = task[t].note /\ r.verdict = task[t].verdict
      /\ r.n = task[t].n /\ r.snap = task[t].snap /\ r.seq = task[t].seq
  BY <1>1, FieldsAre
<1> QED
  BY <1>2 DEF Hosted

LEMMA AddKeeps ==
  ASSUME RosterInv, NEW t \in Membership!Task, Membership!Add(t)
  PROVE  RosterInv'
<1>1. /\ task[t].at = "add"
      /\ UNCHANGED <<groups, members, notes, addressCache, party, idle, armed, reads, cachedAt, blame>>
  BY DEF Membership!Add, Membership!At, Membership!rows, Membership!ghost
<1>2. CallOK(task[t], groups, notes) /\ DOMAIN addressCache \subseteq Address
  BY TaskIs DEF RosterInv, Shape, RestOK
<1>3. task[t].g \in Group
  BY <1>1, <1>2 DEF CallOK, InGroup
<1> DEFINE going == [task[t] EXCEPT !.at = "insert"]
<1>4. /\ DOMAIN going = Fields /\ going.at = "insert" /\ going.g = task[t].g /\ going.a = task[t].a
      /\ going.i = task[t].i /\ going.note = task[t].note /\ going.verdict = task[t].verdict
      /\ Hosted(task[t], notes) => Hosted(going, notes)
  BY GoingIs
<1>5. PICK r : /\ Moves(t, r) /\ (r = Membership!Idle \/ r = going)
               /\ r = going => task[t].a \notin party /\ ~Membership!Full(task[t].g)
  <2>1. CASE Membership!Done(t)
    BY <1>4, <2>1, FieldsAre DEF Membership!Done, Moves
  <2>2. CASE ~Membership!Done(t)
    BY <2>2 DEF Membership!Add, Membership!Goto, Moves, Membership!Unbound
  <2> QED
    BY <2>1, <2>2
<1> HIDE DEF going
<1>6. r = going => CallOK(r, groups, notes)
  BY <1>1, <1>2, <1>4 DEF CallOK, InGroup, ForAddress, WithCopy
<1>7. r.at \in {"idle", "insert"} /\ (r.at = "insert" => r = going) /\
        (r = Membership!Idle \/ r.g = task[t].g)
  BY <1>4, <1>5, FieldsAre
<1>8. BlameGrows
  BY <1>1 DEF BlameGrows
<1>9. \A h \in Group : task[t].g = h => GroupOK(h)'
  BY <1>1, <1>3, <1>5, <1>7, <1>8, OwnStill
<1>10. Fresh'
  BY <1>1, <1>5, <1>7, <1>8, FreshStill DEF Dirty
<1> QED
  BY <1>1, <1>2, <1>4, <1>5, <1>6, <1>7, <1>8, <1>9, <1>10, Proceeds

LEMMA CountKeeps ==
  ASSUME RosterInv, NEW t \in Membership!Task, Membership!Count(t)
  PROVE  RosterInv'
<1>1. /\ task[t].at = "count"
      /\ UNCHANGED <<groups, members, notes, addressCache, party, idle, armed, reads, cachedAt, blame>>
  BY DEF Membership!Count, Membership!At, Membership!rows, Membership!ghost
<1>2. CallOK(task[t], groups, notes) /\ DOMAIN addressCache \subseteq Address
  BY TaskIs DEF RosterInv, Shape, RestOK
<1> DEFINE r == [task[t] EXCEPT !.n = Cardinality(Membership!MembersOf(task[t].g)), !.at = "load"]
<1>3. /\ DOMAIN r = Fields /\ r.at = "load" /\ r.g = task[t].g
      /\ r.i = task[t].i /\ r.note = task[t].note /\ r.verdict = task[t].verdict
  BY <1>2, FieldsAre DEF CallOK
<1>4. Moves(t, r)
  BY CopiesAgree DEF Membership!Count, Moves
<1> HIDE DEF r
<1>5. CallOK(r, groups, notes)
  BY <1>1, <1>2, <1>3 DEF CallOK, InGroup, ForAddress, WithCopy
<1>6. BlameGrows
  BY <1>1 DEF BlameGrows
<1>7. \A h \in Group : task[t].g = h => GroupOK(h)'
  BY <1>1, <1>3, <1>4, <1>6, OwnStill
<1>8. Fresh'
  BY <1>1, <1>3, <1>4, <1>6, FreshStill DEF Dirty
<1> QED
  BY <1>1, <1>2, <1>3, <1>4, <1>5, <1>6, <1>7, <1>8, Proceeds

LEMMA LoadKeeps ==
  ASSUME RosterInv, NEW t \in Membership!Task, Membership!Load(t)
  PROVE  RosterInv'
<1>1. /\ task[t].at = "load" /\ blame \subseteq blame'
      /\ UNCHANGED <<groups, members, notes, addressCache, party, idle, armed, reads, cachedAt>>
  BY DEF Membership!Load, Membership!At, Membership!rows
<1>2. CallOK(task[t], groups, notes) /\ DOMAIN addressCache \subseteq Address /\ GroupsOK(groups)
  BY TaskIs DEF RosterInv, Shape, RestOK
<1>3. task[t].g \in Group /\ groups[task[t].g] \in Membership!Row
  BY <1>1, <1>2 DEF CallOK, InGroup, GroupsOK
<1>4. BlameGrows
  BY <1>1 DEF BlameGrows
<1>5. CASE /\ groups[task[t].g].dissolved \/ groups[task[t].g].active = Membership!ShouldBeActive(task[t].n)
           /\ Membership!Goto(t, "read") /\ blame' = blame \cup Membership!Miscounted(t)
  <2> DEFINE r == [task[t] EXCEPT !.at = "read"]
  <2>1. /\ DOMAIN r = Fields /\ r.at = "read" /\ r.g = task[t].g
        /\ r.i = task[t].i /\ r.note = task[t].note /\ r.verdict = task[t].verdict
    BY <1>2, FieldsAre DEF CallOK
  <2>2. Moves(t, r)
    BY <1>5 DEF Membership!Goto, Moves
  <2> HIDE DEF r
  <2>3. CallOK(r, groups, notes)
    BY <1>1, <1>2, <2>1 DEF CallOK, InGroup, ForAddress, WithCopy
  <2>4. \/ <<"miscount", task[t].g>> \in blame' \/ groups[task[t].g].dissolved
        \/ groups[task[t].g].active = Membership!ShouldBeActive(Cardinality(Membership!MembersOf(task[t].g)))
    BY CopiesAgree, <1>5 DEF Membership!Miscounted
  <2>5. \A h \in Group : task[t].g = h => GroupOK(h)'
    BY <1>1, <1>4, <2>1, <2>2, <2>4, OwnStill
  <2>6. Fresh'
    BY <1>1, <1>4, <2>1, <2>2, FreshStill DEF Dirty
  <2> QED
    BY <1>1, <1>2, <1>4, <2>1, <2>2, <2>3, <2>5, <2>6, Proceeds
<1>6. CASE /\ groups[task[t].g].active # Membership!ShouldBeActive(task[t].n)
           /\ task' = [task EXCEPT ![t].row = groups[task[t].g], ![t].at = "store"]
  <2> DEFINE r == [task[t] EXCEPT !.row = groups[task[t].g], !.at = "store"]
  <2>1. /\ DOMAIN r = Fields /\ r.at = "store" /\ r.g = task[t].g /\ r.row = groups[task[t].g]
        /\ r.i = task[t].i /\ r.note = task[t].note /\ r.verdict = task[t].verdict /\ r.n = task[t].n
    BY <1>2, FieldsAre DEF CallOK
  <2>2. Moves(t, r)
    BY <1>6 DEF Moves
  <2> HIDE DEF r
  <2>3. CallOK(r, groups, notes)
    BY <1>1, <1>2, <1>3, <1>6, <2>1 DEF CallOK, InGroup, ForAddress, WithCopy
  <2>5. \A h \in Group : task[t].g = h => GroupOK(h)'
    BY <1>1, <1>4, <2>1, <2>2, OwnStill
  <2>6. Fresh'
    BY <1>1, <1>4, <2>1, <2>2, FreshStill DEF Dirty
  <2> QED
    BY <1>1, <1>2, <1>4, <2>1, <2>2, <2>3, <2>5, <2>6, Proceeds
<1> QED
  BY <1>5, <1>6 DEF Membership!Load

LEMMA LastKeeps ==
  ASSUME RosterInv, NEW t \in Membership!Task, Membership!Last(t)
  PROVE  RosterInv'
<1>1. /\ task[t].at = "last"
      /\ UNCHANGED <<groups, members, notes, addressCache, party, idle, armed, reads, cachedAt, blame>>
  BY DEF Membership!Last, Membership!At, Membership!rows, Membership!ghost
<1>2. CallOK(task[t], groups, notes) /\ DOMAIN addressCache \subseteq Address /\ GroupsOK(groups)
  BY TaskIs DEF RosterInv, Shape, RestOK
<1>3. task[t].g \in Group /\ groups[task[t].g] \in Membership!Row
  BY <1>1, <1>2 DEF CallOK, InGroup, GroupsOK
<1>4. BlameGrows
  BY <1>1 DEF BlameGrows
<1> DEFINE r == [task[t] EXCEPT !.row = groups[task[t].g], !.at = "bury"]
<1>5. /\ DOMAIN r = Fields /\ r.at = "bury" /\ r.g = task[t].g /\ r.row = groups[task[t].g]
      /\ r.i = task[t].i /\ r.note = task[t].note /\ r.verdict = task[t].verdict /\ r.op = task[t].op
  BY <1>2, FieldsAre DEF CallOK
<1>6. Moves(t, r)
  BY DEF Membership!Last, Moves
<1> HIDE DEF r
<1>7. CallOK(r, groups, notes)
  BY <1>1, <1>2, <1>3, <1>5 DEF CallOK, InGroup, ForAddress, WithCopy
<1>8. \A h \in Group : task[t].g = h => GroupOK(h)'
  BY <1>1, <1>4, <1>5, <1>6, OwnStill
<1>9. Fresh'
  BY <1>1, <1>4, <1>5, <1>6, FreshStill DEF Dirty
<1> QED
  BY <1>1, <1>2, <1>4, <1>5, <1>6, <1>7, <1>8, <1>9, Proceeds

\* A call that ends says what it leaves undone.
LEMMA EndsKeeps ==
  ASSUME RosterInv, NEW t \in Membership!Task, Membership!Done(t), blame \subseteq blame',
         UNCHANGED <<groups, members, notes, addressCache, party, idle, armed, reads, cachedAt>>,
         task[t].at = "enroll" => <<"orphan", task[t].g>> \in blame',
         task[t].at \in {"promote", "hand", "last", "bury"} => <<"torn", task[t].g>> \in blame',
         task[t].at \in {"count", "load", "store"} => <<"miscount", task[t].g>> \in blame',
         task[t].at \in Dirty => <<"missed", None>> \in blame'
  PROVE  RosterInv'
<1>1. Moves(t, Membership!Idle) /\ BlameGrows
  BY DEF Membership!Done, Moves, BlameGrows
<1>2. CallOK(task[t], groups, notes) /\ DOMAIN addressCache \subseteq Address
  BY TaskIs DEF RosterInv, Shape, RestOK
<1>3. task[t].at = "found" => groups[task[t].g] = Membership!NoGroup
  BY <1>2 DEF CallOK
<1>4. ASSUME NEW h \in Group, task[t].g = h PROVE GroupOK(h)'
  BY <1>1, <1>3, <1>4, FieldsAre, OwnStill
<1>5. Fresh'
  BY <1>1, FieldsAre, FreshStill
<1> QED
  BY <1>1, <1>2, <1>4, <1>5, FieldsAre, Proceeds

LEMMA FailKeeps ==
  ASSUME RosterInv, NEW t \in Membership!Task, Membership!Fail(t)
  PROVE  RosterInv'
<1>1. CallOK(task[t], groups, notes)
  BY TaskIs
<1>2. /\ Membership!Done(t) /\ blame \subseteq blame'
      /\ UNCHANGED <<groups, members, notes, addressCache, party, idle, armed, reads, cachedAt>>
  BY DEF Membership!Fail, Membership!rows
<1>3. task[t].at = "enroll" => task[t].op = "create"
  BY <1>1 DEF CallOK
<1>4. /\ task[t].at \in {"promote", "hand"} => task[t].op = "transfer"
      /\ task[t].at \in {"last", "bury"} => task[t].op = "dissolve"
  BY <1>1 DEF CallOK
<1>5. task[t].at = "enroll" => <<"orphan", task[t].g>> \in blame'
  BY <1>3 DEF Membership!Fail
<1>6. task[t].at \in {"promote", "hand", "last", "bury"} =>
        <<"torn", task[t].g>> \in blame' /\ <<"missed", None>> \in blame'
  BY <1>4 DEF Membership!Fail
<1>7. /\ task[t].at \in {"count", "load", "store"} => <<"miscount", task[t].g>> \in blame'
      /\ task[t].at \in {"count", "load", "store", "read"} => <<"missed", None>> \in blame'
  BY DEF Membership!Fail
<1> QED
  BY <1>2, <1>5, <1>6, <1>7, EndsKeeps DEF Dirty

LEMMA TornKeeps ==
  ASSUME RosterInv, NEW t \in Membership!Task, Membership!Torn(t)
  PROVE  RosterInv'
<1>1. /\ Membership!Done(t) /\ task[t].at \in {"demote", "promote"}
      /\ blame' = blame \cup {<<"torn", task[t].g>>, <<"missed", None>>}
      /\ UNCHANGED <<groups, members, notes, addressCache, party, idle, armed, reads, cachedAt>>
  BY DEF Membership!Torn, Membership!At, Membership!rows
<1> QED
  BY <1>1, EndsKeeps

LEMMA ReadKeeps ==
  ASSUME RosterInv, NEW t \in Membership!Task, Membership!Read(t)
  PROVE  RosterInv'
<1>1. /\ task[t].at = "read" /\ reads' = reads + 1 /\ blame' = blame \ {<<"missed", None>>}
      /\ UNCHANGED <<groups, members, notes, addressCache, party, idle, armed, cachedAt>>
  BY DEF Membership!Read, Membership!At, Membership!rows
<1>2. CallOK(task[t], groups, notes) /\ DOMAIN addressCache \subseteq Address
  BY TaskIs DEF RosterInv, Shape, RestOK
<1>3. BlameGrows
  BY <1>1 DEF BlameGrows
<1> DEFINE r == [task[t] EXCEPT !.snap = Membership!View, !.seq = reads + 1, !.at = "publish"]
<1>4. /\ DOMAIN r = Fields /\ r.at = "publish" /\ r.g = task[t].g /\ r.snap = Membership!View /\
          r.seq = reads + 1
      /\ r.i = task[t].i /\ r.note = task[t].note /\ r.verdict = task[t].verdict
  BY <1>2, FieldsAre DEF CallOK
<1>5. Moves(t, r)
  BY DEF Membership!Read, Moves
<1> HIDE DEF r
<1>6. CallOK(r, groups, notes)
  <2>1. DOMAIN r.snap \subseteq Address
    BY <1>4 DEF Membership!View
  <2> QED
    BY <1>1, <1>2, <1>4, <2>1 DEF CallOK, InGroup, ForAddress, WithCopy
<1>7. \A h \in Group : task[t].g = h => GroupOK(h)'
  BY <1>1, <1>3, <1>4, <1>5, OwnStill
<1>8. Fresh'
  <2>1. DOMAIN task' = Membership!Task /\ task'[t] = r /\ \A u \in Membership!Task : u # t =>
          task'[u] = task[u]
    BY <1>5, MovesIs, TaskIs
  <2>2. Membership!View' = Membership!View
    BY <1>1 DEF Membership!View, Membership!Alive
  <2>3. /\ cachedAt \in Nat /\ reads \in Nat /\ cachedAt <= reads
        /\ \A u \in Membership!Task : task[u].at = "publish" => task[u].seq \in Nat /\ task[u].seq <= reads
    BY DEF RosterInv, Fresh
  <2>4. ASSUME NEW u \in Membership!Task, task'[u].at = "publish"
        PROVE  /\ task'[u].seq \in Nat /\ task'[u].seq <= reads'
               /\ task'[u].seq = reads' => task'[u].snap = Membership!View'
    <3>1. CASE u = t
      BY <1>1, <1>4, <2>1, <2>2, <2>3, <3>1
    <3>2. CASE u # t
      <4>1. task[u].seq \in Nat /\ task[u].seq <= reads /\ task'[u].seq = task[u].seq
        BY <2>1, <2>3, <2>4, <3>2
      <4> QED
        BY <1>1, <2>3, <4>1
    <3> QED
      BY <3>1, <3>2
  <2>5. cachedAt' \in Nat /\ reads' \in Nat /\ cachedAt' <= reads' /\ cachedAt' # reads'
    BY <1>1, <2>3
  <2> QED
    BY <2>4, <2>5 DEF Fresh
<1> QED
  BY <1>1, <1>2, <1>3, <1>4, <1>5, <1>6, <1>7, <1>8, Proceeds

LEMMA PublishKeeps ==
  ASSUME RosterInv, NEW t \in Membership!Task, Membership!Publish(t)
  PROVE  RosterInv'
<1>1. /\ task[t].at = "publish" /\ addressCache' = task[t].snap /\ cachedAt' = task[t].seq
      /\ UNCHANGED <<groups, members, notes, party, idle, armed, reads, blame>>
  BY DEF Membership!Publish, Membership!At, Membership!rows
<1>2. CallOK(task[t], groups, notes) /\ CallsOK
  BY TaskIs
<1>3. BlameGrows /\ DOMAIN addressCache' \subseteq Address
  BY <1>1, <1>2 DEF BlameGrows, CallOK
<1> DEFINE going == [task[t] EXCEPT !.at = "answer", !.snap = << >>]
<1>4. /\ DOMAIN going = Fields /\ going.at = "answer" /\ going.g = task[t].g
      /\ going.i = task[t].i /\ going.note = task[t].note /\ going.verdict = task[t].verdict
  BY <1>2, FieldsAre DEF CallOK
<1>5. PICK r : Moves(t, r) /\ (r = Membership!Idle \/ (r = going /\ task[t].i # 0))
  <2>1. CASE task[t].i = 0
    BY <2>1 DEF Membership!Publish, Membership!Done, Moves
  <2>2. CASE task[t].i # 0
    <3>1. Moves(t, going)
      BY <2>2 DEF Membership!Publish, Moves
    <3> QED
      BY <2>2, <3>1
  <2> QED
    BY <2>1, <2>2
<1> HIDE DEF going
<1>6. ASSUME r = going
      PROVE  CallOK(r, groups, notes)
  <2>1. /\ DOMAIN r = Fields /\ r.at = "answer" /\ r.g = task[t].g
        /\ r.i = task[t].i /\ r.note = task[t].note /\ r.verdict = task[t].verdict
    BY <1>4, <1>6
  <2>2. task[t].i # 0
    BY <1>1, <1>5, <1>6, <2>1, FieldsAre
  <2>3. /\ r.i \in DOMAIN notes /\ r.note \in Membership!Message /\ Alike(r.note, notes[r.i])
        /\ [r.note EXCEPT !.status = r.verdict] \in Membership!Message
    BY <1>2, <2>1, <2>2 DEF CallOK
  <2> QED
    BY <2>1, <2>2, <2>3 DEF CallOK, InGroup, ForAddress, WithCopy
<1>7. r.at \in {"idle", "answer"} /\ (r = Membership!Idle \/ r.g = task[t].g)
  BY <1>4, <1>5, FieldsAre
<1>8. \A h \in Group : task[t].g = h => GroupOK(h)'
  BY <1>1, <1>3, <1>5, <1>7, OwnStill
<1>9. Fresh'
  <2>1. DOMAIN task' = Membership!Task /\ task'[t] = r /\ \A u \in Membership!Task : u # t =>
          task'[u] = task[u]
    BY <1>2, <1>5, MovesIs
  <2>2. Membership!View' = Membership!View
    BY <1>1 DEF Membership!View, Membership!Alive
  <2>3. \A u \in Membership!Task : task'[u].at = "publish" => u # t /\ task'[u] = task[u]
    BY <1>7, <2>1
  <2>4. /\ cachedAt' \in Nat /\ reads' \in Nat /\ cachedAt' <= reads'
        /\ \A u \in Membership!Task : task'[u].at = "publish" => task'[u].seq \in Nat /\
                task'[u].seq <= reads'
    BY <1>1, <2>3 DEF RosterInv, Fresh
  <2>5. ASSUME Steady', Stirring' = {} PROVE Steady /\ Stirring = {}
    <3>1. Steady
      BY <1>1, <2>5 DEF Steady, Membership!Blamed
    <3>2. task[t].at \notin Dirty
      BY <1>1 DEF Dirty
    <3> QED
      BY <2>1, <2>5, <3>1, <3>2 DEF Stirring
  <2>6. ASSUME Steady', Stirring' = {}
        PROVE  /\ cachedAt' = reads' => addressCache' = Membership!View'
               /\ \A u \in Membership!Task : task'[u].at = "publish" /\ task'[u].seq = reads' =>
                       task'[u].snap = Membership!View'
    <3>1. \A u \in Membership!Task : task[u].at = "publish" /\ task[u].seq = reads =>
            task[u].snap = Membership!View
      BY <2>5, <2>6 DEF RosterInv, Fresh
    <3> QED
      BY <1>1, <2>2, <2>3, <3>1
  <2> QED
    BY <2>4, <2>6 DEF Fresh
<1> QED
  BY <1>1, <1>2, <1>3, <1>5, <1>6, <1>7, <1>8, <1>9, FieldsAre, Proceeds

LEMMA PartyJoinsKeeps ==
  ASSUME RosterInv, NEW a \in Address, Membership!PartyJoins(a)
  PROVE  RosterInv'
<1>1. /\ party' = party \cup {a} /\ blame \subseteq blame'
      /\ \A t \in Membership!Task, b \in Address : <<"crossed", b>> \in blame => <<"crossed", b>> \in blame'
      /\ (members[a] # Membership!NoRow \/ \E t \in Membership!Task : task[t].a = a /\
              task[t].at \in {"found", "enroll", "insert"})
            => <<"crossed", a>> \in blame'
      /\ blame' \subseteq blame \cup {<<"crossed", a>>}
      /\ UNCHANGED <<groups, members, notes, addressCache, idle, armed, task, reads, cachedAt>>
  BY DEF Membership!PartyJoins, Membership!rows
<1>2. Shape'
  BY <1>1 DEF RosterInv, Shape, RestOK, CallsOK, NewGroups, Membership!MembersOf
<1>3. \A g : \A cs \in SUBSET (Causes \cup {"missed"}) : Membership!Blamed(cs, g)' = Membership!Blamed(cs, g)
  BY <1>1 DEF Membership!Blamed, Causes
<1>4. ASSUME NEW g \in Group PROVE GroupOK(g)'
  <2>1. GroupOK(g) /\ \A cs \in SUBSET Causes : Membership!Blamed(cs, g)' = Membership!Blamed(cs, g)
    BY <1>3 DEF RosterInv
  <2>2. Membership!Alive(g)' = Membership!Alive(g) /\
          Membership!MembersOf(g)' = Membership!MembersOf(g) /\ Creators(g)' = Creators(g)
    BY <1>1 DEF Membership!Alive, Membership!MembersOf, Creators
  <2>3. /\ Crowning(g)' = Crowning(g) /\ Emptying(g)' = Emptying(g) /\ Founders(g)' = Founders(g)
        /\ Counting(g)' = Counting(g) /\ Transferring(g)' = Transferring(g)
        /\ Membership!Inserting(g)' = Membership!Inserting(g) /\
                Membership!Joining(g)' = Membership!Joining(g) /\ Outdated(g)' = Outdated(g)
    BY <1>1
       DEF Crowning, Emptying, Founders, Counting, Transferring, On, Membership!Inserting,
           Membership!Joining, Membership!At, Outdated
  <2>4. Sound(g)' = Sound(g)
    BY <2>1, <2>2, <2>3 DEF Sound, Causes
  <2>5. Tokens(g)' /\ Gone(g)' /\ Capped(g)'
    BY <1>1, <2>1, <2>2, <2>3 DEF GroupOK, Tokens, Gone, Capped, Causes
  <2>6. Crown(g)' /\ Counted(g)'
    BY <1>1, <2>1, <2>2, <2>3, <2>4
       DEF GroupOK, Crown, Counted, Causes, Membership!ShouldBeActive
  <2> QED
    BY <2>5, <2>6 DEF GroupOK
<1>5. Fresh'
  <2>1. Steady' => Steady
    BY <1>1 DEF Steady, Membership!Blamed
  <2>2. Membership!View' = Membership!View /\ Stirring' = Stirring
    BY <1>1 DEF Membership!View, Membership!Alive, Stirring
  <2> QED
    BY <1>1, <2>1, <2>2 DEF RosterInv, Fresh
<1>6. ApartInv'
  BY <1>1 DEF RosterInv, ApartInv
<1>7. Membership!OneModeAtATime'
  BY <1>1 DEF RosterInv, Membership!OneModeAtATime, Membership!Blamed
<1> QED
  BY <1>2, <1>4, <1>5, <1>6, <1>7 DEF RosterInv

-------------------------------------------------------------------------------
(* Steps that write a row: what they share. *)

\* Nothing is claimed of a group that a copy out of date was saved to.
LEMMA StaleIsOK ==
  ASSUME NEW g \in Group, <<"stale", g>> \in blame'
  PROVE  GroupOK(g)'
<1>1. \A cs \in SUBSET Causes : "stale" \in cs => Membership!Blamed(cs, g)'
  BY DEF Membership!Blamed
<1>2. Membership!Blamed({"stale"}, g)' /\ Membership!Blamed({"stale", "torn", "orphan"}, g)'
      /\ Membership!Blamed({"rushed", "lowered", "stale"}, g)' /\
              Membership!Blamed({"stale", "outlived", "torn"}, g)'
  BY <1>1 DEF Causes
<1>3. ~Sound(g)'
  BY <1>2 DEF Sound
<1> QED
  BY <1>2, <1>3 DEF GroupOK, Tokens, Crown, Counted, Capped, Gone

LEMMA ModeStep ==
  ASSUME Membership!OneModeAtATime, UNCHANGED party, blame \subseteq blame',
         \A a \in party : members'[a] # Membership!NoRow =>
            \/ members[a] # Membership!NoRow /\ members'[a].group = members[a].group
            \/ <<"crossed", a>> \in blame' \/ <<"stale", members'[a].group>> \in blame'
  PROVE  Membership!OneModeAtATime'
<1>1. ASSUME NEW a \in party, members'[a] # Membership!NoRow
      PROVE  <<"crossed", a>> \in blame' \/ <<"stale", members'[a].group>> \in blame'
  <2>1. CASE members[a] # Membership!NoRow /\ members'[a].group = members[a].group
    <3>1. <<"crossed", a>> \in blame \/ <<"stale", members[a].group>> \in blame
      BY <2>1 DEF Membership!OneModeAtATime, Membership!Blamed
    <3> QED
      BY <2>1, <3>1
  <2> QED
    BY <1>1, <2>1
<1> QED
  BY <1>1 DEF Membership!OneModeAtATime, Membership!Blamed

\* A step that leaves the cache to be read again.
LEMMA WorkKeeps ==
  ASSUME RosterInv, NEW t \in Membership!Task, NEW r, Moves(t, r), r.g = task[t].g, r.at \in Dirty,
         CallOK(r, groups', notes),
         UNCHANGED <<notes, addressCache, party, armed, reads, cachedAt>>, idle' \subseteq Address,
         blame \subseteq blame', GroupsOK(groups'), MembersOK(members', groups'),
         task[t].g \in Group, groups'[task[t].g] # Membership!NoGroup,
         \A h \in Group \ {task[t].g} : groups'[h] = groups[h] /\ SeatsKept(h),
         \A h \in Group : task[t].g = h => GroupOK(h)',
         Membership!OneModeAtATime'
  PROVE  RosterInv'
<1>1. BlameGrows /\ r.at \notin {"found", "enroll", "insert", "publish"}
  BY DEF BlameGrows, Dirty
<1>2. RestOK'
  BY DEF RosterInv, Shape, RestOK
<1>3. \A h \in Group \ {task[t].g} : groups'[h] = groups[h] /\
        Membership!MembersOf(h)' = Membership!MembersOf(h)
  BY SeatsSame
<1>4. Shape'
  BY <1>1, <1>2, <1>3, ShapeStep
<1>5. \A g \in Group : GroupOK(g)'
  BY <1>1, GroupsStep
<1>6. ApartInv'
  BY <1>1, ApartStep
<1>7. Fresh'
  <2>1. Shape /\ Fresh /\ \A g \in Group : BlameStays(g)
    BY <1>1, BlameGrowing DEF RosterInv
  <2>2. Steady' => <<"missed", None>> \notin blame
    BY DEF Steady
  <2> QED
    BY <1>1, <2>1, <2>2, FreshFrame
<1> QED
  BY <1>4, <1>5, <1>6, <1>7 DEF RosterInv

\* A call is of one group, and that is in one piece.
LEMMA OwnIs ==
  ASSUME RosterInv, NEW t \in Membership!Task, task[t].at \in InGroup
  PROVE  /\ task[t].g \in Group /\ groups[task[t].g] \in Membership!Row /\
             groups[task[t].g] # Membership!NoGroup
         /\ Tokens(task[t].g) /\ Crown(task[t].g) /\ Counted(task[t].g) /\ Capped(task[t].g)
         /\ Gone(task[t].g) /\ GroupOK(task[t].g)
         /\ GroupsOK(groups) /\ MembersOK(members, groups) /\ DOMAIN groups = Group
         /\ DOMAIN members = Address /\ party \subseteq Address /\ idle \subseteq Address
         /\ Membership!OneModeAtATime
<1>1. CallOK(task[t], groups, notes) /\ Shape
  BY TaskIs
<1>2. task[t].g \in Group /\ groups[task[t].g] # Membership!NoGroup
  BY <1>1 DEF CallOK
<1>3. /\ GroupsOK(groups) /\ MembersOK(members, groups) /\ DOMAIN groups = Group
      /\ DOMAIN members = Address /\ party \subseteq Address /\ idle \subseteq Address
  BY <1>1 DEF Shape, GroupsOK, MembersOK, RestOK
<1>4. GroupOK(task[t].g) /\ Membership!OneModeAtATime
  BY <1>2 DEF RosterInv
<1> QED
  BY <1>2, <1>3, <1>4 DEF GroupOK, GroupsOK

\* The copies of the other transfers are what they were.
LEMMA RowsOfTransfers ==
  ASSUME RosterInv, NEW t \in Membership!Task, NEW r, Moves(t, r), r.row = task[t].row, NEW g
  PROVE  /\ \A u \in Transferring(g) : task[u].row \in Membership!Row
         /\ \A u \in Membership!Task : task'[u].row = task[u].row
<1>1. \A u \in Membership!Task : CallOK(task[u], groups, notes)
  BY TaskIs
<1>2. DOMAIN task' = Membership!Task /\ task'[t] = r /\ \A u \in Membership!Task : u # t =>
        task'[u] = task[u]
  BY MovesIs, TaskIs
<1> QED
  BY <1>1, <1>2 DEF Transferring, On, CallOK, WithCopy

-------------------------------------------------------------------------------
(* The founding of a group, and who joins it. *)

LEMMA FoundKeeps ==
  ASSUME RosterInv, NEW t \in Membership!Task, Membership!Found(t)
  PROVE  RosterInv'
<1>1. /\ task[t].at = "found"
      /\ groups' = [groups EXCEPT ![task[t].g] = Membership!NewGroup(task[t].a)]
      /\ UNCHANGED <<members, notes, addressCache, party, idle, armed, reads, cachedAt, blame>>
  BY DEF Membership!Found, Membership!At, Membership!ghost
<1>2. CallOK(task[t], groups, notes) /\ Shape
  BY TaskIs
<1> DEFINE g == task[t].g
           r == [task[t] EXCEPT !.at = "enroll"]
<1>3. /\ DOMAIN r = Fields /\ r.at = "enroll" /\ r.g = g /\ r.a = task[t].a /\ r.op = task[t].op
      /\ r.i = task[t].i /\ r.note = task[t].note /\ r.verdict = task[t].verdict
  BY <1>2, FieldsAre DEF CallOK
<1>4. Moves(t, r)
  BY DEF Membership!Found, Membership!Goto, Moves
<1> HIDE DEF r
<1>5. g \in Group /\ groups[g] = Membership!NoGroup /\ task[t].a \in Address
  BY <1>1, <1>2 DEF CallOK, ForAddress
<1>6. /\ \A u \in Membership!Task : u # t => task[u].g # g
      /\ Membership!MembersOf(g) = {}
  <2>1. Founding(task[t], g)
    BY <1>1 DEF Founding
  <2> QED
    BY <1>2, <1>5, <2>1 DEF Shape, NewGroups
<1>7. Membership!NewGroup(task[t].a) \in Membership!Row /\
        Membership!NewGroup(task[t].a) # Membership!NoGroup /\ Membership!NewGroup(task[t].a).cap = 0
      /\ ~Membership!NewGroup(task[t].a).dissolved
  <2>1. Membership!NewGroup(task[t].a) \in Membership!Row
    BY <1>5 DEF Membership!NewGroup, Membership!Row
  <2> QED
    BY <2>1, RowsAre DEF Membership!NewGroup
<1>8. /\ groups'[g] = Membership!NewGroup(task[t].a) /\ DOMAIN groups' = Group
      /\ \A h \in Group \ {g} : groups'[h] = groups[h]
  BY <1>1, <1>2, <1>5 DEF Shape, GroupsOK
<1>9. GroupsOK(groups')
  BY <1>2, <1>7, <1>8 DEF Shape, GroupsOK
<1>10. \A h \in Group : groups[h] # Membership!NoGroup => groups'[h] # Membership!NoGroup
  BY <1>5, <1>8
<1>11. MembersOK(members', groups') /\ RestOK'
  <2>1. \A s \in Membership!Seat : s.group \in Group
    BY RowsAre
  <2>2. MembersOK(members', groups')
    BY <1>1, <1>2, <1>10, <2>1 DEF Shape, MembersOK
  <2> QED
    BY <1>1, <1>2, <1>10, <2>2 DEF Shape, RestOK
<1>12. DOMAIN task' = Membership!Task /\ task'[t] = r /\ \A u \in Membership!Task : u # t =>
        task'[u] = task[u]
  BY <1>4, MovesIs, TaskIs
<1>13. Membership!MembersOf(task[t].g)' = {} /\
        \A h : Membership!MembersOf(h)' = Membership!MembersOf(h) /\ SeatsKept(h)
  <2>1. \A h : Membership!MembersOf(h)' = Membership!MembersOf(h) /\ SeatsKept(h)
    BY <1>1, StillSeats
  <2>2. Membership!MembersOf(task[t].g)' = {a \in Address : members'[a].group = task'[t].g}
    BY DEF Membership!MembersOf
  <2>3. task'[t].g = g
    BY <1>3, <1>12
  <2> QED
    BY <1>1, <1>6, <2>1, <2>2, <2>3 DEF Membership!MembersOf
<1>14. CallOK(r, groups', notes')
  BY <1>1, <1>2, <1>3, <1>5, <1>7, <1>8 DEF CallOK, InGroup, ForAddress, WithCopy
<1>15. BlameGrows
  BY <1>1 DEF BlameGrows
<1>16. Shape'
  BY <1>1, <1>3, <1>4, <1>5, <1>7, <1>8, <1>9, <1>11, <1>13, <1>14, ShapeStep
<1>17. ASSUME NEW h \in Group, task[t].g = h PROVE GroupOK(h)'
  <2>1. t \in Founders(h)'
    BY <1>3, <1>12, <1>17 DEF Founders, On
  <2>2. ~Sound(h)'
    BY <2>1 DEF Sound
  <2>3. Transferring(h)' = {}
    BY <1>3, <1>6, <1>12, <1>17 DEF Transferring, On
  <2>4. Crown(h)' /\ Counted(h)' /\ Tokens(h)'
    BY <2>2, <2>3 DEF Crown, Counted, Tokens
  <2>5. groups'[h].cap = 0 /\ ~groups'[h].dissolved
    BY <1>7, <1>8, <1>17
  <2>6. Capped(h)' /\ Gone(h)'
    BY <2>5 DEF Capped, Gone
  <2> QED
    BY <2>4, <2>6 DEF GroupOK
<1>18. \A h \in Group : GroupOK(h)'
  BY <1>3, <1>4, <1>8, <1>13, <1>15, <1>17, GroupsStep
<1>19. Fresh'
  <2>1. ASSUME NEW a \in Address, members[a].group # None
        PROVE  /\ Membership!Alive(members[a].group)' = Membership!Alive(members[a].group)
               /\ Membership!Alive(members[a].group) =>
                    groups'[members[a].group].active = groups[members[a].group].active
    <3>1. members[a].group \in Group /\ members[a].group # g
      BY <1>2, <1>6, <2>1, RowsAre DEF Shape, MembersOK, Membership!MembersOf
    <3>2. groups'[members[a].group] = groups[members[a].group] /\ members' = members
      BY <1>1, <1>8, <3>1
    <3> QED
      BY <3>2 DEF Membership!Alive
  <2>2. Membership!View' = Membership!View
    BY <1>1, <2>1, ViewSame
  <2>3. Fresh /\ \A h \in Group : BlameStays(h)
    BY <1>15, BlameGrowing DEF RosterInv
  <2>4. Steady' => <<"missed", None>> \notin blame
    BY <1>1 DEF Steady
  <2> QED
    BY <1>1, <1>2, <1>3, <1>4, <2>2, <2>3, <2>4, FreshFrame DEF Dirty
<1>20. ApartInv'
  BY <1>1, <1>3, <1>4, <1>15, ApartStep
<1>21. Membership!OneModeAtATime'
  BY <1>1, ModeStep DEF RosterInv
<1> QED
  BY <1>16, <1>18, <1>19, <1>20, <1>21 DEF RosterInv

\* Who takes a seat that is free.
LEMMA SeatTaken ==
  ASSUME MembersOK(members, groups), NEW g \in Group, groups[g] # Membership!NoGroup, groups' = groups,
         NEW a \in Address, members[a] = Membership!NoRow,
         NEW role \in {"creator", "member"},
         members' = [members EXCEPT ![a] = [group |-> g, role |-> role]]
  PROVE  /\ MembersOK(members', groups') /\ \A h \in Group \ {g} : SeatsKept(h)
         /\ Membership!MembersOf(g)' = Membership!MembersOf(g) \cup {a} /\ a \notin Membership!MembersOf(g)
         /\ Creators(g)' = IF role = "creator" THEN Creators(g) \cup {a} ELSE Creators(g)
         /\ \A b \in Address : members'[b] # Membership!NoRow => b = a \/ members'[b] = members[b]
<1>1. /\ DOMAIN members' = Address /\ members'[a] = [group |-> g, role |-> role]
      /\ \A b \in Address : b # a => members'[b] = members[b]
  BY DEF MembersOK
<1>2. [group |-> g, role |-> role] \in Membership!Seat /\ members[a].group = None /\ None \notin Group
  BY RowsAre DEF Membership!Seat
<1>3. MembersOK(members', groups')
  BY <1>1, <1>2 DEF MembersOK
<1>4. \A h \in Group \ {g} : SeatsKept(h)
  BY <1>1, <1>2 DEF SeatsKept, MembersOK
<1>5. Membership!MembersOf(g)' = Membership!MembersOf(g) \cup {a} /\ a \notin Membership!MembersOf(g)
  BY <1>1, <1>2 DEF Membership!MembersOf
<1>6. Creators(g)' = IF role = "creator" THEN Creators(g) \cup {a} ELSE Creators(g)
  <2>1. Creators(g)' = {b \in Membership!MembersOf(g)' : members'[b].role = "creator"}
    BY DEF Creators
  <2> QED
    BY <1>1, <1>5, <2>1 DEF Creators, Membership!MembersOf
<1> QED
  BY <1>1, <1>3, <1>4, <1>5, <1>6

LEMMA EnrollKeeps ==
  ASSUME RosterInv, NEW t \in Membership!Task, Membership!Enroll(t)
  PROVE  RosterInv'
<1>1. /\ task[t].at = "enroll"
      /\ UNCHANGED <<groups, notes, addressCache, party, armed, reads, cachedAt>>
  BY DEF Membership!Enroll, Membership!At
<1> DEFINE g == task[t].g
           a == task[t].a
<1>2. CASE members[a] # Membership!NoRow
  <2>1. Membership!Done(t) /\ blame' = blame \cup {<<"orphan", g>>} /\ UNCHANGED <<members, idle>>
    BY <1>2 DEF Membership!Enroll
  <2> QED
    BY <1>1, <2>1, EndsKeeps DEF Dirty
<1>3. CASE members[a] = Membership!NoRow
  <2>1. /\ members' = [members EXCEPT ![a] = [group |-> g, role |-> "creator"]]
        /\ idle' = idle \ {a} /\ Membership!Goto(t, "read") /\ blame' = blame
    BY <1>3 DEF Membership!Enroll
  <2>2. CallOK(task[t], groups, notes) /\ Shape
    BY TaskIs
  <2>3. /\ g \in Group /\ groups[g] # Membership!NoGroup /\ a \in Address /\ GroupsOK(groups)
        /\ MembersOK(members, groups) /\ idle \subseteq Address /\ party \subseteq Address
    BY <1>1, <2>2, OwnIs DEF CallOK, InGroup, ForAddress
  <2> DEFINE r == [task[t] EXCEPT !.at = "read"]
  <2>4. /\ DOMAIN r = Fields /\ r.at = "read" /\ r.g = g
        /\ r.i = task[t].i /\ r.note = task[t].note /\ r.verdict = task[t].verdict
    BY <2>2, FieldsAre DEF CallOK
  <2>5. Moves(t, r)
    BY <2>1 DEF Membership!Goto, Moves
  <2> HIDE DEF r
  <2>6. DOMAIN task' = Membership!Task /\ task'[t] = r /\ \A u \in Membership!Task : u # t =>
          task'[u] = task[u]
    BY <2>5, MovesIs, TaskIs
  <2>7. CallOK(r, groups', notes)
    BY <1>1, <2>2, <2>3, <2>4 DEF CallOK, InGroup, ForAddress, WithCopy
  <2>8. /\ \A u \in Membership!Task : u # t => task[u].g # g
        /\ Membership!MembersOf(g) = {} /\ groups[g] = Membership!NewGroup(a)
    <3>1. Founding(task[t], g)
      BY <1>1 DEF Founding
    <3> QED
      BY <1>1, <2>2, <2>3, <3>1 DEF Shape, NewGroups
  <2> PICK k \in Group : k = g
    BY <2>3
  <2>9. /\ MembersOK(members', groups') /\ \A h \in Group \ {g} : SeatsKept(h)
        /\ Membership!MembersOf(k)' = Membership!MembersOf(k) \cup {a}
        /\ Creators(k)' = Creators(k) \cup {a}
        /\ \A b \in Address : members'[b] # Membership!NoRow => b = a \/ members'[b] = members[b]
    BY <1>1, <1>3, <2>1, <2>3, SeatTaken
  <2>10. ASSUME NEW h \in Group, task[t].g = h PROVE GroupOK(h)'
    <3>1. Crowning(h)' = {} /\ Transferring(h)' = {}
      BY <2>4, <2>6, <2>8, <2>10 DEF Crowning, Transferring, On
    <3>2. Membership!MembersOf(h)' = {a} /\ Creators(h)' = {a}
      BY <2>8, <2>9, <2>10 DEF Creators
    <3>3. groups'[h].creator = a /\ groups'[h].active = FALSE /\ groups'[h].cap = 0
          /\ groups'[h].dissolved = FALSE
      BY <1>1, <2>8, <2>10 DEF Membership!NewGroup
    <3>4. Membership!ShouldBeActive(Cardinality(Membership!MembersOf(h)')) = FALSE
      <4>1. Cardinality({a}) = 1
        BY FS_Singleton
      <4> QED
        BY <3>2, <4>1, RosterAssumption
           DEF Membership!ShouldBeActive, Membership!MembershipAssumption
    <3>5. Tokens(h)' /\ Crown(h)'
      BY <3>1, <3>2, <3>3 DEF Tokens, Crown
    <3>6. Counted(h)'
      <4> SUFFICES groups'[h].active = Membership!ShouldBeActive(Cardinality(Membership!MembersOf(h)'))
        BY DEF Counted, Membership!ShouldBeActive
      <4> QED
        BY <3>3, <3>4
    <3>7. Capped(h)' /\ Gone(h)'
      BY <3>3 DEF Capped, Gone
    <3> QED
      BY <3>5, <3>6, <3>7 DEF GroupOK
  <2>11. Membership!OneModeAtATime'
    <3>1. a \in party => <<"crossed", a>> \in blame
      BY <1>1 DEF RosterInv, ApartInv
    <3>2. \A b \in party : members'[b] # Membership!NoRow =>
            \/ members[b] # Membership!NoRow /\ members'[b].group = members[b].group
            \/ <<"crossed", b>> \in blame' \/ <<"stale", members'[b].group>> \in blame'
      BY <2>1, <2>3, <2>9, <3>1
    <3> QED
      BY <1>1, <2>1, <3>2, ModeStep DEF RosterInv
  <2>12. groups'[g] # Membership!NoGroup /\ GroupsOK(groups') /\ blame \subseteq blame' /\
          idle' \subseteq Address
         /\ \A h \in Group \ {g} : groups'[h] = groups[h]
    BY <1>1, <2>1, <2>3
  <2>13. r.at \in Dirty
    BY <2>4 DEF Dirty
  <2> QED
    BY <1>1, <2>3, <2>4, <2>5, <2>7, <2>9, <2>10, <2>11, <2>12, <2>13, WorkKeeps
<1> QED
  BY <1>2, <1>3

LEMMA InsertKeeps ==
  ASSUME RosterInv, NEW t \in Membership!Task, Membership!Insert(t)
  PROVE  RosterInv'
<1>1. /\ task[t].at = "insert"
      /\ UNCHANGED <<groups, notes, addressCache, party, armed, reads, cachedAt>>
  BY DEF Membership!Insert, Membership!At
<1> DEFINE g == task[t].g
           a == task[t].a
<1>2. CASE members[a] # Membership!NoRow
  <2>1. Membership!Done(t) /\ UNCHANGED <<members, idle, blame>>
    BY <1>2 DEF Membership!Insert
  <2> QED
    BY <1>1, <2>1, EndsKeeps DEF Dirty
<1>3. CASE members[a] = Membership!NoRow
  <2>1. /\ members' = [members EXCEPT ![a] = [group |-> g, role |-> "member"]]
        /\ idle' = idle \ {a} /\ Membership!Goto(t, "count") /\ blame \subseteq blame'
        /\ Membership!Inserting(g) = {t} \/ <<"rushed", g>> \in blame'
    BY <1>3 DEF Membership!Insert
  <2>2. CallOK(task[t], groups, notes) /\ Shape
    BY TaskIs
  <2>3. /\ g \in Group /\ groups[g] # Membership!NoGroup /\ a \in Address /\ GroupsOK(groups) /\
            groups[g] \in Membership!Row
        /\ MembersOK(members, groups) /\ idle \subseteq Address /\ party \subseteq Address
        /\ Tokens(g) /\ Crown(g) /\ Capped(g) /\ Gone(g)
    BY <1>1, <2>2, OwnIs DEF CallOK, InGroup, ForAddress
  <2> DEFINE r == [task[t] EXCEPT !.at = "count"]
  <2>4. /\ DOMAIN r = Fields /\ r.at = "count" /\ r.g = g /\ r.row = task[t].row
        /\ r.i = task[t].i /\ r.note = task[t].note /\ r.verdict = task[t].verdict
    BY <2>2, FieldsAre DEF CallOK
  <2>5. Moves(t, r)
    BY <2>1 DEF Membership!Goto, Moves
  <2> HIDE DEF r
  <2>6. DOMAIN task' = Membership!Task /\ task'[t] = r /\ \A u \in Membership!Task : u # t =>
          task'[u] = task[u]
    BY <2>5, MovesIs, TaskIs
  <2>7. CallOK(r, groups', notes)
    BY <1>1, <2>2, <2>3, <2>4 DEF CallOK, InGroup, ForAddress, WithCopy
  <2> PICK k \in Group : k = g
    BY <2>3
  <2>9. /\ MembersOK(members', groups') /\ \A h \in Group \ {g} : SeatsKept(h)
        /\ Membership!MembersOf(k)' = Membership!MembersOf(k) \cup {a} /\ a \notin Membership!MembersOf(k)
        /\ Creators(k)' = Creators(k)
        /\ \A b \in Address : members'[b] # Membership!NoRow => b = a \/ members'[b] = members[b]
    BY <1>1, <1>3, <2>1, <2>3, SeatTaken
  <2>10. ASSUME NEW h \in Group, task[t].g = h PROVE GroupOK(h)'
    <3>0. BlameStays(h) /\ h = g
      BY <2>1, <2>10 DEF BlameStays
    <3>1. /\ Crowning(h)' = Crowning(h) /\ Transferring(h)' = Transferring(h)
          /\ Emptying(h)' = Emptying(h) /\ Founders(h)' = Founders(h)
          /\ \A u \in Crowning(h) : task'[u] = task[u]
      BY <1>1, <2>4, <2>6 DEF Crowning, Transferring, Emptying, Founders, On
    <3>2. t \in Counting(h)' /\ t \in Membership!Inserting(h) /\ t \in Membership!Joining(h)
      BY <1>1, <2>4, <2>6, <2>10
         DEF Counting, On, Membership!Inserting, Membership!Joining, Membership!At
    <3>3. Membership!Inserting(h) = {t} => Membership!Inserting(h)' = {}
      BY <2>4, <2>6 DEF Membership!Inserting, Membership!At
    <3>4. Tokens(h)'
      <4>1. groups'[h] = groups[h] /\ groups[h].token <= groups[h].token
        BY <1>1, <2>3, <3>0 DEF Membership!Row
      <4>2. \A u \in Transferring(h) : task[u].row \in Membership!Row
        BY <2>4, <2>5, RowsOfTransfers
      <4>3. \A u \in Membership!Task : task'[u].row = task[u].row
        BY <2>4, <2>5, RowsOfTransfers
      <4>4. Transferring(h)' \subseteq Membership!Task
        BY DEF Transferring, On
      <4> QED
        BY <1>1, <2>3, <3>0, <3>1, <4>1, <4>2, <4>3, <4>4, TokensFrame
    <3>5. Crown(h)'
      <4>1. Membership!Alive(h)' = Membership!Alive(h) /\ (Sound(h)' => Membership!Alive(h)')
        BY <1>1 DEF Membership!Alive, Sound
      <4> QED
        BY <1>1, <2>3, <2>9, <3>0, <3>1, <4>1, CrownFrame
    <3>6. Counted(h)'
      BY <3>2 DEF Counted
    <3>7. Capped(h)'
      <4> SUFFICES ASSUME Membership!Alive(h)', groups'[h].cap > 0, ~Membership!Blamed({"rushed", "lowered", "stale"}, h)'
                   PROVE  /\ Cardinality(Membership!MembersOf(h)') <= groups'[h].cap
                          /\ Membership!Inserting(h)' # {} =>
                                  Cardinality(Membership!MembersOf(h)') < groups'[h].cap
        BY DEF Capped
      <4>1. <<"rushed", h>> \notin blame' /\ ~Membership!Blamed({"rushed", "lowered", "stale"}, h)
        BY <3>0, BlamedStays DEF Membership!Blamed, Causes
      <4>2. Membership!Inserting(h) = {t} /\ Membership!Inserting(h)' = {}
        BY <2>1, <3>0, <3>3, <4>1
      <4>3. Membership!Alive(h) /\ groups[h].cap > 0 /\ groups'[h] = groups[h]
        BY <1>1 DEF Membership!Alive
      <4>4. Cardinality(Membership!MembersOf(h)) < groups[h].cap
        BY <2>3, <3>0, <4>1, <4>2, <4>3 DEF Capped
      <4>5. Cardinality(Membership!MembersOf(h)') = Cardinality(Membership!MembersOf(h)) + 1
        BY <2>9, <3>0, RosterFinite, FS_AddElement
      <4>6. Cardinality(Membership!MembersOf(h)) \in Nat /\ groups[h].cap \in Nat
        BY <2>3, <3>0, RosterFinite, RosterAssumption
           DEF Membership!Row, Membership!MembershipAssumption
      <4> QED
        BY <4>2, <4>3, <4>4, <4>5, <4>6
    <3>8. Gone(h)'
      <4>1. ASSUME groups'[h] # Membership!NoGroup, groups'[h].dissolved, ~Membership!Blamed({"stale", "outlived", "torn"}, h)'
            PROVE  FALSE
        <5>1. ~Membership!Blamed({"stale", "outlived", "torn"}, h)
          BY <3>0, <4>1, BlamedStays DEF Causes
        <5>2. Membership!Joining(h) = {}
          BY <1>1, <2>3, <3>0, <4>1, <5>1 DEF Gone
        <5> QED
          BY <3>2, <5>2
      <4> QED
        BY <4>1 DEF Gone
    <3> QED
      BY <3>4, <3>5, <3>6, <3>7, <3>8 DEF GroupOK
  <2>11. Membership!OneModeAtATime'
    <3>1. a \in party => <<"crossed", a>> \in blame
      BY <1>1 DEF RosterInv, ApartInv
    <3>2. \A b \in party : members'[b] # Membership!NoRow =>
            \/ members[b] # Membership!NoRow /\ members'[b].group = members[b].group
            \/ <<"crossed", b>> \in blame' \/ <<"stale", members'[b].group>> \in blame'
      BY <2>1, <2>3, <2>9, <3>1
    <3> QED
      BY <1>1, <2>1, <3>2, ModeStep DEF RosterInv
  <2>12. groups'[g] # Membership!NoGroup /\ GroupsOK(groups') /\ idle' \subseteq Address
         /\ \A h \in Group \ {g} : groups'[h] = groups[h]
    BY <1>1, <2>1, <2>3
  <2>13. r.at \in Dirty
    BY <2>4 DEF Dirty
  <2> QED
    BY <1>1, <2>1, <2>3, <2>4, <2>5, <2>7, <2>9, <2>10, <2>11, <2>12, <2>13, WorkKeeps
<1> QED
  BY <1>2, <1>3

-------------------------------------------------------------------------------
(* Rows that are saved from a copy. *)

LEMMA RowWritten ==
  ASSUME GroupsOK(groups), NEW g \in Group, groups[g] # Membership!NoGroup, NEW new \in Membership!Row,
         groups' = [groups EXCEPT ![g] = new]
  PROVE  /\ groups'[g] = new /\ groups'[g] # Membership!NoGroup /\ GroupsOK(groups')
         /\ \A h \in Group \ {g} : groups'[h] = groups[h]
         /\ \A h \in Group : groups[h] # Membership!NoGroup => groups'[h] # Membership!NoGroup
         /\ MembersOK(members, groups) => MembersOK(members, groups')
<1>1. /\ groups'[g] = new /\ groups'[g] # Membership!NoGroup /\ DOMAIN groups' = Group
      /\ \A h \in Group \ {g} : groups'[h] = groups[h]
  BY RowsAre DEF GroupsOK
<1>2. GroupsOK(groups') /\ \A h \in Group : groups[h] # Membership!NoGroup =>
        groups'[h] # Membership!NoGroup
  BY <1>1 DEF GroupsOK
<1>3. \A s \in Membership!Seat : s.group \in Group
  BY RowsAre
<1> QED
  BY <1>1, <1>2, <1>3 DEF MembersOK

\* The calls at the other steps are the same, whoever saves a row and refreshes.
LEMMA OthersOn ==
  ASSUME RosterInv, NEW t \in Membership!Task, NEW r, Moves(t, r), NEW g \in Group,
         task[t].at \notin {"found", "enroll", "last", "bury", "count", "load", "store"},
         r.at \notin {"found", "enroll", "last", "bury", "count", "load", "store", "add", "insert"}
  PROVE  /\ Emptying(g)' = Emptying(g) /\ Founders(g)' = Founders(g) /\ Counting(g)' = Counting(g)
         /\ Membership!Inserting(g)' \subseteq Membership!Inserting(g) /\
                 Membership!Joining(g)' \subseteq Membership!Joining(g)
<1>1. DOMAIN task' = Membership!Task /\ task'[t] = r /\ \A u \in Membership!Task : u # t =>
        task'[u] = task[u]
  BY MovesIs, TaskIs
<1> QED
  BY <1>1
     DEF Emptying, Founders, Counting, On, Membership!Inserting, Membership!Joining,
         Membership!At

LEMMA StoreKeeps ==
  ASSUME RosterInv, NEW t \in Membership!Task, Membership!Store(t)
  PROVE  RosterInv'
<1> DEFINE copy == task[t].row
           new == [copy EXCEPT !.active = ~@]
           r == [task[t] EXCEPT !.at = "read"]
<1>1. /\ task[t].at = "store" /\ groups' = [groups EXCEPT ![task[t].g] = new]
      /\ Moves(t, r) /\ blame \subseteq blame'
      /\ groups[task[t].g] = copy \/ <<"stale", task[t].g>> \in blame'
      /\ \/ Membership!ShouldBeActive(task[t].n) = Membership!ShouldBeActive(Cardinality(Membership!MembersOf(task[t].g)))
         \/ <<"miscount", task[t].g>> \in blame'
      /\ UNCHANGED <<members, notes, addressCache, party, idle, armed, reads, cachedAt>>
  BY CopiesAgree
     DEF Membership!Store, Membership!At, Membership!Goto, Moves, Membership!Miscounted
<1>2. CallOK(task[t], groups, notes) /\ Shape
  BY TaskIs
<1>3. PICK g \in Group : g = task[t].g
  BY <1>1, OwnIs DEF InGroup
<1>4. /\ groups[g] \in Membership!Row /\ groups[g] # Membership!NoGroup /\ GroupsOK(groups) /\
          MembersOK(members, groups)
      /\ Tokens(g) /\ Crown(g) /\ Capped(g) /\ Gone(g)
      /\ Membership!OneModeAtATime /\ idle \subseteq Address
  BY <1>1, <1>3, OwnIs DEF InGroup
<1>5. copy \in Membership!Row /\ copy.active # Membership!ShouldBeActive(task[t].n)
  BY <1>1, <1>2 DEF CallOK, WithCopy
<1>6. /\ new \in Membership!Row /\ new.active = ~copy.active /\ new.dissolved = copy.dissolved
      /\ new.token = copy.token /\ new.creator = copy.creator /\ new.cap = copy.cap
  BY <1>5 DEF Membership!Row
<1>7. /\ DOMAIN r = Fields /\ r.at = "read" /\ r.g = g /\ r.row = task[t].row
      /\ r.i = task[t].i /\ r.note = task[t].note /\ r.verdict = task[t].verdict
  BY <1>2, <1>3, FieldsAre DEF CallOK
<1> HIDE DEF r, new, copy
<1>8. /\ groups'[g] = new /\ groups'[g] # Membership!NoGroup /\ GroupsOK(groups')
      /\ \A h \in Group \ {g} : groups'[h] = groups[h]
      /\ MembersOK(members', groups')
  BY <1>1, <1>3, <1>4, <1>6, RowWritten
<1>9. CallOK(r, groups', notes)
  BY <1>1, <1>2, <1>3, <1>7, <1>8 DEF CallOK, InGroup, ForAddress, WithCopy
<1>10. DOMAIN task' = Membership!Task /\ task'[t] = r /\ \A u \in Membership!Task : u # t =>
        task'[u] = task[u]
  BY <1>1, MovesIs, TaskIs
<1>11. BlameStays(g) /\ \A h : SeatsKept(h) /\
        Membership!MembersOf(h)' = Membership!MembersOf(h) /\ Creators(h)' = Creators(h)
  BY <1>1, StillSeats DEF BlameStays
<1>12. GroupOK(g)'
  <2>1. CASE groups[g] # copy
    BY <1>1, <1>3, <2>1, StaleIsOK
  <2>2. CASE groups[g] = copy
    <3>1. /\ Crowning(g)' = Crowning(g) /\ Transferring(g)' = Transferring(g)
          /\ Emptying(g)' = Emptying(g) /\ Founders(g)' = Founders(g)
          /\ Membership!Inserting(g)' = Membership!Inserting(g) /\
                  Membership!Joining(g)' = Membership!Joining(g)
          /\ \A u \in Crowning(g) : task'[u] = task[u]
      BY <1>1, <1>7, <1>10
         DEF Crowning, Transferring, Emptying, Founders, On, Membership!Inserting,
             Membership!Joining, Membership!At
    <3>2. Membership!Alive(g)' = Membership!Alive(g) /\ (Sound(g)' => Membership!Alive(g)')
      BY <1>4, <1>6, <1>8, <2>2 DEF Membership!Alive, Sound
    <3>3. Tokens(g)'
      <4>1. groups'[g] \in Membership!Row /\ groups[g].token <= groups'[g].token
        BY <1>4, <1>6, <1>8, <2>2 DEF Membership!Row
      <4>2. \A u \in Transferring(g) : task[u].row \in Membership!Row
        BY <1>1, <1>7, RowsOfTransfers
      <4>3. \A u \in Transferring(g)' : task'[u].row = task[u].row
        BY <1>1, <1>7, RowsOfTransfers DEF Transferring, On
      <4> QED
        BY <1>4, <1>11, <3>1, <4>1, <4>2, <4>3, TokensFrame
    <3>4. Crown(g)'
      BY <1>4, <1>6, <1>8, <1>11, <2>2, <3>1, <3>2, CrownFrame
    <3>5. Counted(g)'
      <4> SUFFICES ASSUME ~Membership!Blamed({"miscount"}, g)'
                   PROVE  groups'[g].active = Membership!ShouldBeActive(Cardinality(Membership!MembersOf(g)'))
        BY DEF Counted, Membership!ShouldBeActive
      <4>1. Membership!ShouldBeActive(task[t].n) = Membership!ShouldBeActive(Cardinality(Membership!MembersOf(g)))
        BY <1>1, <1>3 DEF Membership!Blamed
      <4>2. ~copy.active <=> Membership!ShouldBeActive(task[t].n)
        BY <1>5 DEF Membership!Row, Membership!ShouldBeActive
      <4>3. groups'[g].active = ~copy.active
        BY <1>6, <1>8
      <4>4. copy.active \in BOOLEAN /\ Membership!ShouldBeActive(task[t].n) \in BOOLEAN
        BY <1>5 DEF Membership!Row, Membership!ShouldBeActive
      <4> QED
        BY <1>11, <4>1, <4>2, <4>3, <4>4
    <3>6. Capped(g)'
      BY <1>4, <1>6, <1>8, <1>11, <2>2, <3>1, <3>2, CappedFrame
    <3>7. Gone(g)'
      BY <1>4, <1>6, <1>8, <1>11, <2>2, <3>1, GoneFrame
    <3> QED
      BY <3>3, <3>4, <3>5, <3>6, <3>7 DEF GroupOK
  <2> QED
    BY <2>1, <2>2
<1>13. Membership!OneModeAtATime'
  BY <1>1, <1>4, ModeStep
<1>14. \A h \in Group : task[t].g = h => GroupOK(h)'
  BY <1>3, <1>12
<1>15. r.at \in Dirty
  BY <1>7 DEF Dirty
<1> QED
  BY <1>1, <1>3, <1>4, <1>7, <1>8, <1>9, <1>11, <1>13, <1>14, <1>15, WorkKeeps

LEMMA HandOverKeeps ==
  ASSUME RosterInv, NEW t \in Membership!Task, Membership!HandOver(t)
  PROVE  RosterInv'
<1> DEFINE copy == task[t].row
           new == Membership!Handed(copy, task[t].a)
           r == [task[t] EXCEPT !.at = "read"]
<1>1. /\ task[t].at = "hand" /\ groups' = [groups EXCEPT ![task[t].g] = new]
      /\ Moves(t, r) /\ blame \subseteq blame'
      /\ groups[task[t].g] = copy \/ <<"stale", task[t].g>> \in blame'
      /\ UNCHANGED <<members, notes, addressCache, party, idle, armed, reads, cachedAt>>
  BY DEF Membership!HandOver, Membership!SaveGroup, Membership!At, Membership!Goto, Moves
<1>2. CallOK(task[t], groups, notes) /\ Shape
  BY TaskIs
<1>3. PICK g \in Group : g = task[t].g
  BY <1>1, OwnIs DEF InGroup
<1>4. /\ groups[g] \in Membership!Row /\ groups[g] # Membership!NoGroup /\ GroupsOK(groups) /\
          MembersOK(members, groups)
      /\ Tokens(g) /\ Crown(g) /\ Counted(g) /\ Capped(g) /\ Gone(g)
      /\ Membership!OneModeAtATime /\ idle \subseteq Address
  BY <1>1, <1>3, OwnIs DEF InGroup
<1>5. copy \in Membership!Row /\ task[t].a \in Address
  BY <1>1, <1>2 DEF CallOK, WithCopy, ForAddress
<1>6. /\ new \in Membership!Row /\ new.active = copy.active /\ new.dissolved = copy.dissolved
      /\ new.token = copy.token + 1 /\ new.creator = task[t].a /\ new.cap = copy.cap
      /\ copy.token \in Nat
  <2>1. copy.token \in Nat \ {0}
    BY <1>5 DEF Membership!Row
  <2>2. copy.token + 1 \in Nat \ {0}
    BY <2>1
  <2> QED
    BY <1>5, <2>1, <2>2 DEF Membership!Handed, Membership!Row
<1>7. /\ DOMAIN r = Fields /\ r.at = "read" /\ r.g = g /\ r.row = task[t].row
      /\ r.i = task[t].i /\ r.note = task[t].note /\ r.verdict = task[t].verdict
  BY <1>2, <1>3, FieldsAre DEF CallOK
<1> HIDE DEF r, new, copy
<1>8. /\ groups'[g] = new /\ groups'[g] # Membership!NoGroup /\ GroupsOK(groups')
      /\ \A h \in Group \ {g} : groups'[h] = groups[h]
      /\ MembersOK(members', groups')
  BY <1>1, <1>3, <1>4, <1>6, RowWritten
<1>9. CallOK(r, groups', notes)
  BY <1>1, <1>2, <1>3, <1>7, <1>8 DEF CallOK, InGroup, ForAddress, WithCopy
<1>10. DOMAIN task' = Membership!Task /\ task'[t] = r /\ \A u \in Membership!Task : u # t =>
        task'[u] = task[u]
  BY <1>1, MovesIs, TaskIs
<1>11. BlameStays(g) /\ \A h : SeatsKept(h) /\
        Membership!MembersOf(h)' = Membership!MembersOf(h) /\ Creators(h)' = Creators(h)
  BY <1>1, StillSeats DEF BlameStays
<1>12. GroupOK(g)'
  <2>1. CASE groups[g] # copy
    BY <1>1, <1>3, <2>1, StaleIsOK
  <2>2. CASE groups[g] = copy
    <3>1. /\ Emptying(g)' = Emptying(g) /\ Founders(g)' = Founders(g) /\ Counting(g)' = Counting(g)
          /\ Membership!Inserting(g)' \subseteq Membership!Inserting(g) /\
                  Membership!Joining(g)' \subseteq Membership!Joining(g)
      BY <1>1, <1>7, OthersOn
    <3>2. Membership!Alive(g)' = Membership!Alive(g) /\ (Sound(g)' => Membership!Alive(g)')
      BY <1>4, <1>6, <1>8, <2>2 DEF Membership!Alive, Sound
    <3>3. Tokens(g)'
      <4>1. groups'[g] \in Membership!Row /\ groups[g].token <= groups'[g].token
        BY <1>4, <1>6, <1>8, <2>2
      <4>2. \A u \in Transferring(g) : task[u].row \in Membership!Row
        BY <1>1, <1>7, RowsOfTransfers DEF copy
      <4>3. /\ Transferring(g)' \subseteq Transferring(g)
            /\ \A u \in Transferring(g)' : task'[u].row = task[u].row
        BY <1>7, <1>10 DEF Transferring, On
      <4> QED
        BY <1>4, <1>11, <4>1, <4>2, <4>3, TokensFrame
    <3>4. Crown(g)'
      <4> SUFFICES ASSUME Sound(g)', ~Outdated(g)'
                   PROVE  /\ Crowning(g)' = {} => Creators(g)' = {groups'[g].creator}
                          /\ \A u \in Crowning(g)' : Crowning(g)' = {u} =>
                              Creators(g)' = IF task'[u].at = "promote" THEN {} ELSE {task'[u].a}
        BY DEF Crown
      <4>1. Crowning(g)' = Crowning(g) \ {t} /\ t \in Crowning(g)
        BY <1>1, <1>3, <1>7, <1>10 DEF Crowning, On
      <4>2. ~Membership!Blamed({"stale", "torn", "orphan"}, g) /\
              ~Membership!Blamed({"stale"}, g) /\ Sound(g)
        <5>1. ~Membership!Blamed({"stale", "torn", "orphan"}, g)
          BY <1>11, BlamedStays DEF Sound, Causes
        <5> QED
          BY <3>1, <3>2, <5>1 DEF Sound, Membership!Blamed
      <4>3. Crowning(g)' = {}
        <5> SUFFICES ASSUME NEW u \in Crowning(g)' PROVE FALSE
          OBVIOUS
        <5>1. u \in Crowning(g) /\ u # t /\ task'[u] = task[u]
          BY <1>10, <4>1 DEF Crowning, On
        <5>2. u \in Transferring(g)
          BY <5>1 DEF Crowning, Transferring, On
        <5>3. task[u].row.token <= groups[g].token
          BY <1>4, <4>2, <5>2 DEF Tokens
        <5>4. task[u].row \in Membership!Row
          BY <1>1, <1>7, <5>2, RowsOfTransfers DEF copy
        <5>5. task[u].row.token \in Nat
          BY <5>4 DEF Membership!Row
        <5>6. task'[u].row.token # groups'[g].token
          BY <1>6, <1>8, <2>2, <5>1, <5>3, <5>5
        <5> QED
          BY <5>6 DEF Outdated
      <4>4. Crowning(g) = {t} /\ ~Outdated(g)
        BY <2>2, <4>1, <4>3 DEF Outdated, copy
      <4>5. Creators(g) = {task[t].a}
        BY <1>1, <1>4, <4>1, <4>2, <4>4 DEF Crown
      <4> HIDE DEF Crowning, Creators
      <4> QED
        BY <1>6, <1>8, <1>11, <4>3, <4>5
    <3>5. Counted(g)'
      BY <1>4, <1>6, <1>8, <1>11, <2>2, <3>1, <3>2, CountedFrame
    <3>6. Capped(g)'
      BY <1>4, <1>6, <1>8, <1>11, <2>2, <3>1, <3>2, CappedFrame
    <3>7. Gone(g)'
      BY <1>4, <1>6, <1>8, <1>11, <2>2, <3>1, GoneFrame
    <3> QED
      BY <3>3, <3>4, <3>5, <3>6, <3>7 DEF GroupOK
  <2> QED
    BY <2>1, <2>2
<1>13. Membership!OneModeAtATime'
  BY <1>1, <1>4, ModeStep
<1>14. \A h \in Group : task[t].g = h => GroupOK(h)'
  BY <1>3, <1>12
<1>15. r.at \in Dirty
  BY <1>7 DEF Dirty
<1> QED
  BY <1>1, <1>3, <1>4, <1>7, <1>8, <1>9, <1>11, <1>13, <1>14, <1>15, WorkKeeps

LEMMA BuryKeeps ==
  ASSUME RosterInv, NEW t \in Membership!Task, Membership!Bury(t)
  PROVE  RosterInv'
<1> DEFINE copy == task[t].row
           new == [copy EXCEPT !.active = FALSE, !.dissolved = TRUE]
           r == [task[t] EXCEPT !.at = "read"]
<1>1. /\ task[t].at = "bury" /\ groups' = [groups EXCEPT ![task[t].g] = new]
      /\ Moves(t, r) /\ blame \subseteq blame'
      /\ groups[task[t].g] = copy \/ <<"stale", task[t].g>> \in blame'
      /\ \/ Membership!Joining(task[t].g) = {} /\ Membership!MembersOf(task[t].g) = {}
         \/ <<"outlived", task[t].g>> \in blame'
      /\ UNCHANGED <<members, notes, addressCache, party, idle, armed, reads, cachedAt>>
  BY DEF Membership!Bury, Membership!At, Membership!Goto, Moves
<1>2. CallOK(task[t], groups, notes) /\ Shape
  BY TaskIs
<1>3. PICK g \in Group : g = task[t].g
  BY <1>1, OwnIs DEF InGroup
<1>4. /\ groups[g] \in Membership!Row /\ groups[g] # Membership!NoGroup /\ GroupsOK(groups) /\
          MembersOK(members, groups)
      /\ Tokens(g) /\ Membership!OneModeAtATime /\ idle \subseteq Address
  BY <1>1, <1>3, OwnIs DEF InGroup
<1>5. copy \in Membership!Row
  BY <1>1, <1>2 DEF CallOK, WithCopy
<1>6. new \in Membership!Row /\ new.dissolved = TRUE /\ new.token = copy.token
  BY <1>5 DEF Membership!Row
<1>7. /\ DOMAIN r = Fields /\ r.at = "read" /\ r.g = g /\ r.row = task[t].row
      /\ r.i = task[t].i /\ r.note = task[t].note /\ r.verdict = task[t].verdict
  BY <1>2, <1>3, FieldsAre DEF CallOK
<1> HIDE DEF r, new, copy
<1>8. /\ groups'[g] = new /\ groups'[g] # Membership!NoGroup /\ GroupsOK(groups')
      /\ \A h \in Group \ {g} : groups'[h] = groups[h]
      /\ MembersOK(members', groups')
  BY <1>1, <1>3, <1>4, <1>6, RowWritten
<1>9. CallOK(r, groups', notes)
  BY <1>1, <1>2, <1>3, <1>7, <1>8 DEF CallOK, InGroup, ForAddress, WithCopy
<1>10. DOMAIN task' = Membership!Task /\ task'[t] = r /\ \A u \in Membership!Task : u # t =>
        task'[u] = task[u]
  BY <1>1, MovesIs, TaskIs
<1>11. BlameStays(g) /\ \A h : SeatsKept(h) /\ Membership!MembersOf(h)' = Membership!MembersOf(h)
  BY <1>1, StillSeats DEF BlameStays
<1>12. GroupOK(g)'
  <2>1. CASE groups[g] # copy
    BY <1>1, <1>3, <2>1, StaleIsOK
  <2>2. CASE groups[g] = copy
    <3>1. ~Membership!Alive(g)' /\ ~Sound(g)'
      BY <1>6, <1>8 DEF Membership!Alive, Sound
    <3>2. Crown(g)' /\ Counted(g)' /\ Capped(g)'
      BY <3>1 DEF Crown, Counted, Capped
    <3>3. Tokens(g)'
      <4>1. groups'[g] \in Membership!Row /\ groups[g].token <= groups'[g].token
        BY <1>4, <1>6, <1>8, <2>2 DEF Membership!Row
      <4>2. \A u \in Transferring(g) : task[u].row \in Membership!Row
        BY <1>1, <1>7, RowsOfTransfers DEF copy
      <4>3. /\ Transferring(g)' \subseteq Transferring(g)
            /\ \A u \in Transferring(g)' : task'[u].row = task[u].row
        BY <1>7, <1>10 DEF Transferring, On
      <4> QED
        BY <1>4, <1>11, <4>1, <4>2, <4>3, TokensFrame
    <3>4. Membership!Joining(g)' \subseteq Membership!Joining(g)
      BY <1>7, <1>10 DEF Membership!Joining
    <3>5. Gone(g)'
      BY <1>1, <1>3, <1>11, <3>4 DEF Gone, Membership!Blamed
    <3> QED
      BY <3>2, <3>3, <3>5 DEF GroupOK
  <2> QED
    BY <2>1, <2>2
<1>13. Membership!OneModeAtATime'
  BY <1>1, <1>4, ModeStep
<1>14. \A h \in Group : task[t].g = h => GroupOK(h)'
  BY <1>3, <1>12
<1>15. r.at \in Dirty
  BY <1>7 DEF Dirty
<1> QED
  BY <1>1, <1>3, <1>4, <1>7, <1>8, <1>9, <1>11, <1>13, <1>14, <1>15, WorkKeeps

-------------------------------------------------------------------------------
(* Seats that are written from a copy, or given up. *)

\* Who saves a seat of a group writes over that seat, or over none.
LEMMA SeatSaved ==
  ASSUME MembersOK(members, groups), NEW g \in Group, groups[g] # Membership!NoGroup, groups' = groups,
         NEW a \in Address, NEW copy, copy.group = g, copy = [group |-> g, role |-> copy.role],
         NEW role \in {"creator", "member"}, Membership!SaveMember(a, copy, role)
  PROVE  /\ MembersOK(members', groups') /\ \A h \in Group \ {g} : SeatsKept(h)
         /\ blame \subseteq blame' /\ (members[a] = copy \/ <<"stale", g>> \in blame')
         /\ members'[a] = [group |-> g, role |-> role]
         /\ \A b \in Address : b # a => members'[b] = members[b]
         /\ members[a] = copy =>
              /\ Membership!MembersOf(g)' = Membership!MembersOf(g) /\ a \in Membership!MembersOf(g)
              /\ Creators(g)' = IF role = "creator" THEN Creators(g) \cup {a} ELSE Creators(g) \ {a}
<1>0. [copy EXCEPT !.role = role] = [group |-> g, role |-> role]
  OBVIOUS
<1>1. /\ DOMAIN members' = Address /\ members'[a] = [group |-> g, role |-> role]
      /\ \A b \in Address : b # a => members'[b] = members[b]
      /\ members[a].group \in {g, None}
  BY <1>0 DEF MembersOK, Membership!SaveMember
<1>2. [group |-> g, role |-> role] \in Membership!Seat /\ None \notin Group
  BY RowsAre DEF Membership!Seat
<1>3. MembersOK(members', groups')
  BY <1>1, <1>2 DEF MembersOK
<1>4. \A h \in Group \ {g} : SeatsKept(h)
  BY <1>1, <1>2 DEF SeatsKept, MembersOK
<1>5. blame \subseteq blame' /\ (members[a] = copy \/ <<"stale", g>> \in blame')
  BY DEF Membership!SaveMember
<1>6. ASSUME members[a] = copy
      PROVE  /\ Membership!MembersOf(g)' = Membership!MembersOf(g) /\ a \in Membership!MembersOf(g)
             /\ Creators(g)' = IF role = "creator" THEN Creators(g) \cup {a} ELSE Creators(g) \ {a}
  <2>1. Membership!MembersOf(g)' = Membership!MembersOf(g) /\ a \in Membership!MembersOf(g)
    BY <1>1, <1>6 DEF Membership!MembersOf
  <2>2. Creators(g)' = {b \in Membership!MembersOf(g)' : members'[b].role = "creator"}
    BY DEF Creators
  <2> QED
    BY <1>1, <2>1, <2>2 DEF Creators, Membership!MembersOf
<1> QED
  BY <1>1, <1>3, <1>4, <1>5, <1>6

LEMMA DemoteKeeps ==
  ASSUME RosterInv, NEW t \in Membership!Task, Membership!Demote(t)
  PROVE  RosterInv'
<1> DEFINE copy == task[t].old
           from == task[t].from
           r == [task[t] EXCEPT !.at = "promote"]
<1>1. /\ task[t].at = "demote" /\ Moves(t, r) /\ Membership!SaveMember(from, copy, "member")
      /\ UNCHANGED <<groups, notes, addressCache, party, idle, armed, reads, cachedAt>>
  BY DEF Membership!Demote, Membership!At, Membership!Goto, Moves
<1>2. CallOK(task[t], groups, notes) /\ Shape
  BY TaskIs
<1>3. PICK g \in Group : g = task[t].g
  BY <1>1, OwnIs DEF InGroup
<1>4. /\ groups[g] \in Membership!Row /\ groups[g] # Membership!NoGroup /\ GroupsOK(groups) /\
          MembersOK(members, groups)
      /\ Tokens(g) /\ Crown(g) /\ Counted(g) /\ Capped(g) /\ Gone(g)
      /\ Membership!OneModeAtATime /\ idle \subseteq Address
  BY <1>1, <1>3, OwnIs DEF InGroup
<1>5. from \in Address /\ copy = [group |-> g, role |-> "creator"]
  BY <1>1, <1>2, <1>3 DEF CallOK
<1>7. /\ DOMAIN r = Fields /\ r.at = "promote" /\ r.g = g /\ r.row = task[t].row /\ r.a = task[t].a
      /\ r.i = task[t].i /\ r.note = task[t].note /\ r.verdict = task[t].verdict
      /\ r.new = task[t].new /\ r.op = task[t].op
  BY <1>2, <1>3, FieldsAre DEF CallOK
<1> HIDE DEF r, copy, from
<1>8. /\ MembersOK(members', groups') /\ \A h \in Group \ {g} : SeatsKept(h)
      /\ blame \subseteq blame' /\ (members[from] = copy \/ <<"stale", g>> \in blame')
      /\ members'[from] = [group |-> g, role |-> "member"]
      /\ \A b \in Address : b # from => members'[b] = members[b]
      /\ members[from] = copy =>
           Membership!MembersOf(g)' = Membership!MembersOf(g) /\
                   from \in Membership!MembersOf(g) /\ Creators(g)' = Creators(g) \ {from}
  BY <1>1, <1>4, <1>5, SeatSaved
<1>9. CallOK(r, groups', notes)
  BY <1>1, <1>2, <1>3, <1>7 DEF CallOK, InGroup, ForAddress, WithCopy
<1>10. DOMAIN task' = Membership!Task /\ task'[t] = r /\ \A u \in Membership!Task : u # t =>
        task'[u] = task[u]
  BY <1>1, MovesIs, TaskIs
<1>11. BlameStays(g)
  BY <1>8 DEF BlameStays
<1>12. GroupOK(g)'
  <2>1. CASE members[from] # copy
    BY <1>8, <2>1, StaleIsOK
  <2>2. CASE members[from] = copy
    <3>1. /\ Emptying(g)' = Emptying(g) /\ Founders(g)' = Founders(g) /\ Counting(g)' = Counting(g)
          /\ Membership!Inserting(g)' \subseteq Membership!Inserting(g) /\
                  Membership!Joining(g)' \subseteq Membership!Joining(g)
      BY <1>1, <1>7, OthersOn
    <3>2. Membership!Alive(g)' = Membership!Alive(g) /\ (Sound(g)' => Membership!Alive(g)') /\
            groups'[g] = groups[g]
      BY <1>1 DEF Membership!Alive, Sound
    <3>3. Tokens(g)'
      <4>1. groups'[g] \in Membership!Row /\ groups[g].token <= groups'[g].token
        BY <1>4, <3>2 DEF Membership!Row
      <4>2. \A u \in Transferring(g) : task[u].row \in Membership!Row
        BY <1>1, <1>7, RowsOfTransfers
      <4>3. /\ Transferring(g)' \subseteq Transferring(g)
            /\ \A u \in Transferring(g)' : task'[u].row = task[u].row
        BY <1>1, <1>3, <1>7, <1>10 DEF Transferring, On
      <4> QED
        BY <1>4, <1>11, <4>1, <4>2, <4>3, TokensFrame
    <3>4. Crown(g)'
      <4> SUFFICES ASSUME Sound(g)', ~Outdated(g)'
                   PROVE  /\ Crowning(g)' = {} => Creators(g)' = {groups'[g].creator}
                          /\ \A u \in Crowning(g)' : Crowning(g)' = {u} =>
                              Creators(g)' = IF task'[u].at = "promote" THEN {} ELSE {task'[u].a}
        BY DEF Crown
      <4>1. Crowning(g)' = Crowning(g) \cup {t} /\ t \notin Crowning(g)
        BY <1>1, <1>3, <1>7, <1>10 DEF Crowning, On
      <4>2. Sound(g)
        <5>1. ~Membership!Blamed({"stale", "torn", "orphan"}, g)
          BY <1>11, BlamedStays DEF Sound, Causes
        <5> QED
          BY <3>1, <3>2, <5>1 DEF Sound
      <4>3. ASSUME Crowning(g) = {} PROVE Creators(g)' = {}
        <5>1. ~Outdated(g)
          BY <4>3 DEF Outdated
        <5>2. Creators(g) = {groups[g].creator}
          BY <1>4, <4>2, <4>3, <5>1 DEF Crown
        <5>3. from \in Creators(g)
          BY <1>5, <1>8, <2>2 DEF Creators
        <5> QED
          BY <1>8, <2>2, <5>2, <5>3
      <4>4. task'[t].at = "promote"
        BY <1>7, <1>10
      <4> HIDE DEF Crowning, Creators
      <4>5. Crowning(g)' # {}
        BY <4>1
      <4>6. ASSUME NEW u \in Crowning(g)', Crowning(g)' = {u}
            PROVE  u = t /\ Creators(g)' = {}
        <5>1. u = t /\ Crowning(g) = {}
          BY <4>1, <4>6
        <5> QED
          BY <4>3, <5>1
      <4> QED
        BY <4>4, <4>5, <4>6
    <3>5. Counted(g)'
      BY <1>4, <1>8, <1>11, <2>2, <3>1, <3>2, CountedFrame
    <3>6. Capped(g)'
      BY <1>4, <1>8, <1>11, <2>2, <3>1, <3>2, CappedFrame
    <3>7. Gone(g)'
      BY <1>4, <1>8, <1>11, <2>2, <3>1, <3>2, GoneFrame
    <3> QED
      BY <3>3, <3>4, <3>5, <3>6, <3>7 DEF GroupOK
  <2> QED
    BY <2>1, <2>2
<1>13. Membership!OneModeAtATime'
  <2>1. \A b \in party : members'[b] # Membership!NoRow =>
            \/ members[b] # Membership!NoRow /\ members'[b].group = members[b].group
            \/ <<"crossed", b>> \in blame' \/ <<"stale", members'[b].group>> \in blame'
    <3>1. ASSUME members[from] = copy PROVE members[from] # Membership!NoRow /\
            members'[from].group = members[from].group
      <4>1. members[from].role = "creator" /\ members[from].group = g
        BY <1>5, <3>1
      <4>2. g # None
        BY RowsAre
      <4> QED
        BY <1>8, <4>1, <4>2 DEF Membership!NoRow
    <3>2. <<"stale", g>> \in blame' => <<"stale", members'[from].group>> \in blame'
      BY <1>8
    <3>3. party \subseteq Address
      BY <1>2 DEF Shape, RestOK
    <3> QED
      BY <1>8, <3>1, <3>2, <3>3
  <2> QED
    BY <1>1, <1>4, <1>8, <2>1, ModeStep
<1>14. \A h \in Group : task[t].g = h => GroupOK(h)'
  BY <1>3, <1>12
<1>15. r.at \in Dirty /\ GroupsOK(groups') /\ groups'[g] # Membership!NoGroup /\ idle' \subseteq Address
       /\ \A h \in Group \ {g} : groups'[h] = groups[h]
  BY <1>1, <1>4, <1>7 DEF Dirty
<1> QED
  BY <1>1, <1>3, <1>7, <1>8, <1>9, <1>13, <1>14, <1>15, WorkKeeps

LEMMA PromoteKeeps ==
  ASSUME RosterInv, NEW t \in Membership!Task, Membership!Promote(t)
  PROVE  RosterInv'
<1> DEFINE copy == task[t].new
           a == task[t].a
           r == [task[t] EXCEPT !.at = "hand"]
<1>1. /\ task[t].at = "promote" /\ Moves(t, r) /\ Membership!SaveMember(a, copy, "creator")
      /\ UNCHANGED <<groups, notes, addressCache, party, idle, armed, reads, cachedAt>>
  BY DEF Membership!Promote, Membership!At, Membership!Goto, Moves
<1>2. CallOK(task[t], groups, notes) /\ Shape
  BY TaskIs
<1>3. PICK g \in Group : g = task[t].g
  BY <1>1, OwnIs DEF InGroup
<1>4. /\ groups[g] \in Membership!Row /\ groups[g] # Membership!NoGroup /\ GroupsOK(groups) /\
          MembersOK(members, groups)
      /\ Tokens(g) /\ Crown(g) /\ Counted(g) /\ Capped(g) /\ Gone(g)
      /\ Membership!OneModeAtATime /\ idle \subseteq Address
  BY <1>1, <1>3, OwnIs DEF InGroup
<1>5. a \in Address /\ copy = [group |-> g, role |-> "member"]
  BY <1>1, <1>2, <1>3 DEF CallOK, ForAddress
<1>7. /\ DOMAIN r = Fields /\ r.at = "hand" /\ r.g = g /\ r.row = task[t].row /\ r.a = a
      /\ r.i = task[t].i /\ r.note = task[t].note /\ r.verdict = task[t].verdict
      /\ r.op = task[t].op
  BY <1>2, <1>3, FieldsAre DEF CallOK
<1> HIDE DEF r, copy
<1>8. /\ MembersOK(members', groups') /\ \A h \in Group \ {g} : SeatsKept(h)
      /\ blame \subseteq blame' /\ (members[a] = copy \/ <<"stale", g>> \in blame')
      /\ members'[a] = [group |-> g, role |-> "creator"]
      /\ \A b \in Address : b # a => members'[b] = members[b]
      /\ members[a] = copy =>
           Membership!MembersOf(g)' = Membership!MembersOf(g) /\ a \in Membership!MembersOf(g) /\
                   Creators(g)' = Creators(g) \cup {a}
  BY <1>1, <1>4, <1>5, SeatSaved
<1>9. CallOK(r, groups', notes)
  BY <1>1, <1>2, <1>3, <1>7 DEF CallOK, InGroup, ForAddress, WithCopy
<1>10. DOMAIN task' = Membership!Task /\ task'[t] = r /\ \A u \in Membership!Task : u # t =>
        task'[u] = task[u]
  BY <1>1, MovesIs, TaskIs
<1>11. BlameStays(g)
  BY <1>8 DEF BlameStays
<1>12. GroupOK(g)'
  <2>1. CASE members[a] # copy
    BY <1>8, <2>1, StaleIsOK
  <2>2. CASE members[a] = copy
    <3>1. /\ Emptying(g)' = Emptying(g) /\ Founders(g)' = Founders(g) /\ Counting(g)' = Counting(g)
          /\ Membership!Inserting(g)' \subseteq Membership!Inserting(g) /\
                  Membership!Joining(g)' \subseteq Membership!Joining(g)
      BY <1>1, <1>7, OthersOn
    <3>2. Membership!Alive(g)' = Membership!Alive(g) /\ (Sound(g)' => Membership!Alive(g)') /\
            groups'[g] = groups[g]
      BY <1>1 DEF Membership!Alive, Sound
    <3>3. Tokens(g)'
      <4>1. groups'[g] \in Membership!Row /\ groups[g].token <= groups'[g].token
        BY <1>4, <3>2 DEF Membership!Row
      <4>2. \A u \in Transferring(g) : task[u].row \in Membership!Row
        BY <1>1, <1>7, RowsOfTransfers
      <4>3. /\ Transferring(g)' \subseteq Transferring(g)
            /\ \A u \in Transferring(g)' : task'[u].row = task[u].row
        BY <1>1, <1>3, <1>7, <1>10 DEF Transferring, On
      <4> QED
        BY <1>4, <1>11, <4>1, <4>2, <4>3, TokensFrame
    <3>4. Crown(g)'
      <4> SUFFICES ASSUME Sound(g)', ~Outdated(g)'
                   PROVE  /\ Crowning(g)' = {} => Creators(g)' = {groups'[g].creator}
                          /\ \A u \in Crowning(g)' : Crowning(g)' = {u} =>
                              Creators(g)' = IF task'[u].at = "promote" THEN {} ELSE {task'[u].a}
        BY DEF Crown
      <4>1. Crowning(g)' = Crowning(g) /\ t \in Crowning(g) /\
              \A u \in Membership!Task : task'[u].row = task[u].row
        BY <1>1, <1>3, <1>7, <1>10 DEF Crowning, On
      <4>2. Sound(g) /\ ~Outdated(g)
        <5>1. ~Membership!Blamed({"stale", "torn", "orphan"}, g)
          BY <1>11, BlamedStays DEF Sound, Causes
        <5>2. Crowning(g) \subseteq Membership!Task
          BY DEF Crowning, On
        <5>3. ~Outdated(g)
          BY <3>2, <4>1, <5>2 DEF Outdated
        <5> QED
          BY <3>1, <3>2, <5>1, <5>3 DEF Sound
      <4>3. ASSUME Crowning(g) = {t} PROVE Creators(g)' = {a}
        <5>1. Creators(g) = {}
          BY <1>1, <1>4, <4>2, <4>3 DEF Crown
        <5> QED
          BY <1>8, <2>2, <5>1
      <4>4. task'[t].at = "hand" /\ task'[t].a = a
        BY <1>7, <1>10
      <4> HIDE DEF Crowning, Creators, a
      <4>5. Crowning(g)' # {}
        BY <4>1
      <4>6. ASSUME NEW u \in Crowning(g)', Crowning(g)' = {u}
            PROVE  u = t /\ Creators(g)' = {a}
        <5>1. u = t /\ Crowning(g) = {t}
          BY <4>1, <4>6
        <5> QED
          BY <4>3, <5>1
      <4> QED
        BY <4>4, <4>5, <4>6
    <3>5. Counted(g)'
      BY <1>4, <1>8, <1>11, <2>2, <3>1, <3>2, CountedFrame
    <3>6. Capped(g)'
      BY <1>4, <1>8, <1>11, <2>2, <3>1, <3>2, CappedFrame
    <3>7. Gone(g)'
      BY <1>4, <1>8, <1>11, <2>2, <3>1, <3>2, GoneFrame
    <3> QED
      BY <3>3, <3>4, <3>5, <3>6, <3>7 DEF GroupOK
  <2> QED
    BY <2>1, <2>2
<1>13. Membership!OneModeAtATime'
  <2>1. \A b \in party : members'[b] # Membership!NoRow =>
            \/ members[b] # Membership!NoRow /\ members'[b].group = members[b].group
            \/ <<"crossed", b>> \in blame' \/ <<"stale", members'[b].group>> \in blame'
    <3>1. ASSUME members[a] = copy PROVE members[a] # Membership!NoRow /\
            members'[a].group = members[a].group
      <4>1. members[a].role = "member" /\ members[a].group = g
        BY <1>5, <3>1
      <4>2. g # None
        BY RowsAre
      <4> QED
        BY <1>8, <4>1, <4>2 DEF Membership!NoRow
    <3>2. <<"stale", g>> \in blame' => <<"stale", members'[a].group>> \in blame'
      BY <1>8
    <3>3. party \subseteq Address
      BY <1>2 DEF Shape, RestOK
    <3> QED
      BY <1>8, <3>1, <3>2, <3>3
  <2> QED
    BY <1>1, <1>4, <1>8, <2>1, ModeStep
<1>14. \A h \in Group : task[t].g = h => GroupOK(h)'
  BY <1>3, <1>12
<1>15. r.at \in Dirty /\ GroupsOK(groups') /\ groups'[g] # Membership!NoGroup /\ idle' \subseteq Address
       /\ \A h \in Group \ {g} : groups'[h] = groups[h]
  BY <1>1, <1>4, <1>7 DEF Dirty
<1> QED
  BY <1>1, <1>3, <1>7, <1>8, <1>9, <1>13, <1>14, <1>15, WorkKeeps

\* A seat is given up.
LEMMA RemoveKeeps ==
  ASSUME RosterInv, NEW t \in Membership!Task, Membership!Remove(t)
  PROVE  RosterInv'
<1> DEFINE a == task[t].a
           r == [task[t] EXCEPT !.at = "read"]
<1>1. /\ task[t].at = "remove" /\ Moves(t, r) /\ blame \subseteq blame'
      /\ members' = [members EXCEPT ![a] = IF @.group = task[t].g THEN Membership!NoRow ELSE @]
      /\ groups' = [groups EXCEPT ![task[t].g] = Membership!Recount(task[t].g,
              Membership!MembersOf(task[t].g) \ {a})]
      /\ members[a].role = "creator" => <<"stale", task[t].g>> \in blame'
      /\ UNCHANGED <<notes, addressCache, party, idle, armed, reads, cachedAt>>
  BY DEF Membership!Remove, Membership!At, Membership!Goto, Moves
<1>2. CallOK(task[t], groups, notes) /\ Shape
  BY TaskIs
<1>3. PICK g \in Group : g = task[t].g
  BY <1>1, OwnIs DEF InGroup
<1>4. /\ groups[g] \in Membership!Row /\ groups[g] # Membership!NoGroup /\ GroupsOK(groups) /\
          MembersOK(members, groups)
      /\ Tokens(g) /\ Crown(g) /\ Counted(g) /\ Capped(g) /\ Gone(g)
      /\ Membership!OneModeAtATime /\ idle \subseteq Address /\ party \subseteq Address
  BY <1>1, <1>3, OwnIs DEF InGroup
<1>5. a \in Address
  BY <1>1, <1>2 DEF CallOK, ForAddress
<1> DEFINE new == Membership!Recount(g, Membership!MembersOf(g) \ {a})
<1>6. /\ new \in Membership!Row /\ new.dissolved = groups[g].dissolved
      /\ new.token = groups[g].token /\ new.creator = groups[g].creator /\ new.cap = groups[g].cap
      /\ ~groups[g].dissolved =>
              new.active = Membership!ShouldBeActive(Cardinality(Membership!MembersOf(g) \ {a}))
  <2>1. CASE groups[g].dissolved
    BY <1>4, <2>1 DEF Membership!Recount
  <2>2. CASE ~groups[g].dissolved
    <3>1. Membership!ShouldBeActive(Cardinality(Membership!MembersOf(g) \ {a})) \in BOOLEAN
      BY DEF Membership!ShouldBeActive
    <3>2. new = [groups[g] EXCEPT !.active = Membership!ShouldBeActive(Cardinality(Membership!MembersOf(g) \ {a}))]
      BY CopiesAgree, <2>2 DEF Membership!Recount
    <3> HIDE DEF new
    <3> QED
      BY <1>4, <2>2, <3>1, <3>2 DEF Membership!Row
  <2> QED
    BY <2>1, <2>2
<1>7. /\ DOMAIN r = Fields /\ r.at = "read" /\ r.g = g /\ r.row = task[t].row
      /\ r.i = task[t].i /\ r.note = task[t].note /\ r.verdict = task[t].verdict
  BY <1>2, <1>3, FieldsAre DEF CallOK
<1>8. groups' = [groups EXCEPT ![g] = new]
  BY <1>1, <1>3
<1> HIDE DEF r, new
<1>9. /\ groups'[g] = new /\ groups'[g] # Membership!NoGroup /\ GroupsOK(groups')
      /\ \A h \in Group \ {g} : groups'[h] = groups[h]
      /\ MembersOK(members, groups')
  BY <1>4, <1>6, <1>8, RowWritten
<1>10. /\ DOMAIN members' = Address /\ \A b \in Address : b # a => members'[b] = members[b]
       /\ members'[a] = IF members[a].group = g THEN Membership!NoRow ELSE members[a]
  BY <1>1, <1>3, <1>4, <1>5 DEF MembersOK
<1>11. /\ MembersOK(members', groups') /\ \A h \in Group \ {g} : SeatsKept(h)
       /\ Membership!MembersOf(g)' = Membership!MembersOf(g) \ {a}
  <2>1. Membership!NoRow.group = None /\ None \notin Group
    BY RowsAre
  <2>2. MembersOK(members', groups')
    BY <1>9, <1>10 DEF MembersOK
  <2>3. \A h \in Group \ {g} : SeatsKept(h)
    BY <1>4, <1>10, <2>1 DEF SeatsKept, MembersOK
  <2> QED
    BY <1>10, <2>1, <2>2, <2>3 DEF Membership!MembersOf
<1>12. CallOK(r, groups', notes)
  BY <1>1, <1>2, <1>3, <1>7, <1>9 DEF CallOK, InGroup, ForAddress, WithCopy
<1>13. DOMAIN task' = Membership!Task /\ task'[t] = r /\ \A u \in Membership!Task : u # t =>
        task'[u] = task[u]
  BY <1>1, MovesIs, TaskIs
<1>14. BlameStays(g)
  BY <1>1 DEF BlameStays
<1>15. GroupOK(g)'
  <2>1. CASE members[a].role = "creator"
    BY <1>1, <1>3, <2>1, StaleIsOK
  <2>2. CASE members[a].role # "creator"
    <3>1. /\ Emptying(g)' = Emptying(g) /\ Founders(g)' = Founders(g) /\ Counting(g)' = Counting(g)
          /\ Membership!Inserting(g)' \subseteq Membership!Inserting(g) /\
                  Membership!Joining(g)' \subseteq Membership!Joining(g)
      BY <1>1, <1>7, OthersOn
    <3>2. /\ Crowning(g)' = Crowning(g) /\ Transferring(g)' = Transferring(g)
          /\ \A u \in Crowning(g) : task'[u] = task[u]
      BY <1>1, <1>7, <1>13 DEF Crowning, Transferring, On
    <3>3. Creators(g)' = Creators(g)
      <4>1. Creators(g)' = {b \in Membership!MembersOf(g)' : members'[b].role = "creator"}
        BY DEF Creators
      <4> QED
        BY <1>10, <1>11, <2>2, <4>1 DEF Creators, Membership!MembersOf
    <3>4. Membership!Alive(g)' = Membership!Alive(g) /\ (Sound(g)' => Membership!Alive(g)')
      BY <1>4, <1>6, <1>9 DEF Membership!Alive, Sound
    <3>5. Tokens(g)'
      <4>1. groups'[g] \in Membership!Row /\ groups[g].token <= groups'[g].token
        BY <1>4, <1>6, <1>9 DEF Membership!Row
      <4>2. \A u \in Transferring(g) : task[u].row \in Membership!Row
        BY <1>1, <1>7, RowsOfTransfers
      <4>3. \A u \in Transferring(g)' : task'[u].row = task[u].row
        BY <1>1, <1>7, RowsOfTransfers DEF Transferring, On
      <4> QED
        BY <1>4, <1>14, <3>2, <4>1, <4>2, <4>3, TokensFrame
    <3>6. Crown(g)'
      BY <1>4, <1>6, <1>9, <1>14, <3>1, <3>2, <3>3, <3>4, CrownFrame
    <3>7. Counted(g)'
      <4> SUFFICES ASSUME Sound(g)'
                   PROVE  groups'[g].active = Membership!ShouldBeActive(Cardinality(Membership!MembersOf(g)'))
        BY DEF Counted, Membership!ShouldBeActive
      <4>1. ~groups[g].dissolved
        BY <3>4 DEF Membership!Alive
      <4> QED
        BY <1>6, <1>9, <1>11, <4>1
    <3>8. Capped(g)'
      BY <1>4, <1>6, <1>9, <1>11, <1>14, <3>1, <3>4, CappedFrame
    <3>9. Gone(g)'
      BY <1>4, <1>6, <1>9, <1>11, <1>14, <3>1, GoneFrame
    <3> QED
      BY <3>5, <3>6, <3>7, <3>8, <3>9 DEF GroupOK
  <2> QED
    BY <2>1, <2>2
<1>16. Membership!OneModeAtATime'
  <2>1. \A b \in party : members'[b] # Membership!NoRow => members[b] # Membership!NoRow /\
          members'[b].group = members[b].group
    BY <1>4, <1>10
  <2> QED
    BY <1>1, <1>4, <2>1, ModeStep
<1>17. \A h \in Group : task[t].g = h => GroupOK(h)'
  BY <1>3, <1>15
<1>18. r.at \in Dirty
  BY <1>7 DEF Dirty
<1> QED
  BY <1>1, <1>3, <1>4, <1>7, <1>9, <1>11, <1>12, <1>16, <1>17, <1>18, WorkKeeps

LEMMA EmptyKeeps ==
  ASSUME RosterInv, NEW t \in Membership!Task, Membership!Empty(t)
  PROVE  RosterInv'
<1> DEFINE r == [task[t] EXCEPT !.at = "last"]
<1>1. /\ task[t].at = "empty" /\ Moves(t, r)
      /\ members' = [a \in Address |-> IF members[a].group = task[t].g THEN Membership!NoRow ELSE members[a]]
      /\ UNCHANGED <<groups, notes, addressCache, party, idle, armed, reads, cachedAt, blame>>
  BY DEF Membership!Empty, Membership!At, Membership!Goto, Moves, Membership!ghost
<1>2. CallOK(task[t], groups, notes) /\ Shape
  BY TaskIs
<1>3. PICK g \in Group : g = task[t].g
  BY <1>1, OwnIs DEF InGroup
<1>4. /\ groups[g] \in Membership!Row /\ groups[g] # Membership!NoGroup /\ GroupsOK(groups) /\
          MembersOK(members, groups)
      /\ Tokens(g) /\ Capped(g) /\ Gone(g)
      /\ Membership!OneModeAtATime /\ idle \subseteq Address /\ party \subseteq Address
  BY <1>1, <1>3, OwnIs DEF InGroup
<1>5. /\ DOMAIN r = Fields /\ r.at = "last" /\ r.g = g /\ r.row = task[t].row /\ r.op = task[t].op
      /\ r.i = task[t].i /\ r.note = task[t].note /\ r.verdict = task[t].verdict
  BY <1>2, <1>3, FieldsAre DEF CallOK
<1> HIDE DEF r
<1>6. /\ DOMAIN members' = Address
      /\ \A b \in Address : members'[b] = IF members[b].group = g THEN Membership!NoRow ELSE members[b]
  BY <1>1, <1>3
<1>7. /\ MembersOK(members', groups') /\ \A h \in Group \ {g} : SeatsKept(h)
      /\ Membership!MembersOf(g)' \subseteq Membership!MembersOf(g)
  <2>1. Membership!NoRow.group = None /\ None \notin Group
    BY RowsAre
  <2>2. MembersOK(members', groups')
    BY <1>1, <1>4, <1>6 DEF MembersOK
  <2>3. \A h \in Group \ {g} : SeatsKept(h)
    BY <1>4, <1>6, <2>1 DEF SeatsKept, MembersOK
  <2> QED
    BY <1>6, <2>1, <2>2, <2>3 DEF Membership!MembersOf
<1>8. CallOK(r, groups', notes)
  BY <1>1, <1>2, <1>3, <1>4, <1>5 DEF CallOK, InGroup, ForAddress, WithCopy
<1>9. DOMAIN task' = Membership!Task /\ task'[t] = r /\ \A u \in Membership!Task : u # t =>
        task'[u] = task[u]
  BY <1>1, MovesIs, TaskIs
<1>10. BlameStays(g)
  BY <1>1 DEF BlameStays
<1>11. GroupOK(g)'
  <2>1. t \in Emptying(g)'
    BY <1>5, <1>9 DEF Emptying, On
  <2>2. Crown(g)' /\ Counted(g)'
    BY <2>1 DEF Crown, Counted, Sound
  <2>3. Membership!Alive(g)' = Membership!Alive(g) /\ groups'[g] = groups[g]
    BY <1>1 DEF Membership!Alive
  <2>4. Tokens(g)'
    <3>1. groups'[g] \in Membership!Row /\ groups[g].token <= groups'[g].token
      BY <1>4, <2>3 DEF Membership!Row
    <3>2. \A u \in Transferring(g) : task[u].row \in Membership!Row
      BY <1>1, <1>5, RowsOfTransfers
    <3>3. /\ Transferring(g)' \subseteq Transferring(g)
          /\ \A u \in Transferring(g)' : task'[u].row = task[u].row
      BY <1>5, <1>9 DEF Transferring, On
    <3> QED
      BY <1>4, <1>10, <3>1, <3>2, <3>3, TokensFrame
  <2>5. Membership!Inserting(g)' \subseteq Membership!Inserting(g) /\
          Membership!Joining(g)' \subseteq Membership!Joining(g)
    BY <1>5, <1>9 DEF Membership!Inserting, Membership!Joining, Membership!At
  <2>6. Capped(g)'
    BY <1>4, <1>7, <1>10, <2>3, <2>5, CappedFrame
  <2>7. Gone(g)'
    BY <1>4, <1>7, <1>10, <2>3, <2>5, GoneFrame
  <2> QED
    BY <2>2, <2>4, <2>6, <2>7 DEF GroupOK
<1>12. Membership!OneModeAtATime'
  <2>1. \A b \in party : members'[b] # Membership!NoRow => members[b] # Membership!NoRow /\
          members'[b].group = members[b].group
    BY <1>4, <1>6
  <2> QED
    BY <1>1, <1>4, <2>1, ModeStep
<1>13. \A h \in Group : task[t].g = h => GroupOK(h)'
  BY <1>3, <1>11
<1>14. r.at \in Dirty
  BY <1>5 DEF Dirty
<1> QED
  BY <1>1, <1>3, <1>4, <1>5, <1>7, <1>8, <1>12, <1>13, <1>14, WorkKeeps

LEMMA PatchKeeps ==
  ASSUME RosterInv, NEW t \in Membership!Task, Membership!Patch(t)
  PROVE  RosterInv'
<1> DEFINE copy == task[t].row
           new == Membership!Patched(copy, task[t].rest)
<1>1. /\ task[t].at = "patch" /\ groups' = [groups EXCEPT ![task[t].g] = new]
      /\ Moves(t, Membership!Idle) /\ blame \subseteq blame'
      /\ armed' \subseteq armed \cup {task[t].g}
      /\ groups[task[t].g] = copy \/ <<"stale", task[t].g>> \in blame'
      /\ new.cap > 0 => Membership!Inserting(task[t].g) = {} \/ <<"rushed", task[t].g>> \in blame'
      /\ new.cap > 0 => ~(Cardinality(Membership!MembersOf(task[t].g)) > new.cap) \/
              <<"lowered", task[t].g>> \in blame'
      /\ UNCHANGED <<members, notes, addressCache, party, idle, reads, cachedAt>>
  BY CopiesAgree DEF Membership!Patch, Membership!At, Membership!Done, Moves
<1>2. CallOK(task[t], groups, notes) /\ Shape
  BY TaskIs
<1>3. PICK g \in Group : g = task[t].g
  BY <1>1, OwnIs DEF InGroup
<1>4. /\ groups[g] \in Membership!Row /\ groups[g] # Membership!NoGroup /\ GroupsOK(groups) /\
          MembersOK(members, groups)
      /\ Tokens(g) /\ Crown(g) /\ Counted(g) /\ Gone(g)
      /\ Membership!OneModeAtATime /\ idle \subseteq Address
  BY <1>1, <1>3, OwnIs DEF InGroup
<1>5. copy \in Membership!Row
  BY <1>1, <1>2 DEF CallOK, WithCopy
<1>6. /\ new \in Membership!Row /\ new.active = copy.active /\ new.dissolved = copy.dissolved
      /\ new.token = copy.token /\ new.creator = copy.creator
  BY <1>5 DEF Membership!Patched, Membership!Row
<1> HIDE DEF new, copy
<1>8. /\ groups'[g] = new /\ groups'[g] # Membership!NoGroup /\ GroupsOK(groups')
      /\ \A h \in Group \ {g} : groups'[h] = groups[h]
      /\ \A h \in Group : groups[h] # Membership!NoGroup => groups'[h] # Membership!NoGroup
      /\ MembersOK(members', groups')
  BY <1>1, <1>3, <1>4, <1>6, RowWritten
<1>9. CallOK(Membership!Idle, groups', notes')
  BY IdleIsOK
<1>10. DOMAIN task' = Membership!Task /\ task'[t] = Membership!Idle /\
        \A u \in Membership!Task : u # t => task'[u] = task[u]
  BY <1>1, MovesIs, TaskIs
<1>11. /\ BlameStays(g) /\ BlameGrows
       /\ \A h : SeatsKept(h) /\ Membership!MembersOf(h)' = Membership!MembersOf(h) /\
               Creators(h)' = Creators(h)
  BY <1>1, StillSeats DEF BlameStays, BlameGrows
<1>12. GroupOK(g)'
  <2>1. CASE groups[g] # copy
    BY <1>1, <1>3, <2>1, StaleIsOK
  <2>2. CASE groups[g] = copy
    <3>1. /\ Emptying(g)' = Emptying(g) /\ Founders(g)' = Founders(g) /\ Counting(g)' = Counting(g)
          /\ Membership!Inserting(g)' \subseteq Membership!Inserting(g) /\
                  Membership!Joining(g)' \subseteq Membership!Joining(g)
      BY <1>1, FieldsAre, OthersOn
    <3>2. Membership!Alive(g)' = Membership!Alive(g) /\ (Sound(g)' => Membership!Alive(g)')
      BY <1>4, <1>6, <1>8, <2>2 DEF Membership!Alive, Sound
    <3>3. /\ Crowning(g)' = Crowning(g) /\ Transferring(g)' = Transferring(g)
          /\ \A u \in Transferring(g) : task'[u] = task[u]
          /\ \A u \in Crowning(g) : task'[u] = task[u]
      BY <1>1, <1>10, FieldsAre DEF Crowning, Transferring, On
    <3>4. Tokens(g)'
      <4>1. groups'[g] \in Membership!Row /\ groups[g].token <= groups'[g].token
        BY <1>4, <1>6, <1>8, <2>2 DEF Membership!Row
      <4>2. \A u \in Transferring(g) : task[u].row \in Membership!Row
        BY <1>2 DEF Transferring, On, Shape, CallsOK, CallOK, WithCopy
      <4>3. /\ Transferring(g)' \subseteq Transferring(g)
            /\ \A u \in Transferring(g)' : task'[u].row = task[u].row
        BY <3>3
      <4> QED
        BY <1>4, <1>11, <4>1, <4>2, <4>3, TokensFrame
    <3>5. Crown(g)'
      BY <1>4, <1>6, <1>8, <1>11, <2>2, <3>1, <3>2, <3>3, CrownFrame
    <3>6. Counted(g)'
      BY <1>4, <1>6, <1>8, <1>11, <2>2, <3>1, <3>2, CountedFrame
    <3>7. Capped(g)'
      <4> SUFFICES ASSUME groups'[g].cap > 0, ~Membership!Blamed({"rushed", "lowered", "stale"}, g)'
                   PROVE  /\ Cardinality(Membership!MembersOf(g)') <= groups'[g].cap
                          /\ Membership!Inserting(g)' # {} =>
                                  Cardinality(Membership!MembersOf(g)') < groups'[g].cap
        BY DEF Capped
      <4>1. <<"rushed", g>> \notin blame' /\ <<"lowered", g>> \notin blame'
        BY DEF Membership!Blamed
      <4>2. Membership!Inserting(g) = {} /\ ~(Cardinality(Membership!MembersOf(g)) > new.cap)
        BY <1>1, <1>3, <1>8, <4>1
      <4>3. Cardinality(Membership!MembersOf(g)) \in Nat /\ new.cap \in Nat
        BY <1>6, RosterFinite, RosterAssumption
           DEF Membership!Row, Membership!MembershipAssumption
      <4>4. Membership!Inserting(g)' = {} /\ Membership!MembersOf(g)' = Membership!MembersOf(g) /\
              groups'[g].cap = new.cap
        BY <1>8, <1>11, <3>1, <4>2
      <4> QED
        BY <4>2, <4>3, <4>4
    <3>8. Gone(g)'
      BY <1>4, <1>6, <1>8, <1>11, <2>2, <3>1, GoneFrame
    <3> QED
      BY <3>4, <3>5, <3>6, <3>7, <3>8 DEF GroupOK
  <2> QED
    BY <2>1, <2>2
<1>13. Membership!OneModeAtATime'
  BY <1>1, <1>4, ModeStep
<1>14. \A h \in Group : task[t].g = h => GroupOK(h)'
  BY <1>3, <1>12
<1>15. RestOK'
  BY <1>1, <1>2, <1>3, <1>8 DEF Shape, RestOK
<1>16. Shape'
  BY <1>1, <1>3, <1>8, <1>9, <1>11, <1>15, FieldsAre, ShapeStep
<1>17. \A h \in Group : GroupOK(h)'
  BY <1>1, <1>3, <1>8, <1>11, <1>14, GroupsStep
<1>18. ApartInv'
  BY <1>1, <1>11, FieldsAre, ApartStep
<1>19. Fresh'
  <2>1. ASSUME Steady' PROVE Membership!View' = Membership!View
    <3>1. groups[g] = copy
      BY <1>1, <1>3, <2>1 DEF Steady, Membership!Blamed
    <3>2. \A h \in Group : groups'[h].active = groups[h].active /\
            Membership!Alive(h)' = Membership!Alive(h)
      BY <1>4, <1>6, <1>8, <3>1 DEF Membership!Alive
    <3>3. \A b \in Address : members[b].group # None => members[b].group \in Group
      BY <1>4, RowsAre DEF MembersOK
    <3>4. ASSUME NEW b \in Address, members[b].group # None
          PROVE  /\ Membership!Alive(members[b].group)' = Membership!Alive(members[b].group)
                 /\ groups'[members[b].group].active = groups[members[b].group].active
      <4>1. PICK h \in Group : h = members[b].group
        BY <3>3, <3>4
      <4>2. Membership!Alive(members[b].group)' = Membership!Alive(h)'
        BY <1>1, <4>1 DEF Membership!Alive
      <4> QED
        BY <3>2, <4>1, <4>2
    <3> QED
      BY <1>1, <3>4, ViewSame
  <2>2. Fresh /\ \A h \in Group : BlameStays(h)
    BY <1>11, BlameGrowing DEF RosterInv
  <2>3. Steady' => <<"missed", None>> \notin blame
    BY <1>1 DEF Steady
  <2> QED
    BY <1>1, <1>2, <2>1, <2>2, <2>3, FieldsAre, FreshFrame DEF Dirty
<1> QED
  BY <1>13, <1>16, <1>17, <1>18, <1>19 DEF RosterInv

-------------------------------------------------------------------------------
(* The invariant holds. *)

LEMMA RosterStarts == Membership!Init => RosterInv
<1> SUFFICES ASSUME Membership!Init PROVE RosterInv
  OBVIOUS
<1>1. PICK c \in Foundings :
        /\ groups = [g \in Group |-> IF g \in DOMAIN c.groups
                                     THEN [c.groups[g] EXCEPT !.active =
                                        Membership!Cardinality({a \in Address : c.members[a].group = g})
                                            >= MinActive]
                                     ELSE Membership!NoGroup]
        /\ members = c.members /\ notes = c.notes /\ party = {} /\ budget = c.events
        /\ idle = Address
        /\ armed = {g \in DOMAIN c.groups : c.groups[g].timed}
  BY DEF Membership!Init
<1>2. task = [t \in Membership!Task |-> Membership!Idle] /\ blame = {} /\ reads = 0 /\
        cachedAt = 0 /\ addressCache = Membership!View
  BY DEF Membership!Init
<1>3. Membership!Stored(c)
  BY RosterAssumption DEF Membership!MembershipAssumption
<1>4. \A g : Membership!MembersOf(g) = {a \in Address : c.members[a].group = g}
  BY <1>1 DEF Membership!MembersOf
<1>5. /\ DOMAIN c.groups \subseteq Group /\ \A g \in DOMAIN c.groups : c.groups[g] \in Membership!Row
      /\ DOMAIN c.members = Address /\
              \A a \in Address : c.members[a] \in Membership!Seat \cup {Membership!NoRow}
      /\ \A a \in Address : c.members[a] # Membership!NoRow => c.members[a].group \in DOMAIN c.groups
      /\ c.notes \in Seq(Membership!Message)
      /\ \A i \in DOMAIN c.notes :
          /\ c.notes[i].group \in DOMAIN c.groups
          /\ c.notes[i].kind # "link" => c.notes[i].addr \in Address
  BY <1>3 DEF Membership!Stored
<1>6. ASSUME NEW g \in DOMAIN c.groups
      PROVE  /\ groups[g] \in Membership!Row /\ groups[g] # Membership!NoGroup
             /\ groups[g].dissolved = c.groups[g].dissolved /\ groups[g].cap = c.groups[g].cap
             /\ groups[g].creator = c.groups[g].creator
             /\ groups[g].active = (Cardinality(Membership!MembersOf(g)) >= MinActive)
  <2> DEFINE flag == Cardinality(Membership!MembersOf(g)) >= MinActive
  <2>1. groups[g] = [c.groups[g] EXCEPT !.active = flag]
    <3>1. Membership!Cardinality({a \in Address : c.members[a].group = g}) = Cardinality(Membership!MembersOf(g))
      BY CopiesAgree, <1>4
    <3> QED
      BY <1>1, <1>5, <3>1
  <2>2. c.groups[g] \in Membership!Row /\ flag \in BOOLEAN
    BY <1>5
  <2> HIDE DEF flag
  <2>3. groups[g] \in Membership!Row /\ groups[g].active = flag
    BY <2>1, <2>2 DEF Membership!Row
  <2>4. groups[g].dissolved = c.groups[g].dissolved /\ groups[g].cap = c.groups[g].cap
        /\ groups[g].creator = c.groups[g].creator
    BY <2>1, <2>2 DEF Membership!Row
  <2> QED
    BY <2>3, <2>4, RowsAre DEF flag
<1>7. \A g \in Group : g \notin DOMAIN c.groups => groups[g] = Membership!NoGroup
  BY <1>1
<1>8. GroupsOK(groups) /\ MembersOK(members, groups) /\ NotesOK(notes, groups)
  <2>1. GroupsOK(groups)
    BY <1>1, <1>6, <1>7 DEF GroupsOK
  <2>2. MembersOK(members, groups)
    BY <1>1, <1>5, <1>6 DEF MembersOK
  <2>3. NotesOK(notes, groups)
    BY <1>1, <1>5, <1>6 DEF NotesOK
  <2> QED
    BY <2>1, <2>2, <2>3
<1>9. CallsOK /\ RestOK /\ NewGroups
  <2>1. CallsOK
    BY <1>2, IdleIsOK DEF CallsOK
  <2>2. RestOK
    BY <1>1, <1>2, <1>5, <1>6 DEF RestOK, Membership!View
  <2>3. NewGroups
    BY <1>2, FieldsAre DEF NewGroups, Founding
  <2> QED
    BY <2>1, <2>2, <2>3
<1>10. \A at, g : "idle" \notin at => On(at, g) = {}
  BY <1>2, FieldsAre DEF On
<1>11. ASSUME NEW g \in Group PROVE GroupOK(g)
  <2>1. /\ Crowning(g) = {} /\ Transferring(g) = {} /\ Membership!Inserting(g) = {} /\
            Membership!Joining(g) = {}
    BY <1>10, InsertingIs DEF Crowning, Transferring
  <2>2. CASE g \notin DOMAIN c.groups
    BY <1>7, <2>2 DEF GroupOK, Tokens, Crown, Counted, Capped, Gone, Sound, Membership!Alive
  <2>3. CASE g \in DOMAIN c.groups
    <3>1. /\ c.groups[g].dissolved => Membership!MembersOf(g) = {}
          /\ ~c.groups[g].dissolved =>
                /\ {a \in Membership!MembersOf(g) : c.members[a].role = "creator"} = {c.groups[g].creator}
                /\ c.groups[g].cap > 0 => Cardinality(Membership!MembersOf(g)) <= c.groups[g].cap
      BY CopiesAgree, <1>3, <1>4, <2>3 DEF Membership!Stored
    <3>2. Tokens(g) /\ Gone(g)
      BY <1>6, <2>1, <2>3, <3>1 DEF Tokens, Gone
    <3>3. Crown(g)
      BY <1>1, <1>6, <2>1, <2>3, <3>1 DEF Crown, Sound, Membership!Alive, Creators
    <3>4. Counted(g)
      BY <1>6, <2>3 DEF Counted, Membership!ShouldBeActive
    <3>5. Capped(g)
      BY <1>6, <2>1, <2>3, <3>1 DEF Capped, Membership!Alive
    <3> QED
      BY <3>2, <3>3, <3>4, <3>5 DEF GroupOK
  <2> QED
    BY <2>2, <2>3
<1>12. Fresh
  BY <1>2, FieldsAre DEF Fresh
<1>13. ApartInv /\ Membership!OneModeAtATime
  BY <1>1, <1>2, FieldsAre DEF ApartInv, Membership!OneModeAtATime
<1> QED
  BY <1>8, <1>9, <1>11, <1>12, <1>13 DEF RosterInv, Shape

LEMMA ResumeKeeps ==
  ASSUME RosterInv, NEW t \in Membership!Task, Membership!Resume(t)
  PROVE  RosterInv'
<1>1. CASE Membership!Found(t) \/ Membership!Enroll(t) \/ Membership!Add(t) \/
        Membership!Insert(t) \/ Membership!Count(t) \/ Membership!Load(t) \/ Membership!Store(t) \/
                Membership!Read(t)
  BY <1>1, FoundKeeps, EnrollKeeps, AddKeeps, InsertKeeps, CountKeeps, LoadKeeps, StoreKeeps,
     ReadKeeps
<1>2. CASE Membership!Publish(t) \/ Membership!Check(t) \/ Membership!Mint(t) \/
        Membership!Look(t) \/ Membership!Answer(t) \/ Membership!RevokeOld(t) \/
                Membership!Commit(t) \/ Membership!File(t)
  BY <1>2, PublishKeeps, CheckKeeps, MintKeeps, LookKeeps, AnswerKeeps, RevokeOldKeeps,
     CommitKeeps, FileKeeps
<1>3. CASE Membership!Remove(t) \/ Membership!Demote(t) \/ Membership!Promote(t) \/
        Membership!HandOver(t) \/ Membership!Torn(t) \/ Membership!Patch(t) \/ Membership!Empty(t)
  BY <1>3, RemoveKeeps, DemoteKeeps, PromoteKeeps, HandOverKeeps, TornKeeps, PatchKeeps,
     EmptyKeeps
<1>4. CASE Membership!Last(t) \/ Membership!Bury(t) \/ Membership!Fail(t)
  BY <1>4, LastKeeps, BuryKeeps, FailKeeps
<1> QED
  BY <1>1, <1>2, <1>3, <1>4 DEF Membership!Resume

LEMMA RosterSteps == RosterInv /\ [Membership!Next]_(Membership!vars) => RosterInv'
<1> SUFFICES ASSUME RosterInv, [Membership!Next]_(Membership!vars) PROVE RosterInv'
  OBVIOUS
<1>1. ASSUME NEW t \in Membership!Task, Membership!Call(t) PROVE RosterInv'
  BY <1>1, CallKeeps
<1>2. ASSUME NEW t \in Membership!Task, Membership!Resume(t) PROVE RosterInv'
  BY <1>2, ResumeKeeps
<1>3. ASSUME NEW a \in Address, Membership!PartyJoins(a) PROVE RosterInv'
  BY <1>3, PartyJoinsKeeps
<1>4. CASE Membership!World /\ ~ \E a \in Address : Membership!PartyJoins(a)
  BY <1>4, WorldKeeps
<1>5. CASE UNCHANGED Membership!vars
  <2>1. /\ UNCHANGED <<groups, members, task, addressCache, party, reads, cachedAt, blame>>
        /\ UNCHANGED <<armed, idle, notes>>
    BY <1>5 DEF Membership!vars, Membership!rows, Membership!ghost
  <2>2. NotesOK(notes', groups) /\ NotesKept(notes, notes')
    BY <2>1, NotesSame
  <2>3. armed' \subseteq armed /\ idle' \subseteq Address /\ DOMAIN notes' = DOMAIN notes
    BY <2>1 DEF RosterInv, Shape, RestOK
  <2> QED
    BY <2>1, <2>2, <2>3, RestedKeeps
<1> QED
  BY <1>1, <1>2, <1>3, <1>4, <1>5 DEF Membership!Next

\* What the invariant is for.
LEMMA RosterGives ==
  ASSUME RosterInv
  PROVE  Membership!TypeOK /\ Membership!GroupIsConsistent /\ Membership!CapHolds /\
          Membership!CacheFollowsRows /\ Membership!OneModeAtATime
<1>0. /\ Shape /\ Fresh /\ \A g \in Group : Crown(g) /\ Counted(g) /\ Capped(g)
      /\ CallsOK
  BY DEF RosterInv, GroupOK, Shape
<1>1. Membership!TypeOK
  <2>1. \A t \in Membership!Task : task[t].at = "idle" => task[t] = Membership!Idle
    BY <1>0 DEF CallsOK, CallOK
  <2> QED
    BY <1>0, <2>1 DEF Membership!TypeOK, Shape, GroupsOK, MembersOK, RestOK, Membership!At
<1>2. Membership!GroupIsConsistent
  <2> SUFFICES ASSUME NEW g \in Group, Membership!Alive(g),
          Membership!Quiet(g), ~Membership!Blamed({"stale", "torn", "orphan"}, g)
               PROVE  /\ {a \in Membership!MembersOf(g) : members[a].role = "creator"} = {groups[g].creator}
                      /\ Membership!Blamed({"miscount"}, g)
                         \/ groups[g].active = (Cardinality(Membership!MembersOf(g)) >= MinActive)
    BY CopiesAgree DEF Membership!GroupIsConsistent
  <2>1. \A at : On(at, g) = {}
    BY DEF Membership!Quiet, On
  <2>2. Sound(g) /\ ~Outdated(g) /\ Crowning(g) = {} /\ Counting(g) = {}
    BY <2>1 DEF Sound, Outdated, Emptying, Founders, Crowning, Counting
  <2>3. Creators(g) = {groups[g].creator}
    BY <1>0, <2>2 DEF Crown
  <2>4. Membership!Blamed({"miscount"}, g) \/
          groups[g].active = (Cardinality(Membership!MembersOf(g)) >= MinActive)
    BY <1>0, <2>2 DEF Counted, Membership!ShouldBeActive
  <2> QED
    BY <2>3, <2>4 DEF Creators
<1>3. Membership!CapHolds
  BY CopiesAgree, <1>0 DEF Membership!CapHolds, Capped
<1>4. Membership!CacheFollowsRows
  <2> SUFFICES ASSUME \A t \in Membership!Task : Membership!At(t, "idle"), cachedAt = reads,
          <<"missed", None>> \notin blame,
                      \A g \in Group : ~Membership!Blamed({"stale"}, g), NEW a \in Address
               PROVE  IF members[a] # Membership!NoRow /\ Membership!Alive(members[a].group)
                      THEN a \in DOMAIN addressCache /\ addressCache[a] = [group |-> members[a].group,
                                                         active |-> groups[members[a].group].active]
                      ELSE a \notin DOMAIN addressCache
    BY DEF Membership!CacheFollowsRows
  <2>1. Stirring = {} /\ Steady
    BY DEF Stirring, Steady, Membership!At, Dirty
  <2>2. addressCache = Membership!View
    BY <1>0, <2>1 DEF Fresh
  <2>3. members[a] # Membership!NoRow <=> members[a].group # None
    BY <1>0, RowsAre DEF Shape, MembersOK
  <2> QED
    BY <2>2, <2>3, Zenon DEF Membership!View
<1> QED
  BY <1>1, <1>2, <1>3, <1>4 DEF RosterInv

-------------------------------------------------------------------------------
(* Who writes the rows. *)

LEMMA CallWrites ==
  ASSUME NEW t, Membership!Call(t)
  PROVE  UNCHANGED <<groups, members>>
<1>1. \A g, a : (Membership!Create(t, a) \/ Membership!Request(t, g, a) \/
        Membership!Kick(t, g, a) \/ Membership!Transfer(t, g, a) \/ Membership!Dissolve(t, g))
                => UNCHANGED Membership!rows
  BY DEF Membership!Create, Membership!Request, Membership!Kick, Membership!Transfer,
         Membership!Dissolve
<1>2. \A g, x : (Membership!Invite(t, g, x) \/ Membership!CreateOpen(t, g, x) \/
        Membership!Settings(t, g, x)) => UNCHANGED Membership!rows
  BY DEF Membership!Invite, Membership!CreateOpen, Membership!Settings
<1>3. \A i : Membership!Accept(t, i) => UNCHANGED <<groups, members>>
  BY Zenon DEF Membership!Accept
<1>4. \A i : (Membership!Decline(t, i) \/ Membership!Reject(t, i)) => UNCHANGED Membership!rows
  BY Zenon DEF Membership!Decline, Membership!Reject
<1>5. \A i : Membership!Approve(t, i) => UNCHANGED Membership!rows
  BY Zenon DEF Membership!Approve
<1>6. \A i, a : Membership!Claim(t, i, a) => UNCHANGED Membership!rows
  BY Zenon DEF Membership!Claim
<1>7. UNCHANGED Membership!rows \/ UNCHANGED <<groups, members>>
  BY <1>1, <1>2, <1>3, <1>4, <1>5, <1>6 DEF Membership!Call
<1> QED
  BY <1>7 DEF Membership!rows

LEMMA WorldWrites ==
  ASSUME Membership!World
  PROVE  UNCHANGED <<groups, members>>
<1>1. \A g, a : (Membership!RevokeOpen(g) \/ Membership!FireIfDue(g) \/ Membership!Cancel(g, a)) =>
        UNCHANGED <<groups, members>>
  BY DEF Membership!RevokeOpen, Membership!FireIfDue, Membership!Cancel, Membership!rows
<1>2. \A a, i : (Membership!PartyJoins(a) \/ Membership!FallIdle(a) \/ Membership!Age(i) \/
        Membership!ClaimLapsed(i)) => UNCHANGED <<groups, members>>
  BY DEF Membership!PartyJoins, Membership!FallIdle, Membership!Age, Membership!ClaimLapsed,
         Membership!rows
<1>3. Membership!ExpireOld => UNCHANGED <<groups, members>>
  BY DEF Membership!ExpireOld
<1> QED
  BY <1>1, <1>2, <1>3 DEF Membership!World

LEMMA ResumeWrites ==
  ASSUME NEW t, Membership!Resume(t)
  PROVE  /\ UNCHANGED groups \/ Membership!Found(t) \/ Membership!Store(t) \/
             Membership!Remove(t) \/ Membership!HandOver(t) \/ Membership!Patch(t) \/ Membership!Bury(t)
         /\ UNCHANGED members \/ Membership!Enroll(t) \/ Membership!Insert(t) \/
                 Membership!Remove(t) \/ Membership!Demote(t) \/ Membership!Promote(t) \/
                         Membership!Empty(t)
<1>1. (Membership!Add(t) \/ Membership!Count(t) \/ Membership!Load(t) \/ Membership!Read(t) \/
        Membership!Publish(t) \/ Membership!Check(t)) => UNCHANGED <<groups, members>>
  BY DEF Membership!Add, Membership!Count, Membership!Load, Membership!Read,
         Membership!Publish, Membership!Check, Membership!rows
<1>2. (Membership!Mint(t) \/ Membership!Look(t) \/ Membership!Answer(t) \/
        Membership!RevokeOld(t) \/ Membership!Commit(t) \/ Membership!File(t)) =>
                UNCHANGED <<groups, members>>
  BY DEF Membership!Mint, Membership!Look, Membership!Answer, Membership!RevokeOld,
         Membership!Commit, Membership!File, Membership!rows
<1>3. (Membership!Torn(t) \/ Membership!Last(t) \/ Membership!Fail(t)) => UNCHANGED <<groups, members>>
  BY DEF Membership!Torn, Membership!Last, Membership!Fail, Membership!rows
<1>4. (Membership!Enroll(t) \/ Membership!Insert(t) \/ Membership!Demote(t) \/
        Membership!Promote(t) \/ Membership!Empty(t)) => UNCHANGED groups
  BY DEF Membership!Enroll, Membership!Insert, Membership!Demote, Membership!Promote,
         Membership!Empty
<1>5. (Membership!Found(t) \/ Membership!Store(t) \/ Membership!HandOver(t) \/
        Membership!Patch(t) \/ Membership!Bury(t)) => UNCHANGED members
  BY DEF Membership!Found, Membership!Store, Membership!HandOver, Membership!Patch,
         Membership!Bury
<1> QED
  BY <1>1, <1>2, <1>3, <1>4, <1>5, Zenon DEF Membership!Resume

Agreed(g, a) ==
    \/ \E t \in Membership!Task : task[t].op = "create" /\ task[t].g = g /\ task[t].a = a
    \/ \E i \in DOMAIN notes : Membership!Welcome(g, a, i)
    \/ \E t \in Membership!Task : task[t].op = "transfer" /\ <<"stale", g>> \in blame'

LEMMA AgreedStep ==
  ASSUME RosterInv, [Membership!Next]_(Membership!vars), NEW a \in Address, NEW g \in Group,
         members[a].group # g, members'[a].group = g
  PROVE  Agreed(g, a)
<1>0. UNCHANGED members => FALSE
  OBVIOUS
<1>1. PICK t \in Membership!Task : Membership!Resume(t)
  BY <1>0, CallWrites, WorldWrites DEF Membership!Next, Membership!vars, Membership!rows
<1>2. CallOK(task[t], groups, notes) /\ MembersOK(members, groups) /\ DOMAIN members = Address
  BY TaskIs DEF Shape, MembersOK
<1>3. Membership!NoRow.group # g
  BY RowsAre
<1>4. CASE Membership!Enroll(t)
  <2>1. task[t].op = "create" /\
          members' = [members EXCEPT ![task[t].a] = [group |-> task[t].g, role |-> "creator"]]
    BY <1>0, <1>2, <1>4 DEF Membership!Enroll, Membership!At, CallOK
  <2>2. task[t].a = a /\ task[t].g = g
    BY <1>2, <2>1
  <2> QED
    BY <2>1, <2>2 DEF Agreed
<1>5. CASE Membership!Insert(t)
  <2>1. Hosted(task[t], notes) /\
          members' = [members EXCEPT ![task[t].a] = [group |-> task[t].g, role |-> "member"]]
    BY <1>0, <1>2, <1>5 DEF Membership!Insert, Membership!At, CallOK
  <2>2. task[t].a = a /\ task[t].g = g
    BY <1>2, <2>1
  <2> QED
    BY <2>1, <2>2 DEF Agreed, Hosted, Membership!Welcome
<1>6. CASE Membership!Demote(t)
  <2>1. /\ task[t].op = "transfer" /\ task[t].old = [group |-> task[t].g, role |-> "creator"]
        /\ Membership!SaveMember(task[t].from, task[t].old, "member")
    BY <1>2, <1>6 DEF Membership!Demote, Membership!At, CallOK
  <2>2. task[t].from = a /\ task[t].g = g /\ members[a] # task[t].old
    BY <1>2, <2>1 DEF Membership!SaveMember
  <2>3. <<"stale", g>> \in blame'
    BY <2>1, <2>2 DEF Membership!SaveMember
  <2> QED
    BY <2>1, <2>3 DEF Agreed
<1>7. CASE Membership!Promote(t)
  <2>1. /\ task[t].op = "transfer" /\ task[t].new = [group |-> task[t].g, role |-> "member"]
        /\ Membership!SaveMember(task[t].a, task[t].new, "creator")
    BY <1>2, <1>7 DEF Membership!Promote, Membership!At, CallOK
  <2>2. task[t].a = a /\ task[t].g = g /\ members[a] # task[t].new
    BY <1>2, <2>1 DEF Membership!SaveMember
  <2>3. <<"stale", g>> \in blame'
    BY <2>1, <2>2 DEF Membership!SaveMember
  <2> QED
    BY <2>1, <2>3 DEF Agreed
<1>8. CASE Membership!Remove(t)
  BY <1>2, <1>3, <1>8 DEF Membership!Remove
<1>9. CASE Membership!Empty(t)
  BY <1>2, <1>3, <1>9 DEF Membership!Empty
<1> QED
  BY <1>0, <1>1, <1>4, <1>5, <1>6, <1>7, <1>8, <1>9, ResumeWrites

\* A row that was dissolved is saved dissolved, or from an older copy.
LEMMA BuriedBy ==
  ASSUME GroupsOK(groups), NEW t, NEW h \in Group, h = task[t].g, NEW new, new # Membership!NoGroup,
         task[t].row.dissolved => new.dissolved, groups' = [groups EXCEPT ![h] = new],
         groups[h] = task[t].row \/ <<"stale", h>> \in blame',
         NEW g \in Group, groups[g] # Membership!NoGroup, groups[g].dissolved
  PROVE  (groups'[g] # Membership!NoGroup /\ groups'[g].dissolved) \/ <<"stale", g>> \in blame'
<1>1. CASE g = h
  BY <1>1 DEF GroupsOK
<1>2. CASE g # h
  BY <1>2 DEF GroupsOK
<1> QED
  BY <1>1, <1>2

LEMMA BuriedStep ==
  ASSUME RosterInv, [Membership!Next]_(Membership!vars),
          NEW g \in Group, groups[g] # Membership!NoGroup, groups[g].dissolved
  PROVE  \/ groups'[g].dissolved /\ Membership!MembersOf(g)' = {}
         \/ \E c \in {"stale", "outlived", "torn"} : <<c, g>> \in blame'
<1>1. RosterInv'
  BY RosterSteps
<1>2. groups'[g] # Membership!NoGroup /\ groups'[g].dissolved =>
        Membership!MembersOf(g)' = {} \/ Membership!Blamed({"stale", "outlived", "torn"}, g)'
  BY <1>1 DEF RosterInv, GroupOK, Gone
<1>3. (groups'[g] # Membership!NoGroup /\ groups'[g].dissolved) \/ <<"stale", g>> \in blame'
  <2>1. CASE UNCHANGED groups
    BY <2>1
  <2>2. CASE groups' # groups
    <3>1. PICK t \in Membership!Task : Membership!Resume(t)
      BY <2>2, CallWrites, WorldWrites DEF Membership!Next, Membership!vars, Membership!rows
    <3>2. CallOK(task[t], groups, notes) /\ GroupsOK(groups) /\ groups[g] \in Membership!Row /\
            DOMAIN groups = Group
      BY TaskIs DEF Shape, GroupsOK
    <3>3. CASE Membership!Found(t)
      <4>1. groups[task[t].g] = Membership!NoGroup /\
              groups' = [groups EXCEPT ![task[t].g] = Membership!NewGroup(task[t].a)]
        BY <3>2, <3>3 DEF Membership!Found, Membership!At, CallOK
      <4> QED
        BY <4>1
    <3>4. CASE Membership!Store(t) \/ Membership!HandOver(t) \/ Membership!Patch(t) \/ Membership!Bury(t)
      <4>1. task[t].row \in Membership!Row /\ task[t].g \in Group
        BY <3>2, <3>4
           DEF Membership!Store, Membership!HandOver, Membership!Patch, Membership!Bury,
               Membership!At, CallOK, WithCopy, InGroup
      <4>2. CASE Membership!Store(t)
        <5>1. [task[t].row EXCEPT !.active = ~@] \in Membership!Row
              /\ [task[t].row EXCEPT !.active = ~@].dissolved = task[t].row.dissolved
          BY <4>1 DEF Membership!Row
        <5>2. /\ groups' = [groups EXCEPT ![task[t].g] = [task[t].row EXCEPT !.active = ~@]]
              /\ groups[task[t].g] = task[t].row \/ <<"stale", task[t].g>> \in blame'
          BY <4>2 DEF Membership!Store
        <5> QED
          BY <3>2, <4>1, <5>1, <5>2, RowsAre, BuriedBy
      <4>3. CASE Membership!HandOver(t)
        <5>1. Membership!Handed(task[t].row, task[t].a).dissolved = task[t].row.dissolved
              /\ Membership!Handed(task[t].row, task[t].a) # Membership!NoGroup
          <6>1. Membership!Handed(task[t].row, task[t].a).dissolved = task[t].row.dissolved
                /\ DOMAIN Membership!Handed(task[t].row, task[t].a) = DOMAIN task[t].row
            BY <4>1 DEF Membership!Handed, Membership!Row
          <6> QED
            BY <4>1, <6>1 DEF Membership!Row, Membership!NoGroup
        <5>2. /\ groups' = [groups EXCEPT ![task[t].g] = Membership!Handed(task[t].row, task[t].a)]
              /\ groups[task[t].g] = task[t].row \/ <<"stale", task[t].g>> \in blame'
          BY <4>3 DEF Membership!HandOver, Membership!SaveGroup
        <5> QED
          BY <3>2, <4>1, <5>1, <5>2, RowsAre, BuriedBy
      <4>4. CASE Membership!Patch(t)
        <5>1. Membership!Patched(task[t].row, task[t].rest) \in Membership!Row
              /\ Membership!Patched(task[t].row, task[t].rest).dissolved = task[t].row.dissolved
          BY <4>1 DEF Membership!Patched, Membership!Row
        <5>2. /\ groups' = [groups EXCEPT ![task[t].g] = Membership!Patched(task[t].row, task[t].rest)]
              /\ groups[task[t].g] = task[t].row \/ <<"stale", task[t].g>> \in blame'
          BY <4>4 DEF Membership!Patch
        <5> QED
          BY <3>2, <4>1, <5>1, <5>2, RowsAre, BuriedBy
      <4>5. CASE Membership!Bury(t)
        <5>1. [task[t].row EXCEPT !.active = FALSE, !.dissolved = TRUE] \in Membership!Row
              /\ [task[t].row EXCEPT !.active = FALSE, !.dissolved = TRUE].dissolved
          BY <4>1 DEF Membership!Row
        <5>2. /\ groups' = [groups EXCEPT ![task[t].g] = [task[t].row EXCEPT !.active = FALSE, !.dissolved = TRUE]]
              /\ groups[task[t].g] = task[t].row \/ <<"stale", task[t].g>> \in blame'
          BY <4>5 DEF Membership!Bury
        <5> QED
          BY <3>2, <4>1, <5>1, <5>2, RowsAre, BuriedBy
      <4> QED
        BY <3>4, <4>2, <4>3, <4>4, <4>5
    <3>5. CASE Membership!Remove(t)
      <4>1. groups' = [groups EXCEPT ![task[t].g] = Membership!Recount(task[t].g,
              Membership!MembersOf(task[t].g) \ {task[t].a})]
        BY <3>5 DEF Membership!Remove
      <4> QED
        BY <3>2, <4>1 DEF Membership!Recount
    <3> QED
      BY <2>2, <3>1, <3>3, <3>4, <3>5, ResumeWrites
  <2> QED
    BY <2>1, <2>2
<1> QED
  BY <1>2, <1>3 DEF Membership!Blamed

-------------------------------------------------------------------------------
(* The theorems about the membership. *)

\* A step of either instance is one of the membership, or leaves it alone.
LEMMA MembershipMoves1 ==
  ASSUME [MCNext]_<<vars, membership>>
  PROVE  [Membership!Next]_(Membership!vars)
<1>1. UNCHANGED membership => UNCHANGED Membership!vars
  BY DEF membership, Membership!vars, Membership!rows, Membership!ghost
<1> QED
  BY <1>1 DEF MCNext

LEMMA RosterAlways == MCSpec => []RosterInv
<1>1. MCInit => RosterInv
  BY RosterStarts DEF MCInit
<1>2. RosterInv /\ [MCNext]_<<vars, membership>> => RosterInv'
  BY RosterSteps, MembershipMoves1
<1> QED
  BY <1>1, <1>2, PTL DEF MCSpec

\* Whatever calls are in flight, fail or overlap: a group that none of them works on has
\* the one creator its row names, its flag and its cap, the cache is what the rows say,
\* and nobody is in a Blockparty too, unless one of the named races has happened
\* (group.service.ts 138-154, 281-290, 396-431, 674-692).
THEOREM MembershipIsKept == MCSpec => []MembershipHolds
<1>1. RosterInv => MembershipHolds
  BY RosterGives DEF MembershipHolds
<1> QED
  BY <1>1, RosterAlways, PTL

\* Nobody comes into a group without both sides having agreed, and a group that was
\* dissolved stays so and empty (pplns-group-invitation.service.ts 490-499,
\* pplns-group-join-request.service.ts 187-214, group.service.ts 648-667).
THEOREM MembershipMovesRightly == MCSpec => MembershipMoves
<1>1. RosterInv /\ [MCNext]_<<vars, membership>> =>
        [\A a \in Address, g \in Group :
            members[a].group # g /\ members'[a].group = g =>
                \/ \E t \in Membership!Task : task[t].op = "create" /\ task[t].g = g /\ task[t].a = a
                \/ \E i \in DOMAIN notes : Membership!Welcome(g, a, i)
                \/ \E t \in Membership!Task : task[t].op = "transfer" /\
                        <<"stale", g>> \in blame']_(Membership!vars)
  BY AgreedStep, MembershipMoves1 DEF Agreed
<1>2. RosterInv /\ [MCNext]_<<vars, membership>> =>
        [\A g \in Group : groups[g] # Membership!NoGroup /\ groups[g].dissolved =>
            \/ groups'[g].dissolved /\ Membership!MembersOf(g)' = {}
            \/ \E c \in {"stale", "outlived", "torn"} : <<c, g>> \in blame']_(Membership!vars)
  BY BuriedStep, MembershipMoves1
<1> QED
  BY <1>1, <1>2, RosterAlways, PTL
     DEF MCSpec, MembershipMoves, Membership!BothAgreed, Membership!DissolvedForGood
==============================================================================
