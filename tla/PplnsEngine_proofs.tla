--------------------------- MODULE PplnsEngine_proofs ---------------------------
(***************************************************************************)
(* Proofs about PplnsEngine for every number of heights, rewards, shares   *)
(* and reorganisations.  TypeOK, OneBooking, LedgerBacked and              *)
(* RecomputeIsCurrent together are inductive.                              *)
(***************************************************************************)
EXTENDS PplnsEngine, TLAPS

-------------------------------------------------------------------------------
(* One build, or one call, replaced by another. *)

LEMMA BuildSet ==
  ASSUME TypeOK, NEW r \in Reward, NEW b \in Build,
         b.pc \in {"balances", "delete", "write"} => b.dist \in Split,
         build' = [build EXCEPT ![r] = b]
  PROVE  build' \in [Reward -> Build] /\ BuildShape'
  BY DEF TypeOK, BuildShape

LEMMA CallSet ==
  ASSUME TypeOK, NEW h \in Height, NEW c \in Call,
         c.pc \in Locked \cup {"notify"} => c.reward \in Reward,
         c.pc \in {"window", "rebalances", "apply"} =>
             c.dist \in Split /\ c.dist.reward = c.reward,
         c.pc = "window" => c.exact,
         calls' = [calls EXCEPT ![h] = c]
  PROVE  calls' \in [Height -> Call] /\ CallShape'
  BY DEF TypeOK, CallShape

\* A jump of a running call; apply is only entered where a distribution is held.
LEMMA GotoType ==
  ASSUME TypeOK, NEW h \in Height, NEW p \in Locked \cup Over, Goto(h, p),
         calls[h].pc \in Locked \cup {"notify"},
         p \notin {"window", "rebalances"},
         p = "apply" => calls[h].pc = "window"
  PROVE  calls' \in [Height -> Call] /\ CallShape'
<1> DEFINE c == [calls[h] EXCEPT !.pc = p]
<1>1. c \in Call
  BY DEF TypeOK, Call
<1>2. c.pc = p /\ c.reward = calls[h].reward /\ c.dist = calls[h].dist
  BY DEF TypeOK, Call
<1>3. calls' = [calls EXCEPT ![h] = c]
  BY DEF Goto, TypeOK
<1>4. calls[h].reward \in Reward
  BY DEF TypeOK, CallShape
<1>5. p = "apply" => calls[h].dist \in Split /\ calls[h].dist.reward = calls[h].reward
  BY DEF TypeOK, CallShape
<1> HIDE DEF c
<1> QED BY <1>1, <1>2, <1>3, <1>4, <1>5, CallSet

\* The tip moves to a neighbouring height.
LEMMA MoveTipType ==
  ASSUME TypeOK, NEW h \in 0..MaxHeight, MoveTip(h)
  PROVE  build' \in [Reward -> Build] /\ BuildShape' /\ jobs' = {} /\ tip' = h
<1>1. \A r \in Reward : [build[r] EXCEPT !.wanted = FALSE] \in Build
  BY DEF TypeOK, Build, BuildPC
<1>2. \A r \in Reward : build'[r] = [build[r] EXCEPT !.wanted = FALSE]
  BY DEF MoveTip
<1>3. \A r \in Reward : build'[r].pc = build[r].pc /\ build'[r].dist = build[r].dist
  BY <1>2 DEF TypeOK, Build
<1> QED BY <1>1, <1>2, <1>3 DEF MoveTip, TypeOK, BuildShape

LEMMA EmptyRecords == NoBuild \in Build /\ NoCall \in Call
  BY DEF NoBuild, Build, BuildPC, NoCall, Call, Locked, Over

-------------------------------------------------------------------------------
(* Types. *)

LEMMA InitTypeOK == Init => TypeOK
<1> SUFFICES ASSUME Init PROVE TypeOK
  OBVIOUS
<1>1. \A r \in Reward : build[r].pc = "idle"
  BY DEF Init, NoBuild
<1>2. \A h \in Height : calls[h].pc = "none"
  BY DEF Init, NoCall
<1>3. BuildShape
  BY <1>1 DEF BuildShape
<1>4. CallShape
  BY <1>2 DEF CallShape, Locked
<1>5. build \in [Reward -> Build] /\ calls \in [Height -> Call]
  BY EmptyRecords DEF Init
<1>6. /\ shares \in 0..MaxShares /\ tip \in 0..MaxHeight /\ reorgs \in 0..MaxReorgs
      /\ history \in [Height -> Split \cup {None}]
      /\ cache \in [Reward -> Split \cup {None}]
      /\ chain \in [Height -> Split \cup {None}]
  BY EngineAssumption DEF Init
<1> QED BY <1>3, <1>4, <1>5, <1>6 DEF Init, TypeOK

\* Every step keeps the types and the shapes of builds and calls.
LEMMA StepTypeOK == TypeOK /\ [Next]_vars => TypeOK'
<1> SUFFICES ASSUME TypeOK, [Next]_vars PROVE TypeOK'
  OBVIOUS
<1> USE EngineAssumption
<1>1. CASE RecordShare
  BY <1>1 DEF RecordShare, TypeOK, BuildShape, CallShape, db, node
<1>2. ASSUME NEW r \in Reward, NewTemplate(r) PROVE TypeOK'
  <2>1. CASE cache[r] # None
    BY <1>2, <2>1 DEF NewTemplate, TypeOK, BuildShape, CallShape, redis, db, node
  <2>2. CASE cache[r] = None
    <3> DEFINE b == [build[r] EXCEPT !.pc = IF @ = "idle" THEN "window" ELSE @,
                                     !.wanted = TRUE]
    <3>1. build' = [build EXCEPT ![r] = b]
      BY <1>2, <2>2 DEF NewTemplate, TypeOK
    <3>2. b \in Build /\ (b.pc # "window" => b.pc = build[r].pc) /\ b.dist = build[r].dist
      BY DEF TypeOK, Build, BuildPC
    <3>3. b.pc \in {"balances", "delete", "write"} => b.dist \in Split
      BY <3>2 DEF TypeOK, BuildShape
    <3> HIDE DEF b
    <3>4. build' \in [Reward -> Build] /\ BuildShape'
      BY <3>1, <3>2, <3>3, BuildSet
    <3> QED BY <1>2, <2>2, <3>4 DEF NewTemplate, TypeOK, CallShape, redis, db, node
  <2> QED BY <2>1, <2>2
<1>3. ASSUME NEW r \in Reward, BuildWindow(r) PROVE TypeOK'
  <2> DEFINE d == [reward |-> r, shares |-> shares, base |-> {}]
  <2>1. d \in Split
    BY DEF Split, TypeOK
  <2>2. CASE shares = 0
    <3>1. Resolve(r, d)
      BY <1>3, <2>2 DEF BuildWindow
    <3> HIDE DEF d
    <3>2. build' \in [Reward -> Build] /\ BuildShape'
      BY <3>1, EmptyRecords, BuildSet DEF Resolve, NoBuild
    <3> QED BY <1>3, <2>1, <3>1, <3>2
            DEF BuildWindow, Resolve, TypeOK, CallShape, redis, db, node
  <2>3. CASE shares # 0
    <3> DEFINE b == [build[r] EXCEPT !.pc = "balances", !.dist = d]
    <3>1. build' = [build EXCEPT ![r] = b]
      BY <1>3, <2>3 DEF BuildWindow, TypeOK
    <3>2. b \in Build /\ b.dist = d
      BY <2>1 DEF TypeOK, Build, BuildPC
    <3> HIDE DEF b, d
    <3>3. build' \in [Reward -> Build] /\ BuildShape'
      BY <2>1, <3>1, <3>2, BuildSet
    <3> QED BY <1>3, <2>3, <3>3 DEF BuildWindow, TypeOK, CallShape, redis, db, node
  <2> QED BY <2>2, <2>3
<1>4. ASSUME NEW r \in Reward, BuildBalances(r) PROVE TypeOK'
  <2> DEFINE d == [build[r].dist EXCEPT !.base = ledger]
             b == [build[r] EXCEPT !.pc = "delete", !.dist = d]
  <2>1. build[r].dist \in Split
    BY <1>4 DEF BuildBalances, TypeOK, BuildShape
  <2>2. d \in Split
    BY <2>1 DEF Split, TypeOK
  <2>3. build' = [build EXCEPT ![r] = b]
    BY ZenonT(60), <1>4 DEF BuildBalances, TypeOK
  <2> HIDE DEF d
  <2>4. b \in Build /\ b.dist = d
    BY <2>2 DEF TypeOK, Build, BuildPC
  <2> HIDE DEF b
  <2>5. build' \in [Reward -> Build] /\ BuildShape'
    BY <2>2, <2>3, <2>4, BuildSet
  <2> QED BY <1>4, <2>5 DEF BuildBalances, TypeOK, CallShape, redis, db, node
<1>5. ASSUME NEW r \in Reward, BuildDelete(r) PROVE TypeOK'
  <2> DEFINE b == [build[r] EXCEPT !.pc = "write"]
  <2>1. build' = [build EXCEPT ![r] = b]
    BY <1>5 DEF BuildDelete, TypeOK
  <2>2. b \in Build /\ b.dist = build[r].dist
    BY DEF TypeOK, Build, BuildPC
  <2>3. build[r].dist \in Split
    BY <1>5 DEF BuildDelete, TypeOK, BuildShape
  <2> HIDE DEF b
  <2>4. build' \in [Reward -> Build] /\ BuildShape'
    BY <2>1, <2>2, <2>3, BuildSet
  <2> QED BY <1>5, <2>4 DEF BuildDelete, TypeOK, CallShape, db, node
<1>6. ASSUME NEW r \in Reward, BuildWrite(r) PROVE TypeOK'
  <2>1. build[r].dist \in Split
    BY <1>6 DEF BuildWrite, TypeOK, BuildShape
  <2>2. build' \in [Reward -> Build] /\ BuildShape'
    BY <1>6, EmptyRecords, BuildSet DEF BuildWrite, Resolve, NoBuild
  <2> QED BY <1>6, <2>1, <2>2 DEF BuildWrite, Resolve, TypeOK, CallShape, db, node
<1>7. ASSUME NEW r \in Reward, BuildFails(r) PROVE TypeOK'
  <2>1. build' \in [Reward -> Build] /\ BuildShape'
    BY <1>7, EmptyRecords, BuildSet DEF BuildFails, NoBuild
  <2> QED BY <1>7, <2>1 DEF BuildFails, TypeOK, CallShape, redis, db, node
<1>8. ASSUME NEW r \in Reward, CacheExpires(r) PROVE TypeOK'
  BY <1>8 DEF CacheExpires, TypeOK, BuildShape, CallShape, redis, db, node
<1>9. CASE SnapshotExpires
  BY <1>9 DEF SnapshotExpires, TypeOK, BuildShape, CallShape, db, proc, node
<1>10. ASSUME NEW d \in jobs, SolveBlock(d) PROVE TypeOK'
  <2> DEFINE h == tip + 1
             c == [NoCall EXCEPT !.pc = "notify", !.reward = d.reward]
  <2>1. h \in Height /\ h \in 0..MaxHeight /\ d \in Split
    BY <1>10 DEF SolveBlock, TypeOK, Height
  <2>2. c \in Call /\ c.pc = "notify" /\ c.reward \in Reward
    BY <2>1 DEF Split, NoCall, Call
  <2>3. calls' = [calls EXCEPT ![h] = c]
    BY <1>10 DEF SolveBlock
  <2> HIDE DEF c
  <2>4. calls' \in [Height -> Call] /\ CallShape'
    BY <2>1, <2>2, <2>3, CallSet
  <2>5. build' \in [Reward -> Build] /\ BuildShape' /\ jobs' = {} /\ tip' = h
    BY <1>10, <2>1, MoveTipType DEF SolveBlock
  <2>6. chain' \in [Height -> Split \cup {None}]
    BY <1>10, <2>1 DEF SolveBlock, TypeOK
  <2> HIDE DEF h
  <2> QED BY <1>10, <2>1, <2>4, <2>5, <2>6 DEF SolveBlock, TypeOK, redis, db
<1>11. ASSUME NEW h \in Height, Enter(h) PROVE TypeOK'
  <2>1. calls' \in [Height -> Call] /\ CallShape'
    BY <1>11, GotoType DEF Enter, Locked, Over
  <2> QED BY <1>11, <2>1 DEF Enter, TypeOK, BuildShape, redis, db, node
<1>12. ASSUME NEW h \in Height, PreCheck(h) PROVE TypeOK'
  <2>1. calls' \in [Height -> Call] /\ CallShape'
    BY <1>12, GotoType DEF PreCheck, Leave, Locked, Over
  <2> QED BY <1>12, <2>1 DEF PreCheck, Leave, TypeOK, BuildShape, redis, db, node
<1>13. ASSUME NEW h \in Height, ReadSnapshot(h) PROVE TypeOK'
  <2>1. calls' \in [Height -> Call] /\ CallShape'
    <3>1. CASE Goto(h, "rewindow") \/ Goto(h, "discard")
      BY <1>13, <3>1, GotoType DEF ReadSnapshot, Locked, Over
    <3>2. CASE ~(Goto(h, "rewindow") \/ Goto(h, "discard"))
      <4> DEFINE c == [calls[h] EXCEPT !.pc = "window", !.dist = snapshot, !.exact = TRUE]
      <4>1. snapshot # None /\ snapshot.reward = calls[h].reward
        BY <1>13, <3>2 DEF ReadSnapshot
      <4>2. calls' = [calls EXCEPT ![h] = c]
        BY <1>13, <3>2, <4>1 DEF ReadSnapshot, TypeOK
      <4>3. snapshot \in Split /\ calls[h].reward \in Reward
        BY <1>13, <4>1 DEF ReadSnapshot, TypeOK, CallShape, Locked
      <4>4. /\ c \in Call /\ c.exact /\ c.dist = snapshot
            /\ c.reward = calls[h].reward
        BY <4>3 DEF TypeOK, Call, Locked
      <4> HIDE DEF c
      <4> QED BY <4>1, <4>2, <4>3, <4>4, CallSet
    <3> QED BY <3>1, <3>2
  <2> QED BY <1>13, <2>1 DEF ReadSnapshot, TypeOK, BuildShape, redis, db, node
<1>14. ASSUME NEW h \in Height, Discard(h) PROVE TypeOK'
  <2>1. calls' \in [Height -> Call] /\ CallShape'
    BY <1>14, GotoType DEF Discard, Locked, Over
  <2> QED BY <1>14, <2>1 DEF Discard, TypeOK, BuildShape, db, node
<1>15. ASSUME NEW h \in Height, ReadWindow(h) PROVE TypeOK'
  <2>1. calls' \in [Height -> Call] /\ CallShape'
    BY <1>15, GotoType DEF ReadWindow, Locked, Over
  <2> QED BY <1>15, <2>1 DEF ReadWindow, TypeOK, BuildShape, redis, db, node
<1>16. ASSUME NEW h \in Height, ReWindow(h) PROVE TypeOK'
  <2>1. calls' \in [Height -> Call] /\ CallShape'
    <3>1. CASE shares = 0
      BY <1>16, <3>1, GotoType DEF ReWindow, Leave, Locked, Over
    <3>2. CASE shares # 0
      <4> DEFINE d == [reward |-> calls[h].reward, shares |-> shares, base |-> {}]
                 c == [calls[h] EXCEPT !.pc = "rebalances", !.dist = d]
      <4>1. calls[h].reward \in Reward
        BY <1>16 DEF ReWindow, TypeOK, CallShape, Locked
      <4>2. d \in Split /\ d.reward = calls[h].reward
        BY <4>1 DEF Split, TypeOK
      <4>3. calls' = [calls EXCEPT ![h] = c]
        BY <1>16, <3>2 DEF ReWindow, TypeOK
      <4> HIDE DEF d
      <4>4. c \in Call /\ c.pc = "rebalances" /\ c.dist = d /\ c.reward = calls[h].reward
        BY <4>2 DEF TypeOK, Call, Locked
      <4> HIDE DEF c
      <4> QED BY <4>1, <4>2, <4>3, <4>4, CallSet
    <3> QED BY <3>1, <3>2
  <2> QED BY <1>16, <2>1 DEF ReWindow, Leave, TypeOK, BuildShape, redis, db, node
<1>17. ASSUME NEW h \in Height, ReBalances(h) PROVE TypeOK'
  <2> DEFINE d == [calls[h].dist EXCEPT !.base = ledger]
             c == [calls[h] EXCEPT !.pc = "apply", !.dist = d]
  <2>1. /\ calls[h].dist \in Split /\ calls[h].reward \in Reward
        /\ calls[h].dist.reward = calls[h].reward
    BY <1>17 DEF ReBalances, TypeOK, CallShape, Locked
  <2>2. d \in Split /\ d.reward = calls[h].reward
    BY <2>1 DEF Split, TypeOK
  <2>3. calls' = [calls EXCEPT ![h] = c]
    BY ZenonT(60), <1>17 DEF ReBalances, TypeOK
  <2> HIDE DEF d
  <2>4. c \in Call /\ c.pc = "apply" /\ c.dist = d /\ c.reward = calls[h].reward
    BY <2>2 DEF TypeOK, Call, Locked
  <2> HIDE DEF c
  <2>5. calls' \in [Height -> Call] /\ CallShape'
    BY <2>1, <2>2, <2>3, <2>4, CallSet
  <2> QED BY <1>17, <2>5 DEF ReBalances, TypeOK, BuildShape, redis, db, node
<1>18. ASSUME NEW h \in Height, Apply(h) PROVE TypeOK'
  <2>1. calls' \in [Height -> Call] /\ CallShape'
    BY <1>18, GotoType DEF Apply, Leave, Locked, Over
  <2>2. calls[h].dist \in Split
    BY <1>18 DEF Apply, TypeOK, CallShape
  <2>3. ledger' \in SUBSET Height /\ history' \in [Height -> Split \cup {None}]
    BY <1>18, <2>2 DEF Apply, TypeOK, Split, db
  <2> QED BY <1>18, <2>1, <2>3 DEF Apply, Leave, TypeOK, BuildShape, redis, node
<1>19. ASSUME NEW h \in Height, Cleanup(h) PROVE TypeOK'
  <2>1. calls' \in [Height -> Call] /\ CallShape'
    BY <1>19, GotoType DEF Cleanup, Leave, Locked, Over
  <2> QED BY <1>19, <2>1 DEF Cleanup, Leave, TypeOK, BuildShape, db, node
<1>20. ASSUME NEW h \in Height, Fail(h) PROVE TypeOK'
  <2>1. calls' \in [Height -> Call] /\ CallShape'
    BY <1>20, GotoType DEF Fail, Locked, Over
  <2> QED BY <1>20, <2>1 DEF Fail, TypeOK, BuildShape, redis, db, node
<1>21. CASE Restart
  <2>1. \A h \in Height : [calls[h] EXCEPT !.pc = "failed"] \in Call
    BY DEF TypeOK, Call, Locked, Over
  <2>2. \A h \in Height : calls'[h].pc \in Over
    BY <1>21 DEF Restart, TypeOK, Call, Over
  <2>3. CallShape'
    BY <2>2 DEF CallShape, Locked, Over
  <2>4. BuildShape'
    BY <1>21 DEF Restart, BuildShape, NoBuild
  <2>5. calls' \in [Height -> Call]
    BY <1>21, <2>1 DEF Restart, TypeOK
  <2> QED BY <1>21, <2>3, <2>4, <2>5, EmptyRecords DEF Restart, TypeOK, redis, db, node
<1>22. CASE Reorg
  <2>1. build' \in [Reward -> Build] /\ BuildShape' /\ jobs' = {} /\ tip' = tip - 1
    BY <1>22, MoveTipType DEF Reorg, TypeOK
  <2>2. chain' \in [Height -> Split \cup {None}]
    BY <1>22 DEF Reorg, TypeOK
  <2>3. tip' \in 0..MaxHeight /\ reorgs' \in 0..MaxReorgs
    BY <1>22, <2>1 DEF Reorg, TypeOK
  <2> QED BY <1>22, <2>1, <2>2, <2>3 DEF Reorg, TypeOK, CallShape, redis, db
<1>23. CASE UNCHANGED vars
  BY <1>23 DEF TypeOK, BuildShape, CallShape, vars, redis, db, proc, node
<1> QED BY <1>1, <1>2, <1>3, <1>4, <1>5, <1>6, <1>7, <1>8, <1>9, <1>10, <1>11, <1>12,
        <1>13, <1>14, <1>15, <1>16, <1>17, <1>18, <1>19, <1>20, <1>21, <1>22, <1>23
    DEF Next, BuildStep, CallStep

\* Type correctness: the value of every variable, and the distribution and
\* reward that each point of a build or of onBlockFound relies on being there.
THEOREM TypeCorrect == Spec => []TypeOK
  BY InitTypeOK, StepTypeOK, PTL DEF Spec

-------------------------------------------------------------------------------
(* What a jump changes. *)

LEMMA GotoEffect ==
  ASSUME TypeOK, NEW h \in Height, NEW p, Goto(h, p)
  PROVE  /\ calls'[h].pc = p
         /\ \A k \in Height \ {h} : calls'[k].pc = calls[k].pc
         /\ \A k \in Height : /\ calls'[k].dist = calls[k].dist
                              /\ calls'[k].reward = calls[k].reward
                              /\ calls'[k].exact = calls[k].exact
  BY DEF Goto, TypeOK, Call

\* The steps that give a call its distribution.
LEMMA TakeEffect ==
  ASSUME TypeOK, NEW h \in Height, NEW c \in Call, calls' = [calls EXCEPT ![h] = c]
  PROVE  /\ calls'[h] = c
         /\ \A k \in Height \ {h} : calls'[k] = calls[k]
  BY DEF TypeOK

LEMMA ReadSnapshotEffect ==
  ASSUME TypeOK, NEW h \in Height, ReadSnapshot(h)
  PROVE  \/ Goto(h, "rewindow") \/ Goto(h, "discard")
         \/ /\ snapshot # None
            /\ calls'[h].pc = "window" /\ calls'[h].dist = snapshot
            /\ calls'[h].exact /\ calls'[h].reward = calls[h].reward
            /\ \A k \in Height \ {h} : calls'[k] = calls[k]
  BY DEF ReadSnapshot, TypeOK, Call

LEMMA ReWindowEffect ==
  ASSUME TypeOK, NEW h \in Height, ReWindow(h), shares # 0
  PROVE  /\ calls'[h].pc = "rebalances" /\ calls'[h].dist.base = {}
         /\ calls'[h].reward = calls[h].reward
         /\ \A k \in Height \ {h} : calls'[k] = calls[k]
  BY DEF ReWindow, TypeOK, Call

LEMMA ReBalancesEffect ==
  ASSUME TypeOK, NEW h \in Height, ReBalances(h)
  PROVE  /\ calls'[h].pc = "apply" /\ calls'[h].dist.base = ledger
         /\ calls'[h].reward = calls[h].reward
         /\ \A k \in Height \ {h} : calls'[k] = calls[k]
<1>1. calls[h].dist \in Split
  BY DEF ReBalances, TypeOK, CallShape
<1> QED BY <1>1 DEF ReBalances, TypeOK, Call, Split

LEMMA SolveBlockEffect ==
  ASSUME TypeOK, NEW d \in jobs, SolveBlock(d)
  PROVE  /\ tip + 1 \in Height /\ d \in Split
         /\ calls[tip + 1].pc \in Over
         /\ calls'[tip + 1].pc = "notify" /\ calls'[tip + 1].dist = None
         /\ calls'[tip + 1].reward = d.reward
         /\ \A k \in Height \ {tip + 1} : calls'[k] = calls[k]
<1> DEFINE c == [NoCall EXCEPT !.pc = "notify", !.reward = d.reward]
<1>1. c.pc = "notify" /\ c.dist = None /\ c.reward = d.reward
  BY DEF NoCall
<1>2. calls' = [calls EXCEPT ![tip + 1] = c] /\ tip + 1 \in Height
  BY DEF SolveBlock
<1> HIDE DEF c
<1> QED BY <1>1, <1>2 DEF SolveBlock, TypeOK

\* The steps that leave the calls alone.
Elsewhere ==
    \/ RecordShare \/ SnapshotExpires \/ Reorg \/ UNCHANGED vars
    \/ \E r \in Reward : NewTemplate(r) \/ BuildStep(r) \/ BuildFails(r) \/ CacheExpires(r)

LEMMA ElsewhereEffect ==
  ASSUME Elsewhere
  PROVE  UNCHANGED <<calls, busy, history, ledger>>
  BY DEF Elsewhere, RecordShare, SnapshotExpires, Reorg, NewTemplate, BuildStep,
         BuildWindow, BuildBalances, BuildDelete, BuildWrite, BuildFails, CacheExpires,
         Resolve, vars, redis, db, proc, node

-------------------------------------------------------------------------------
(* One booking at a time. *)

LEMMA StepOneBooking == TypeOK /\ OneBooking /\ [Next]_vars => OneBooking'
<1> SUFFICES ASSUME TypeOK, OneBooking, [Next]_vars PROVE OneBooking'
  OBVIOUS
<1>1. CASE Elsewhere
  BY <1>1, ElsewhereEffect DEF OneBooking
<1>2. ASSUME NEW d \in jobs, SolveBlock(d) PROVE OneBooking'
  <2>1. busy' = busy /\ calls'[tip + 1].pc = "notify"
    BY <1>2, SolveBlockEffect DEF SolveBlock
  <2> QED BY <1>2, <2>1, SolveBlockEffect DEF OneBooking, Locked, Over
<1>3. ASSUME NEW h \in Height, Enter(h) PROVE OneBooking'
  BY <1>3, GotoEffect DEF Enter, OneBooking, Locked
<1>4. ASSUME NEW h \in Height, PreCheck(h) PROVE OneBooking'
  BY <1>4, GotoEffect DEF PreCheck, Leave, OneBooking, Locked
<1>5. ASSUME NEW h \in Height, ReadSnapshot(h) PROVE OneBooking'
  <2>1. /\ calls[h].pc \in Locked /\ calls'[h].pc \in Locked /\ busy' = busy
        /\ \A k \in Height \ {h} : calls'[k].pc = calls[k].pc
    BY <1>5, GotoEffect, ReadSnapshotEffect DEF ReadSnapshot, Locked
  <2> QED BY <2>1 DEF OneBooking
<1>6. ASSUME NEW h \in Height, Discard(h) PROVE OneBooking'
  BY <1>6, GotoEffect DEF Discard, OneBooking, Locked
<1>7. ASSUME NEW h \in Height, ReadWindow(h) PROVE OneBooking'
  BY <1>7, GotoEffect DEF ReadWindow, OneBooking, Locked
<1>8. ASSUME NEW h \in Height, ReWindow(h) PROVE OneBooking'
  <2>1. CASE shares = 0
    BY <1>8, <2>1, GotoEffect DEF ReWindow, Leave, OneBooking, Locked
  <2>2. CASE shares # 0
    BY <1>8, <2>2, ReWindowEffect DEF ReWindow, OneBooking, Locked
  <2> QED BY <2>1, <2>2
<1>9. ASSUME NEW h \in Height, ReBalances(h) PROVE OneBooking'
  <2>1. /\ calls[h].pc \in Locked /\ calls'[h].pc \in Locked /\ busy' = busy
        /\ \A k \in Height \ {h} : calls'[k].pc = calls[k].pc
    BY <1>9, ReBalancesEffect DEF ReBalances, Locked
  <2> QED BY <2>1 DEF OneBooking
<1>10. ASSUME NEW h \in Height, Apply(h) PROVE OneBooking'
  BY <1>10, GotoEffect DEF Apply, Leave, OneBooking, Locked
<1>11. ASSUME NEW h \in Height, Cleanup(h) PROVE OneBooking'
  BY <1>11, GotoEffect DEF Cleanup, Leave, OneBooking, Locked
<1>12. ASSUME NEW h \in Height, Fail(h) PROVE OneBooking'
  <2>1. /\ calls'[h].pc = "failed" /\ busy' = (busy /\ calls[h].pc = "notify")
        /\ \A k \in Height \ {h} : calls'[k].pc = calls[k].pc
    BY <1>12, GotoEffect DEF Fail
  <2>2. CASE calls[h].pc = "notify"
    BY <2>1, <2>2 DEF OneBooking, Locked
  <2>3. CASE calls[h].pc \in Locked
    BY <2>1, <2>3 DEF OneBooking, Locked
  <2> QED BY <1>12, <2>2, <2>3 DEF Fail
<1>13. CASE Restart
  <2>1. \A h \in Height : calls'[h].pc \notin Locked
    BY <1>13 DEF Restart, TypeOK, Call, Locked, Over
  <2> QED BY <1>13, <2>1 DEF Restart, OneBooking
<1> QED BY <1>1, <1>2, <1>3, <1>4, <1>5, <1>6, <1>7, <1>8, <1>9, <1>10, <1>11, <1>12, <1>13
    DEF Next, CallStep, Elsewhere

\* At most one block is being booked and the flag says so, for any number of
\* blocks found at once.
THEOREM BookingIsExclusive == Spec => []OneBooking
<1>1. Init => OneBooking
  BY DEF Init, NoCall, OneBooking, Locked
<1> QED BY <1>1, StepOneBooking, TypeCorrect, PTL DEF Spec

-------------------------------------------------------------------------------
(* Balances and distributions rest on rows that are there. *)

\* A step without a booking: nothing but what it creates has to be looked at.
LEMMA BackedStays ==
  ASSUME LedgerBacked, UNCHANGED <<ledger, history>>,
         snapshot' = snapshot \/ Backed(snapshot'),
         \A d \in jobs' : d \in jobs \/ Backed(d),
         \A r \in Reward : cache'[r] = cache[r] \/ Backed(cache'[r]),
         \A r \in Reward : build'[r].dist = build[r].dist \/ Backed(build'[r].dist),
         \A h \in Height : calls'[h].dist = calls[h].dist \/ Backed(calls'[h].dist)
  PROVE  LedgerBacked'
<1>1. Booked' = Booked
  BY DEF Booked
<1>2. Backed(snapshot') /\ \A d \in jobs' : Backed(d)
  <2>1. Backed(snapshot')
    BY DEF LedgerBacked, Backed
  <2> QED BY <2>1 DEF LedgerBacked
<1>3. \A r \in Reward : Backed(cache'[r]) /\ Backed(build'[r].dist)
  <2>1. \A r \in Reward : Backed(cache'[r])
    BY DEF LedgerBacked, Backed
  <2>2. \A r \in Reward : Backed(build'[r].dist)
    BY DEF LedgerBacked, Backed
  <2> QED BY <2>1, <2>2
<1>4. \A h \in Height : Backed(calls'[h].dist)
  BY DEF LedgerBacked, Backed
<1> QED BY <1>1, <1>2, <1>3, <1>4 DEF LedgerBacked, Backed

LEMMA StepLedgerBacked == TypeOK /\ LedgerBacked /\ [Next]_vars => LedgerBacked'
<1> SUFFICES ASSUME TypeOK, LedgerBacked, [Next]_vars PROVE LedgerBacked'
  OBVIOUS
<1>0. Backed(None) /\ \A d : d.base = {} => Backed(d)
  BY DEF Backed
<1>1. CASE RecordShare
  BY <1>0, <1>1, BackedStays DEF RecordShare, db
<1>2. ASSUME NEW r \in Reward, NewTemplate(r) PROVE LedgerBacked'
  <2>1. \A s \in Reward : build'[s].dist = build[s].dist
    BY <1>2 DEF NewTemplate, TypeOK, Build
  <2>2. \A d \in jobs' : d \in jobs \/ Backed(d)
    BY <1>2 DEF NewTemplate, LedgerBacked
  <2> QED BY <1>2, <2>1, <2>2, BackedStays DEF NewTemplate, redis, db
<1>3. ASSUME NEW r \in Reward, BuildWindow(r) PROVE LedgerBacked'
  <2> DEFINE d == [reward |-> r, shares |-> shares, base |-> {}]
  <2>1. Backed(d)
    BY <1>0
  <2>2. CASE shares = 0
    <3>1. Resolve(r, d) /\ NoBuild.dist = None
      BY <1>3, <2>2 DEF BuildWindow, NoBuild
    <3> HIDE DEF d
    <3>2. \A s \in Reward : /\ (cache'[s] = cache[s] \/ Backed(cache'[s]))
                           /\ (build'[s].dist = build[s].dist \/ Backed(build'[s].dist))
      BY <1>0, <2>1, <3>1 DEF Resolve, TypeOK
    <3> QED BY <1>3, <2>1, <3>1, <3>2, BackedStays DEF BuildWindow, Resolve, redis, db
  <2>3. CASE shares # 0
    <3>1. build' = [build EXCEPT ![r].pc = "balances", ![r].dist = d]
      BY <1>3, <2>3 DEF BuildWindow
    <3> HIDE DEF d
    <3>2. \A s \in Reward : build'[s].dist = build[s].dist \/ build'[s].dist = d
      BY <3>1 DEF TypeOK, Build
    <3> QED BY <1>3, <2>1, <2>3, <3>2, BackedStays DEF BuildWindow, redis, db
  <2> QED BY <2>2, <2>3
<1>4. ASSUME NEW r \in Reward, BuildBalances(r) PROVE LedgerBacked'
  <2>1. build[r].dist \in Split
    BY <1>4 DEF BuildBalances, TypeOK, BuildShape
  <2>2. /\ build'[r].dist.base = ledger
        /\ \A s \in Reward \ {r} : build'[s] = build[s]
    BY <1>4, <2>1 DEF BuildBalances, TypeOK, Build, Split
  <2>3. Backed(build'[r].dist)
    BY <2>2 DEF LedgerBacked, Backed
  <2> QED BY <1>4, <2>2, <2>3, BackedStays DEF BuildBalances, redis, db
<1>5. ASSUME NEW r \in Reward, BuildDelete(r) PROVE LedgerBacked'
  <2>1. \A s \in Reward : build'[s].dist = build[s].dist
    BY <1>5 DEF BuildDelete, TypeOK, Build
  <2> QED BY <1>0, <1>5, <2>1, BackedStays DEF BuildDelete, db
<1>6. ASSUME NEW r \in Reward, BuildWrite(r) PROVE LedgerBacked'
  <2> DEFINE d == build[r].dist
  <2>1. Backed(d) /\ snapshot' = d /\ Resolve(r, d) /\ NoBuild.dist = None
    BY <1>6 DEF BuildWrite, LedgerBacked, NoBuild
  <2> HIDE DEF d
  <2>2. \A s \in Reward : /\ (cache'[s] = cache[s] \/ Backed(cache'[s]))
                         /\ (build'[s].dist = build[s].dist \/ Backed(build'[s].dist))
    BY <1>0, <2>1 DEF Resolve, TypeOK
  <2> QED BY <1>6, <2>1, <2>2, BackedStays DEF BuildWrite, Resolve, db
<1>7. ASSUME NEW r \in Reward, BuildFails(r) PROVE LedgerBacked'
  <2>1. \A s \in Reward : build'[s].dist = build[s].dist \/ Backed(build'[s].dist)
    BY <1>0, <1>7 DEF BuildFails, TypeOK, NoBuild
  <2> QED BY <1>7, <2>1, BackedStays DEF BuildFails, redis, db
<1>8. ASSUME NEW r \in Reward, CacheExpires(r) PROVE LedgerBacked'
  BY <1>0, <1>8, BackedStays DEF CacheExpires, TypeOK, redis, db
<1>9. CASE SnapshotExpires
  BY <1>0, <1>9, BackedStays DEF SnapshotExpires, db, proc
<1>10. ASSUME NEW d \in jobs, SolveBlock(d) PROVE LedgerBacked'
  <2>1. \A s \in Reward : build'[s].dist = build[s].dist
    BY <1>10 DEF SolveBlock, MoveTip, TypeOK, Build
  <2>2. \A h \in Height : calls'[h].dist = calls[h].dist \/ calls'[h].dist = None
    BY <1>10, SolveBlockEffect
  <2> QED BY <1>0, <1>10, <2>1, <2>2, BackedStays DEF SolveBlock, MoveTip, redis, db
<1>11. ASSUME NEW h \in Height, Enter(h) PROVE LedgerBacked'
  <2>1. \A k \in Height : calls'[k].dist = calls[k].dist
    BY <1>11, GotoEffect DEF Enter
  <2> QED BY <1>0, <1>11, <2>1, BackedStays DEF Enter, redis, db
<1>12. ASSUME NEW h \in Height, PreCheck(h) PROVE LedgerBacked'
  <2>1. \A k \in Height : calls'[k].dist = calls[k].dist
    BY <1>12, GotoEffect DEF PreCheck, Leave
  <2> QED BY <1>12, <2>1, BackedStays DEF PreCheck, redis, db
<1>13. ASSUME NEW h \in Height, ReadSnapshot(h) PROVE LedgerBacked'
  <2>1. \A k \in Height : calls'[k].dist = calls[k].dist \/ calls'[k].dist = snapshot
    BY <1>13, GotoEffect, ReadSnapshotEffect
  <2> QED BY <1>13, <2>1, BackedStays DEF ReadSnapshot, LedgerBacked, redis, db
<1>14. ASSUME NEW h \in Height, Discard(h) PROVE LedgerBacked'
  <2>1. \A k \in Height : calls'[k].dist = calls[k].dist
    BY <1>14, GotoEffect DEF Discard
  <2> QED BY <1>0, <1>14, <2>1, BackedStays DEF Discard, db
<1>15. ASSUME NEW h \in Height, ReadWindow(h) PROVE LedgerBacked'
  <2>1. \A k \in Height : calls'[k].dist = calls[k].dist
    BY <1>15, GotoEffect DEF ReadWindow
  <2> QED BY <1>15, <2>1, BackedStays DEF ReadWindow, redis, db
<1>16. ASSUME NEW h \in Height, ReWindow(h) PROVE LedgerBacked'
  <2>1. \A k \in Height : calls'[k].dist = calls[k].dist \/ Backed(calls'[k].dist)
    <3>1. CASE shares = 0
      BY <1>16, <3>1, GotoEffect DEF ReWindow, Leave
    <3>2. CASE shares # 0
      BY <1>0, <1>16, <3>2, ReWindowEffect
    <3> QED BY <3>1, <3>2
  <2> QED BY <1>16, <2>1, BackedStays DEF ReWindow, redis, db
<1>17. ASSUME NEW h \in Height, ReBalances(h) PROVE LedgerBacked'
  <2>1. Backed(calls'[h].dist) /\ \A k \in Height \ {h} : calls'[k].dist = calls[k].dist
    BY <1>17, ReBalancesEffect DEF LedgerBacked, Backed
  <2> QED BY <1>17, <2>1, BackedStays DEF ReBalances, redis, db
<1>18. ASSUME NEW h \in Height, Apply(h) PROVE LedgerBacked'
  <2> DEFINE d == calls[h].dist
  <2>1. d \in Split /\ d # None /\ d.base \subseteq Booked
    BY <1>18, EngineAssumption DEF Apply, TypeOK, CallShape, LedgerBacked, Backed
  <2>2. \A k \in Height : calls'[k].dist = calls[k].dist
    BY <1>18, GotoEffect DEF Apply, Leave
  <2>3. CASE history[h] = None
    <3>1. history' = [history EXCEPT ![h] = d] /\ ledger' = d.base \cup {h}
      BY <1>18, <2>3 DEF Apply
    <3>2. Booked' = Booked \cup {h}
      BY <2>1, <3>1 DEF Booked, TypeOK
    <3> QED BY <1>18, <2>1, <2>2, <3>1, <3>2 DEF Apply, LedgerBacked, Backed, redis
  <2>4. CASE history[h] # None
    BY <1>18, <2>2, <2>4, BackedStays DEF Apply, redis, db
  <2> QED BY <2>3, <2>4
<1>19. ASSUME NEW h \in Height, Cleanup(h) PROVE LedgerBacked'
  <2>1. \A k \in Height : calls'[k].dist = calls[k].dist
    BY <1>19, GotoEffect DEF Cleanup, Leave
  <2> QED BY <1>0, <1>19, <2>1, BackedStays DEF Cleanup, db
<1>20. ASSUME NEW h \in Height, Fail(h) PROVE LedgerBacked'
  <2>1. \A k \in Height : calls'[k].dist = calls[k].dist
    BY <1>20, GotoEffect DEF Fail
  <2> QED BY <1>20, <2>1, BackedStays DEF Fail, redis, db
<1>21. CASE Restart
  <2>1. \A k \in Height : calls'[k].dist = calls[k].dist
    BY <1>21 DEF Restart, TypeOK, Call
  <2>2. \A r \in Reward : build'[r].dist = None /\ cache'[r] = None
    BY <1>21 DEF Restart, NoBuild
  <2> QED BY <1>0, <1>21, <2>1, <2>2, BackedStays DEF Restart, redis, db
<1>22. CASE Reorg
  <2>1. \A s \in Reward : build'[s].dist = build[s].dist
    BY <1>22 DEF Reorg, MoveTip, TypeOK, Build
  <2> QED BY <1>22, <2>1, BackedStays DEF Reorg, MoveTip, redis, db
<1>23. CASE UNCHANGED vars
  BY <1>23, BackedStays DEF vars, redis, db, proc
<1> QED BY <1>1, <1>2, <1>3, <1>4, <1>5, <1>6, <1>7, <1>8, <1>9, <1>10, <1>11, <1>12,
        <1>13, <1>14, <1>15, <1>16, <1>17, <1>18, <1>19, <1>20, <1>21, <1>22, <1>23
    DEF Next, BuildStep, CallStep

\* Whatever is applied, built, cached, stored or mined on reflects only
\* bookings that have their history rows.
THEOREM LedgerIsBacked == Spec => []LedgerBacked
<1>1. Init => LedgerBacked
  BY DEF Init, NoBuild, NoCall, LedgerBacked, Backed
<1> QED BY <1>1, StepLedgerBacked, TypeCorrect, PTL DEF Spec

-------------------------------------------------------------------------------
(* A recomputed distribution is current. *)

LEMMA StepRecomputeIsCurrent ==
  TypeOK /\ OneBooking /\ RecomputeIsCurrent /\ [Next]_vars => RecomputeIsCurrent'
<1> SUFFICES ASSUME TypeOK, OneBooking, RecomputeIsCurrent, [Next]_vars
             PROVE  RecomputeIsCurrent'
  OBVIOUS
<1>1. CASE Elsewhere
  BY <1>1, ElsewhereEffect DEF RecomputeIsCurrent
<1>2. ASSUME NEW d \in jobs, SolveBlock(d) PROVE RecomputeIsCurrent'
  <2>1. ledger' = ledger
    BY <1>2 DEF SolveBlock, db
  <2> QED BY <1>2, <2>1, SolveBlockEffect DEF RecomputeIsCurrent
\* Jumps to a point other than apply.
<1>3. ASSUME NEW h \in Height, NEW p, Goto(h, p), p # "apply", ledger' = ledger
      PROVE  RecomputeIsCurrent'
  BY <1>3, GotoEffect DEF RecomputeIsCurrent
<1>4. ASSUME NEW h \in Height, Enter(h) PROVE RecomputeIsCurrent'
  BY <1>3, <1>4 DEF Enter, db
<1>5. ASSUME NEW h \in Height, PreCheck(h) PROVE RecomputeIsCurrent'
  BY <1>3, <1>5 DEF PreCheck, Leave, db
<1>6. ASSUME NEW h \in Height, ReadSnapshot(h) PROVE RecomputeIsCurrent'
  <2>1. ledger' = ledger
    BY <1>6 DEF ReadSnapshot, db
  <2> QED BY <1>3, <1>6, <2>1, ReadSnapshotEffect DEF RecomputeIsCurrent
<1>7. ASSUME NEW h \in Height, Discard(h) PROVE RecomputeIsCurrent'
  BY <1>3, <1>7 DEF Discard, db
\* The jump to apply with a snapshot is exact.
<1>8. ASSUME NEW h \in Height, ReadWindow(h) PROVE RecomputeIsCurrent'
  <2>1. calls[h].exact /\ ledger' = ledger
    BY <1>8 DEF ReadWindow, TypeOK, CallShape, db
  <2> QED BY <1>8, <2>1, GotoEffect DEF ReadWindow, RecomputeIsCurrent
<1>9. ASSUME NEW h \in Height, ReWindow(h) PROVE RecomputeIsCurrent'
  <2>1. ledger' = ledger
    BY <1>9 DEF ReWindow, db
  <2>2. CASE shares = 0
    BY <1>3, <1>9, <2>1, <2>2 DEF ReWindow, Leave
  <2>3. CASE shares # 0
    BY <1>9, <2>1, <2>3, ReWindowEffect DEF RecomputeIsCurrent
  <2> QED BY <2>2, <2>3
<1>10. ASSUME NEW h \in Height, ReBalances(h) PROVE RecomputeIsCurrent'
  <2>1. ledger' = ledger
    BY <1>10 DEF ReBalances, db
  <2> QED BY <1>10, <2>1, ReBalancesEffect DEF RecomputeIsCurrent
\* The only step that moves the balances; no other call is about to apply.
<1>11. ASSUME NEW h \in Height, Apply(h) PROVE RecomputeIsCurrent'
  <2>1. calls'[h].pc # "apply" /\ \A k \in Height \ {h} : calls'[k].pc = calls[k].pc
    BY <1>11, GotoEffect DEF Apply, Leave
  <2>2. \A k \in Height \ {h} : calls[k].pc # "apply"
    BY <1>11 DEF Apply, OneBooking, Locked
  <2> QED BY <2>1, <2>2 DEF RecomputeIsCurrent
<1>12. ASSUME NEW h \in Height, Cleanup(h) PROVE RecomputeIsCurrent'
  BY <1>3, <1>12 DEF Cleanup, Leave, db
<1>13. ASSUME NEW h \in Height, Fail(h) PROVE RecomputeIsCurrent'
  BY <1>3, <1>13 DEF Fail, db
<1>14. CASE Restart
  <2>1. \A h \in Height : calls'[h].pc # "apply"
    BY <1>14 DEF Restart, TypeOK, Call, Over
  <2> QED BY <2>1 DEF RecomputeIsCurrent
<1> QED BY <1>1, <1>2, <1>4, <1>5, <1>6, <1>7, <1>8, <1>9, <1>10, <1>11, <1>12, <1>13, <1>14
    DEF Next, CallStep, Elsewhere

\* A distribution recomputed without a snapshot meets the balances it was
\* computed from, however many blocks are found meanwhile.
THEOREM RecomputeMeetsBalances == Spec => []RecomputeIsCurrent
<1>1. Init => RecomputeIsCurrent
  BY DEF Init, NoCall, RecomputeIsCurrent
<1> QED BY <1>1, StepRecomputeIsCurrent, TypeCorrect, BookingIsExclusive, PTL DEF Spec

\* onBlockFound's flag: the bookings exclude each other, and so no balances move under
\* the one that recomputes its distribution, for any number of blocks and rewards.
THEOREM EngineIsSafe == Spec => []EngineSafe
  BY TypeCorrect, BookingIsExclusive, RecomputeMeetsBalances, PTL DEF EngineSafe

-------------------------------------------------------------------------------
(* Bookings. *)

LEMMA HistoryEffect ==
  ASSUME [Next]_vars
  PROVE  history' = history \/ \E h \in Height : Apply(h)
  BY DEF Next, RecordShare, NewTemplate, BuildStep, BuildWindow, BuildBalances, BuildDelete,
         BuildWrite, BuildFails, CacheExpires, SnapshotExpires, SolveBlock, CallStep, Enter,
         PreCheck, ReadSnapshot, Discard, ReadWindow, ReWindow, ReBalances, Cleanup, Fail,
         Restart, Reorg, vars, redis, db, proc, node

\* No run books a height twice or changes what it was booked with.
THEOREM HeightBookedOnce == Spec => BookedOnce
<1>1. TypeOK /\ [Next]_vars => BookedOnceStep
  <2> SUFFICES ASSUME TypeOK, [Next]_vars PROVE BookedOnceStep
    OBVIOUS
  <2>1. CASE history' = history
    BY <2>1 DEF BookedOnceStep
  <2>2. ASSUME NEW h \in Height, Apply(h) PROVE BookedOnceStep
    BY <2>2 DEF Apply, BookedOnceStep, Booked, TypeOK, db
  <2> QED BY <2>1, <2>2, HistoryEffect
<1> QED BY <1>1, TypeCorrect, PTL DEF Spec, BookedOnce

-------------------------------------------------------------------------------
(* The engine implements PayoutBook. *)

Owed   == [h \in Height |-> calls[h].reward]
Rows   == [h \in Height |-> IF history[h] = None THEN None ELSE history[h].reward]

\* Only a block that is found changes what is owed.
LEMMA OwedEffect ==
  TypeOK /\ [Next]_vars =>
      \/ \A h \in Height : calls'[h].reward = calls[h].reward
      \/ \E d \in jobs : SolveBlock(d)
<1> SUFFICES ASSUME TypeOK, [Next]_vars, ~\E d \in jobs : SolveBlock(d)
             PROVE  \A h \in Height : calls'[h].reward = calls[h].reward
  OBVIOUS
<1> DEFINE Same == \A h \in Height : calls'[h].reward = calls[h].reward
<1>1. CASE Elsewhere
  BY <1>1, ElsewhereEffect
<1>2. ASSUME NEW h \in Height, NEW p, Goto(h, p) PROVE Same
  BY <1>2, GotoEffect
<1> HIDE DEF Same
<1>3. ASSUME NEW h \in Height, Enter(h) \/ PreCheck(h) \/ Discard(h) \/ ReadWindow(h)
                                \/ Apply(h) \/ Cleanup(h) \/ Fail(h)
      PROVE  Same
  BY <1>2, <1>3 DEF Enter, PreCheck, Discard, ReadWindow, Apply, Cleanup, Fail, Leave
<1>4. ASSUME NEW h \in Height, ReadSnapshot(h) PROVE Same
  BY <1>2, <1>4, ReadSnapshotEffect DEF Same
<1>5. ASSUME NEW h \in Height, ReWindow(h) PROVE Same
  <2>1. CASE shares = 0
    BY <1>2, <1>5, <2>1 DEF ReWindow, Leave
  <2>2. CASE shares # 0
    BY <1>5, <2>2, ReWindowEffect DEF Same
  <2> QED BY <2>1, <2>2
<1>6. ASSUME NEW h \in Height, ReBalances(h) PROVE Same
  BY <1>6, ReBalancesEffect DEF Same
<1>7. CASE Restart
  BY <1>7 DEF Same, Restart, TypeOK, Call
<1> QED BY <1>1, <1>3, <1>4, <1>5, <1>6, <1>7 DEF Next, CallStep, Elsewhere, Same

\* Every behaviour of the engine is one of the abstract book: SolveBlock is its
\* Find, a booking transaction that inserts rows its Settle, and every other
\* step changes neither what is owed nor what is booked.
THEOREM EngineKeepsBook == Spec => BookSpec
<1>1. Init => Book!Init
  BY DEF Init, NoCall, Book!Init
<1>2. TypeOK /\ [Next]_vars => [Book!Next]_<<Owed, Rows>>
  <2> SUFFICES ASSUME TypeOK, [Next]_vars PROVE [Book!Next]_<<Owed, Rows>>
    OBVIOUS
  <2>1. ASSUME NEW d \in jobs, SolveBlock(d) PROVE Book!Next
    <3>1. tip + 1 \in Height /\ d.reward \in Reward
      BY <2>1, SolveBlockEffect DEF Split
    <3>2. \A h \in Height : calls'[h].reward = IF h = tip + 1 THEN d.reward ELSE calls[h].reward
      BY <2>1, SolveBlockEffect
    <3>3. Owed' = [Owed EXCEPT ![tip + 1] = d.reward]
      BY <3>1, <3>2 DEF Owed
    <3>4. Rows' = Rows
      BY <2>1 DEF SolveBlock, db, Rows
    <3>5. Book!Find(tip + 1, d.reward)
      BY <3>3, <3>4 DEF Book!Find, Owed, Rows
    <3> QED BY <3>1, <3>5 DEF Book!Next
  <2>2. CASE \A h \in Height : calls'[h].reward = calls[h].reward
    <3>1. Owed' = Owed
      BY <2>2 DEF Owed
    <3>2. CASE history' = history
      BY <3>1, <3>2 DEF Rows
    <3>3. ASSUME NEW h \in Height, Apply(h), history' # history PROVE Book!Next
      <4>1. history[h] = None /\ history' = [history EXCEPT ![h] = calls[h].dist]
        BY <3>3 DEF Apply, db
      <4>2. /\ calls[h].dist # None /\ calls[h].dist.reward = calls[h].reward
            /\ calls[h].reward # None
        BY <3>3, EngineAssumption DEF Apply, TypeOK, CallShape, Locked
      <4>3. Rows[h] = None /\ Rows' = [Rows EXCEPT ![h] = Owed[h]]
        BY <4>1, <4>2 DEF Rows, Owed, TypeOK
      <4>4. Book!Settle(h)
        BY <3>1, <4>2, <4>3 DEF Book!Settle, Owed, Rows
      <4> QED BY <4>4 DEF Book!Next
    <3> QED BY <3>2, <3>3, HistoryEffect
  <2> QED BY <2>1, <2>2, OwedEffect
<1> QED BY <1>1, <1>2, TypeCorrect, PTL DEF Spec, BookSpec, Book!Spec, Owed, Rows
===============================================================================
