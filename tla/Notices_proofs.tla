----------------------------- MODULE Notices_proofs -----------------------------
(***************************************************************************)
(* MCSpec implies []CapacityIsTold and []NotificationsHold.                *)
(*                                                                         *)
(* The two components share no variable, so each has its own inductive     *)
(* invariant, and a step of one leaves the other's alone.                  *)
(***************************************************************************)
EXTENDS MCNotices, FiniteSetTheorems, TLAPS

-------------------------------------------------------------------------------
(* The capacity monitor.  What is said depends only on the levels: how a *)
(* utilisation becomes a level, and how many groups there are, is open.  *)

Bucket == Capacity!Bucket
Level  == {"below", "warning", "urgent"}
Word   == {"recovery", "warning", "urgent"}

\* The mail that goes with a level.
Says(word, level) == word = IF level = "below" THEN "recovery" ELSE level

MonitorTypeOK ==
    /\ config.redis \in BOOLEAN
    /\ active \subseteq Groups /\ left \subseteq Bucket \cup {"groups"}
    /\ state \in [Bucket -> [level : Level, age : 0..Reminder]]
    /\ last \in [Bucket -> [level : Word \cup {None}, age : 0..Reminder]]
    /\ seen \in [Bucket -> Level \cup {None}]
    /\ check \in {Capacity!NoCheck} \cup
                 [b : Bucket, pc : {"read", "send", "write"}, level : Level,
                  send : Word \cup {None}]

\* The check under way judges what it found, and once it is past its decision the
\* mail it has chosen says so.
CheckInOrder ==
    check # Capacity!NoCheck =>
        /\ seen[check.b] = check.level
        /\ check.pc \in {"send", "write"} => Says(check.send, check.level)
        /\ check.pc = "write" => /\ config.redis
                                 /\ last[check.b] = [level |-> check.send, age |-> 0]

\* What Redis remembers of a bucket is what its operator was told last, at the same
\* age; a bucket nobody was told of counts as fine.
InStep(b) ==
    /\ Says(last[b].level, state[b].level) \/ (last[b].level = None /\ state[b].level = "below")
    /\ last[b].age = state[b].age

MonitorInv ==
    /\ MonitorTypeOK
    /\ CheckInOrder
    /\ config.redis => \A b \in Bucket \ torn : InStep(b)
    /\ CapacityIsTold

LEMMA NoneIsApart ==
    /\ None \notin Bucket /\ None \notin Word \cup Level /\ None \notin {"read", "send", "write"}
    /\ Reminder \in Nat /\ Reminder > 0 /\ "pplns" \in Bucket /\ Groups \subseteq Bucket
    /\ "groups" \notin Bucket /\ "pplns" \notin Groups
BY CapacityAssumption DEF Capacity!LoadAssumption, Capacity!Bucket, Bucket, Word, Level

\* What decide makes of a level: silence only where the last mail still fits.
LEMMA DecisionSays ==
    ASSUME NEW prev \in [level : Level, age : 0..Reminder], NEW level \in Level
    PROVE  LET send == Capacity!Decide(prev, level)
           IN  /\ send \in Word \cup {None}
               /\ send # None => Says(send, level)
               /\ send = None =>
                    \/ prev.level = level /\ (level # "below" => prev.age < Reminder)
                    \/ prev.level = "urgent" /\ level = "warning"
BY NoneIsApart DEF Capacity!Decide, Says, Word, Level

LEMMA MonitorStarts == Capacity!Init => MonitorInv
<1> SUFFICES ASSUME Capacity!Init PROVE MonitorInv
  OBVIOUS
<1>1. MonitorTypeOK
  BY NoneIsApart DEF Capacity!Init, Capacity!Configured, Capacity!Fresh, MonitorTypeOK, Bucket,
     Level, Word
<1>2. CheckInOrder /\ CapacityIsTold
  BY DEF Capacity!Init, CheckInOrder, CapacityIsTold, Capacity!CapacityIsTold, Capacity!Waiting,
         Bucket
<1>3. \A b \in Bucket : InStep(b)
  BY DEF Capacity!Init, Capacity!Fresh, InStep, Bucket
<1> QED
  BY <1>1, <1>2, <1>3 DEF MonitorInv

\* Growing older keeps a record's level and its range, and depends on nothing but
\* its age.
LEMMA OlderKeeps ==
    ASSUME NEW S, NEW r \in [level : S, age : 0..Reminder]
    PROVE  /\ Capacity!Older(r) \in [level : S, age : 0..Reminder]
           /\ Capacity!Older(r).level = r.level
           /\ Capacity!Older(r).age = IF r.age < Reminder THEN r.age + 1 ELSE r.age
<1>1. r.level \in S /\ r.age \in 0..Reminder /\ r = [level |-> r.level, age |-> r.age]
  OBVIOUS
<1>2. Capacity!Older(r) =
        [level |-> r.level, age |-> IF r.age < Reminder THEN r.age + 1 ELSE r.age]
  BY <1>1 DEF Capacity!Older
<1> QED
  BY <1>1, <1>2, NoneIsApart

\* The decision of a check leaves it over, or with a mail that says what it found.
LEMMA JudgeMoves ==
    ASSUME NEW prev \in [level : Level, age : 0..Reminder], MonitorTypeOK,
           check # Capacity!NoCheck, Capacity!Judge(prev)
    PROVE  \/ /\ check' = Capacity!NoCheck
              /\ \/ prev.level = check.level /\ (check.level # "below" => prev.age < Reminder)
                 \/ prev.level = "urgent" /\ check.level = "warning"
           \/ /\ check' \in [b : Bucket, pc : {"send"}, level : Level, send : Word]
              /\ check'.b = check.b /\ check'.level = check.level
              /\ Says(check'.send, check.level)
<1> DEFINE send == Capacity!Decide(prev, check.level)
<1>1. check \in [b : Bucket, pc : {"read", "send", "write"}, level : Level,
                 send : Word \cup {None}]
  BY DEF MonitorTypeOK
<1>2. /\ send \in Word \cup {None}
      /\ send # None => Says(send, check.level)
      /\ send = None =>
           \/ prev.level = check.level /\ (check.level # "below" => prev.age < Reminder)
           \/ prev.level = "urgent" /\ check.level = "warning"
  BY <1>1, DecisionSays
<1>3. check' = IF send = None THEN Capacity!NoCheck ELSE [check EXCEPT !.pc = "send", !.send = send]
  BY DEF Capacity!Judge
<1> HIDE DEF send
<1> QED
  BY <1>1, <1>2, <1>3

\* One action at a time keeps the three parts that relate the mails, what Redis
\* remembers and what the check found.
LEMMA MonitorMoves == MonitorInv /\ [Capacity!Next]_monitor => MonitorInv'
<1> SUFFICES ASSUME MonitorInv, [Capacity!Next]_monitor PROVE MonitorInv'
  OBVIOUS
<1> DEFINE AllInStep == config.redis => \A b \in Bucket \ torn : InStep(b)
<1>0. MonitorTypeOK /\ CheckInOrder /\ AllInStep /\ CapacityIsTold
  BY DEF MonitorInv
<1> SUFFICES MonitorTypeOK' /\ CheckInOrder' /\ AllInStep' /\ CapacityIsTold'
  BY DEF MonitorInv
<1> USE NoneIsApart DEF Bucket, Capacity!Bucket, Capacity!NoCheck, Capacity!Waiting
<1>1. CASE Capacity!LoadChanges
  <2> USE <1>1, <1>0 DEF Capacity!LoadChanges
  <2>1. MonitorTypeOK'
    BY DEF MonitorTypeOK, Level, Word
  <2>2. CheckInOrder'
    BY DEF CheckInOrder, MonitorTypeOK
  <2>3. AllInStep'
    BY DEF InStep, MonitorTypeOK
  <2>4. CapacityIsTold'
    BY DEF MonitorTypeOK, CheckInOrder, InStep, CapacityIsTold, Capacity!CapacityIsTold, Capacity!Fits
  <2> QED
    BY <2>1, <2>2, <2>3, <2>4
<1>2. CASE Capacity!GroupChanges
  <2> USE <1>2, <1>0 DEF Capacity!GroupChanges
  <2>1. MonitorTypeOK'
    BY DEF MonitorTypeOK, Level, Word
  <2>2. CheckInOrder'
    BY DEF CheckInOrder, MonitorTypeOK
  <2>3. AllInStep'
    BY DEF InStep, MonitorTypeOK
  <2>4. CapacityIsTold'
    BY DEF MonitorTypeOK, CheckInOrder, InStep, CapacityIsTold, Capacity!CapacityIsTold, Capacity!Fits
  <2> QED
    BY <2>1, <2>2, <2>3, <2>4
<1>3. CASE Capacity!Hour
  <2> USE <1>3, <1>0 DEF Capacity!Hour
  <2>0. \A b \in Bucket : /\ state'[b] = Capacity!Older(state[b])
                           /\ last'[b] = Capacity!Older(last[b])
    OBVIOUS
  <2>1. MonitorTypeOK'
    <3>1. \A b \in Bucket : state[b] \in [level : Level, age : 0..Reminder]
      BY DEF MonitorTypeOK
    <3>2. \A b \in Bucket : last[b] \in [level : Word \cup {None}, age : 0..Reminder]
      BY DEF MonitorTypeOK
    <3>3. state' \in [Bucket -> [level : Level, age : 0..Reminder]]
      BY <3>1, OlderKeeps
    <3>4. last' \in [Bucket -> [level : Word \cup {None}, age : 0..Reminder]]
      BY <3>2, OlderKeeps
    <3> QED
      BY <3>3, <3>4 DEF MonitorTypeOK
  <2>2. CheckInOrder'
    BY DEF CheckInOrder, MonitorTypeOK
  <2>3. AllInStep'
    <3> SUFFICES ASSUME config.redis, NEW b \in Bucket \ torn PROVE InStep(b)'
      OBVIOUS
    <3>1. state[b] \in [level : Level, age : 0..Reminder]
      BY DEF MonitorTypeOK
    <3>2. last[b] \in [level : Word \cup {None}, age : 0..Reminder]
      BY DEF MonitorTypeOK
    <3>3. /\ Capacity!Older(state[b]).level = state[b].level
          /\ Capacity!Older(state[b]).age =
               IF state[b].age < Reminder THEN state[b].age + 1 ELSE state[b].age
      BY <3>1, OlderKeeps
    <3>4. /\ Capacity!Older(last[b]).level = last[b].level
          /\ Capacity!Older(last[b]).age =
               IF last[b].age < Reminder THEN last[b].age + 1 ELSE last[b].age
      BY <3>2, OlderKeeps
    <3>5. InStep(b) /\ state'[b] = Capacity!Older(state[b]) /\ last'[b] = Capacity!Older(last[b])
      BY <2>0
    <3> HIDE <1>0, <1>3 DEF Capacity!Hour
    <3> QED
      BY <3>3, <3>4, <3>5 DEF InStep
  <2>4. CapacityIsTold'
    BY DEF MonitorTypeOK, CheckInOrder, InStep, CapacityIsTold, Capacity!CapacityIsTold, Capacity!Fits
  <2> QED
    BY <2>1, <2>2, <2>3, <2>4
<1>3a. CASE Capacity!ListGroups
  <2> USE <1>3a, <1>0 DEF Capacity!ListGroups
  <2>1. MonitorTypeOK'
    BY DEF MonitorTypeOK, Level, Word
  <2>2. CheckInOrder'
    BY DEF CheckInOrder, MonitorTypeOK
  <2>3. AllInStep'
    BY DEF InStep, MonitorTypeOK
  <2>4. CapacityIsTold'
    <3> SUFFICES ASSUME NEW b \in Bucket \ (torn \cup failed \cup left'),
                        config.enabled, seen'[b] # None
                 PROVE  Capacity!Fits(b)'
      BY DEF CapacityIsTold, Capacity!CapacityIsTold
    <3>0. seen'[b] = IF b \in {"pplns"} \cup active THEN seen[b] ELSE None
      OBVIOUS
    <3>1. b = "pplns" /\ seen'[b] = seen[b] /\ b \notin Capacity!Waiting /\ check.b # b
      BY <3>0
    <3>2. Capacity!Fits(b)
      BY <3>1 DEF CapacityIsTold, Capacity!CapacityIsTold
    <3> QED
      BY <3>1, <3>2 DEF Capacity!Fits
  <2> QED
    BY <2>1, <2>2, <2>3, <2>4
<1>4. CASE Capacity!Evaluate
  <2> USE <1>4, <1>0 DEF Capacity!Evaluate
  <2>1. MonitorTypeOK'
    <3>1. \A p : Capacity!LevelFor(p) \in Level
      BY DEF Capacity!LevelFor, Level
    <3>2. left' \subseteq Bucket \cup {"groups"}
      BY DEF MonitorTypeOK
    <3>3. check' \in [b : Bucket, pc : {"read"}, level : Level, send : {None}]
      BY <3>1
    <3> QED
      BY <3>2, <3>3 DEF MonitorTypeOK
  <2>2. CheckInOrder'
    BY DEF CheckInOrder, MonitorTypeOK
  <2>3. AllInStep'
    BY DEF InStep, MonitorTypeOK
  <2>4. CapacityIsTold'
    BY DEF MonitorTypeOK, CheckInOrder, InStep, CapacityIsTold, Capacity!CapacityIsTold, Capacity!Fits
  <2> QED
    BY <2>1, <2>2, <2>3, <2>4
<1>5. CASE Capacity!ReadState
  <2> USE <1>5, <1>0 DEF Capacity!ReadState
  <2>0. \E prev \in [level : Level, age : 0..Reminder] :
           /\ Capacity!Judge(prev)
           /\ prev = IF config.redis THEN state[check.b] ELSE Capacity!Fresh
    BY DEF MonitorTypeOK, Capacity!Fresh, Level
  <2>1. MonitorTypeOK'
    BY <2>0, JudgeMoves DEF MonitorTypeOK
  <2>2. CheckInOrder'
    BY <2>0, JudgeMoves DEF CheckInOrder
  <2>3. AllInStep'
    BY DEF InStep, MonitorTypeOK
  <2>4. CapacityIsTold'
    <3> SUFFICES ASSUME NEW b \in Bucket \ (torn \cup failed \cup Capacity!Waiting),
                        config.enabled, check'.b # b, seen[b] # None
                 PROVE  Capacity!Fits(b)
      BY DEF CapacityIsTold, Capacity!CapacityIsTold, Capacity!Fits
    <3>1. CASE check.b # b
      BY <3>1 DEF CapacityIsTold, Capacity!CapacityIsTold
    <3>2. CASE check.b = b
      <4> PICK prev \in [level : Level, age : 0..Reminder] :
             /\ Capacity!Judge(prev)
             /\ prev = IF config.redis THEN state[check.b] ELSE Capacity!Fresh
        BY <2>0
      <4>1. /\ seen[b] = check.level /\ check.level \in Level
            /\ \/ prev.level = check.level /\ (check.level # "below" => prev.age < Reminder)
               \/ prev.level = "urgent" /\ check.level = "warning"
        BY <3>2, JudgeMoves DEF CheckInOrder, MonitorTypeOK
      <4>2. CASE config.redis
        BY <4>1, <4>2, <3>2 DEF InStep, Says, Capacity!Fits, Level
      <4>3. CASE ~config.redis
        BY <4>1, <4>3, <3>2 DEF Capacity!Fresh, Capacity!Fits, Level
      <4> QED
        BY <4>2, <4>3
    <3> QED
      BY <3>1, <3>2
  <2> QED
    BY <2>1, <2>2, <2>3, <2>4
<1>6. CASE Capacity!SendMail
  <2> USE <1>6, <1>0 DEF Capacity!SendMail
  <2>1. MonitorTypeOK'
    BY DEF MonitorTypeOK, Level, Word
  <2>2. CheckInOrder'
    BY DEF CheckInOrder, MonitorTypeOK
  <2>3. AllInStep'
    BY DEF InStep, MonitorTypeOK
  <2>4. CapacityIsTold'
    <3> SUFFICES ASSUME NEW b \in Bucket \ (torn' \cup failed \cup Capacity!Waiting),
                        config.enabled, check'.b # b, seen[b] # None
                 PROVE  Capacity!Fits(b)'
      BY DEF CapacityIsTold, Capacity!CapacityIsTold, Capacity!Fits
    <3>1. CASE check.b # b
      BY <3>1 DEF CapacityIsTold, Capacity!CapacityIsTold, Capacity!Fits, MonitorTypeOK
    <3>2. CASE check.b = b
      <4>1. ~config.redis /\ last'[b] = [level |-> check.send, age |-> 0]
        BY <3>2 DEF MonitorTypeOK
      <4>2. /\ seen[b] = check.level /\ check.level \in Level
            /\ Says(check.send, check.level)
        BY <3>2 DEF CheckInOrder, MonitorTypeOK
      <4> QED
        BY <4>1, <4>2 DEF Says, Level, Capacity!Fits
    <3> QED
      BY <3>1, <3>2
  <2> QED
    BY <2>1, <2>2, <2>3, <2>4
<1>7. CASE Capacity!WriteState
  <2> USE <1>7, <1>0 DEF Capacity!WriteState
  <2>1. MonitorTypeOK'
    BY DEF MonitorTypeOK, Level, Word
  <2>2. CheckInOrder'
    BY DEF CheckInOrder, MonitorTypeOK
  <2>0. /\ check.b \in Bucket /\ check.level \in Level /\ config.redis
        /\ last[check.b] = [level |-> check.send, age |-> 0]
        /\ Says(check.send, check.level) /\ seen[check.b] = check.level
    BY DEF CheckInOrder, MonitorTypeOK
  <2>3. AllInStep'
    <3> SUFFICES ASSUME NEW b \in Bucket \ torn' PROVE InStep(b)'
      OBVIOUS
    <3>1. CASE check.b = b
      <4>1. state'[b] = [level |-> check.level, age |-> 0]
        BY <3>1 DEF MonitorTypeOK
      <4> QED
        BY <2>0, <3>1, <4>1 DEF InStep
    <3>2. CASE check.b # b
      <4>1. state'[b] = state[b] /\ InStep(b)
        BY <2>0, <3>2 DEF MonitorTypeOK
      <4> QED
        BY <4>1 DEF InStep
    <3> QED
      BY <3>1, <3>2
  <2>4. CapacityIsTold'
    <3> SUFFICES ASSUME NEW b \in Bucket \ (torn' \cup failed \cup Capacity!Waiting),
                        config.enabled, seen[b] # None
                 PROVE  Capacity!Fits(b)
      BY DEF CapacityIsTold, Capacity!CapacityIsTold, Capacity!Fits
    <3>1. CASE check.b # b
      BY <3>1 DEF CapacityIsTold, Capacity!CapacityIsTold
    <3>2. CASE check.b = b
      BY <2>0, <3>2 DEF Says, Level, Capacity!Fits
    <3> QED
      BY <3>1, <3>2
  <2> QED
    BY <2>1, <2>2, <2>3, <2>4
<1>8. CASE Capacity!Fail
  <2> USE <1>8, <1>0 DEF Capacity!Fail
  <2>0. \/ /\ check.pc = "read" /\ Capacity!Judge(Capacity!Fresh)
           /\ Capacity!Fresh \in [level : Level, age : 0..Reminder]
        \/ check' = Capacity!NoCheck
    BY DEF Capacity!Fresh, Level
  <2>1. MonitorTypeOK'
    BY <2>0, JudgeMoves DEF MonitorTypeOK
  <2>2. CheckInOrder'
    BY <2>0, JudgeMoves DEF CheckInOrder
  <2>3. AllInStep'
    BY DEF InStep, MonitorTypeOK
  <2>4. CapacityIsTold'
    BY DEF MonitorTypeOK, CheckInOrder, InStep, CapacityIsTold, Capacity!CapacityIsTold, Capacity!Fits
  <2> QED
    BY <2>1, <2>2, <2>3, <2>4
<1>9. CASE Capacity!Unreadable
  <2> USE <1>9, <1>0 DEF Capacity!Unreadable
  <2>1. MonitorTypeOK'
    BY DEF MonitorTypeOK, Level, Word
  <2>2. CheckInOrder'
    BY DEF CheckInOrder, MonitorTypeOK
  <2>3. AllInStep'
    BY DEF InStep, MonitorTypeOK
  <2>4. CapacityIsTold'
    BY DEF MonitorTypeOK, CheckInOrder, InStep, CapacityIsTold, Capacity!CapacityIsTold, Capacity!Fits
  <2> QED
    BY <2>1, <2>2, <2>3, <2>4
<1>10. CASE Capacity!Restart
  <2> USE <1>10, <1>0 DEF Capacity!Restart
  <2>1. MonitorTypeOK'
    BY DEF MonitorTypeOK, Level, Word
  <2>2. CheckInOrder'
    BY DEF CheckInOrder, MonitorTypeOK
  <2>3. AllInStep'
    BY DEF InStep, MonitorTypeOK
  <2>4. CapacityIsTold'
    BY DEF MonitorTypeOK, CheckInOrder, InStep, CapacityIsTold, Capacity!CapacityIsTold, Capacity!Fits
  <2> QED
    BY <2>1, <2>2, <2>3, <2>4
<1>11. CASE UNCHANGED monitor
  BY <1>0, <1>11 DEF monitor, MonitorTypeOK, CheckInOrder, InStep, CapacityIsTold,
     Capacity!CapacityIsTold, Capacity!Fits
<1> QED
  BY <1>1, <1>2, <1>3, <1>3a, <1>4, <1>5, <1>6, <1>7, <1>8, <1>9, <1>10, <1>11
     DEF Capacity!Next

-------------------------------------------------------------------------------
(* The notifications.  TypeOK says which steps a call of each kind goes through;  *)
(* beside it there is one part for each promise, over the calls it depends on.    *)

Addr   == {"a", "b", "c"}
Wanted == (SUBSET Kind) \cup {None}

SendPc == {"present", "up", "fcm", "delete", "count", "mark"}

Op == {"share", "reset", "best", "device", "block", "network", "register", "unregister",
       "subscribe", "remove"}

\* A call in flight: its kind, the await it stands at, and what it carries.
Along(op, pc, v, was) ==
    /\ op \in Op \cup {None}
    /\ op = None => pc = None
    /\ op = "share" =>
         /\ pc \in {"cached", "load", "fill", "announce", "save", "publish"}
         /\ v \in Value /\ (pc = "fill" => was \in Value)
    /\ op = "reset" => pc \in {"v1", "v2", "settings", "tracker"}
    /\ op = "best" =>
         /\ pc \in {"read", "tracker", "settings", "upsert"} \cup SendPc
         /\ pc \in {"tracker", "upsert", "present", "up", "fcm"} => v \in Value
         /\ pc \in {"settings", "upsert"} => was \in Value
    /\ op \in {"device", "block"} => pc \in SendPc
    /\ op = "network" =>
         pc \in {"track", "init", "shift", "up", "fcm", "delete", "count", "mark"}
    /\ op = "register" =>
         /\ pc \in {"find", "store", "enter"} /\ v \in Endpoint
         /\ pc = "store" => was \in Wanted
    /\ op = "unregister" =>
         /\ pc \in {"delete", "delete all", "count", "mark", "drop"}
         /\ pc = "delete" => v \in Endpoint
    /\ op = "subscribe" => pc \in {"clear", "find", "update", "insert"} /\ v \in Addr
    /\ op = "remove" => pc \in {"rows", "left", "promote"} /\ v \in Addr
    /\ pc = "mark" => was \in Nat

CallOK(r) ==
    /\ r = [op |-> r.op, pc |-> r.pc, v |-> r.v, seen |-> r.seen]
    /\ Along(r.op, r.pc, r.v, r.seen)

TypeOK ==
    /\ best \in Value /\ high \in Value /\ tracker \in Value /\ redis \in Value \cup {None}
    /\ row \in [Endpoint -> Wanted] /\ present \in BOOLEAN /\ ready \in BOOLEAN
    /\ chat \subseteq [addr : Addr, dflt : BOOLEAN]
    /\ told \in [Endpoint -> [Value -> Nat]]
    /\ task = [t \in Task |-> task[t]]
    /\ \A t \in Task : CallOK(task[t])

\* No two calls of these kinds are in flight.
Alone(ops, others) ==
    \A s, t \in Task : task[s].op \in ops /\ task[t].op \in others => s = t

\* The best difficulty: one call at a time has the best, its copy and the highest
\* difficulty judged on their way to each other.
BestSettled == best = high /\ redis \in {None, best}

BestUnderWay(r) ==
    /\ r.op = "share" =>
         /\ r.pc \in {"cached", "load", "fill"} => BestSettled
         /\ r.pc = "fill" => r.seen = best
         /\ r.pc \in {"announce", "save"} => high = r.v
         /\ r.pc = "publish" => best = r.v /\ high = r.v
    /\ r.op = "reset" => BestSettled /\ (r.pc # "v1" => redis = None)

BestPart ==
    "best" \notin races =>
        /\ Alone({"share", "reset"}, {"share", "reset"})
        /\ Quiet({"share", "reset"}) => BestSettled
        /\ \A t \in Task : BestUnderWay(task[t])

\* The subscriptions: a deletion that is about to take the address from the cache
\* has found, or left, no row, unless a registration has come in between.
Emptying(r) == r.pc = "drop" \/ (r.pc = "mark" /\ r.seen = 0)
RowPart ==
    /\ "row" \notin races => \A t \in Task : Emptying(task[t]) => ~HasRows
    /\ PresenceCoversRows

\* The chat: where no address is the default, a call is in flight that will name one.
NoDefault == \A r \in chat : ~r.dflt
Known(a)  == \E r \in chat : r.addr = a
Names(r) ==
    \/ r.op = "subscribe" /\ r.pc \in {"find", "update", "insert"}
    \/ r.op = "remove" /\ r.pc = "left"
    \/ r.op = "remove" /\ r.pc = "promote" /\ Known(r.v)
ChatUnderWay(r) ==
    r.op = "subscribe" =>
        /\ r.pc \in {"find", "update", "insert"} => NoDefault
        /\ r.pc = "update" => Known(r.v)
        /\ r.pc = "insert" => ~Known(r.v)
OneEach    == \A r, s \in chat : r.addr = s.addr => r = s
AtMostOne  == \A r, s \in chat : r.dflt /\ s.dflt => r = s
Named      == chat = {} \/ ~NoDefault \/ \E t \in Task : Names(task[t])
ChatPart ==
    "chat" \notin races =>
        /\ OneEach
        /\ Alone({"subscribe"}, {"subscribe", "remove"})
        /\ Named
        /\ \A t \in Task : ChatUnderWay(task[t])
        /\ "remove" \notin races =>
             /\ Alone({"remove"}, {"remove"})
             /\ AtMostOne
             /\ \A t \in Task : At(t, "remove", "promote") => NoDefault

\* The pushes: what the best is now was pushed only if the tracker has got there, and
\* what a run is about to push was not pushed since it became the best.
NotYet(v) == \A e \in Endpoint : told[e][v] = 0
Caught(v) == NotYet(v) \/ tracker >= v
PushUnderWay(r) ==
    r.op = "best" =>
        /\ r.pc \in {"tracker", "upsert"} => Caught(r.v)
        /\ r.pc \in {"settings", "upsert"} => r.seen = tracker
        /\ r.pc \in {"present", "up"} => tracker = r.v /\ NotYet(r.v)
        /\ r.pc = "fcm" => tracker = r.v /\ told["fcm"][r.v] = 0
        /\ r.pc \in {"tracker", "upsert", "present", "up", "fcm"} => best = r.v \/ NotYet(best)
PushPart ==
    "push" \notin races =>
        /\ Alone({"best"}, {"best"}) /\ Alone({"reset"}, {"share", "reset", "best"})
        /\ \A e \in Endpoint, v \in Value : told[e][v] <= 1
        /\ Caught(best)
        /\ \A t \in Task : PushUnderWay(task[t])
        /\ \A t \in Task : At(t, "reset", "tracker") => best = 0

NoticesInv == TypeOK /\ BestPart /\ RowPart /\ ChatPart /\ PushPart

\* Only the call of slot t moves.
Moves(t) ==
    /\ task' = [task EXCEPT ![t] = task'[t]]
    /\ task'[t].op \in {task[t].op, None} /\ CallOK(task'[t])

LEMMA NoCallIsNone ==
    /\ None \notin Op /\ None \notin Nat /\ None \notin SendPc \cup {"delete all", "drop", "enter"}
    /\ Value \subseteq Nat /\ {0, 1} \subseteq Value
BY NoneAssumption, ValueAssumption DEF Op, SendPc

LEMMA Others ==
    ASSUME TypeOK, NEW t \in Task, NEW r, task' = [task EXCEPT ![t] = r]
    PROVE  /\ task'[t] = r /\ task' = [task EXCEPT ![t] = task'[t]]
           /\ \A s \in Task \ {t} : task'[s] = task[s]
           /\ task' = [s \in Task |-> task'[s]]
BY DEF TypeOK

\* Going on to another await, and coming to an end.
LEMMA GoMoves ==
    ASSUME TypeOK, NEW t \in Task, NEW pc, NEW v, NEW was,
           task' = [task EXCEPT ![t] = [op |-> task[t].op, pc |-> pc, v |-> v, seen |-> was]],
           Along(task[t].op, pc, v, was)
    PROVE  Moves(t)
BY Others DEF Moves, CallOK

LEMMA EndMoves ==
    ASSUME TypeOK, NEW t \in Task, End(t)
    PROVE  Moves(t) /\ task'[t] = Idle
<1>1. CallOK(Idle) /\ Idle.op = None
  BY NoCallIsNone DEF CallOK, Along, Idle, Op, SendPc
<1>2. task' = [task EXCEPT ![t] = task'[t]] /\ task'[t] = Idle
  BY Others DEF End
<1> QED
  BY <1>1, <1>2 DEF Moves

LEMMA GoIs ==
    ASSUME TypeOK, NEW t \in Task, NEW pc, Go(t, pc)
    PROVE  task' = [task EXCEPT ![t] =
               [op |-> task[t].op, pc |-> pc, v |-> task[t].v, seen |-> task[t].seen]]
<1> DEFINE r == task[t]
<1>1. r = [op |-> r.op, pc |-> r.pc, v |-> r.v, seen |-> r.seen]
  BY DEF TypeOK, CallOK
<1>2. [r EXCEPT !.pc = pc] = [op |-> r.op, pc |-> pc, v |-> r.v, seen |-> r.seen]
  BY <1>1
<1>3. task' = [task EXCEPT ![t] = [r EXCEPT !.pc = pc]]
  BY DEF Go
<1> QED
  BY <1>2, <1>3

\* Going on to another await with what was read there, or with another value.
LEMMA GoWithIs ==
    ASSUME TypeOK, NEW t \in Task, NEW pc, NEW x
    PROVE  /\ [task EXCEPT ![t].pc = pc, ![t].seen = x] =
                [task EXCEPT ![t] = [op |-> task[t].op, pc |-> pc, v |-> task[t].v, seen |-> x]]
           /\ [task EXCEPT ![t].pc = pc, ![t].v = x] =
                [task EXCEPT ![t] = [op |-> task[t].op, pc |-> pc, v |-> x, seen |-> task[t].seen]]
<1> DEFINE r == task[t]
           f == [task EXCEPT ![t].pc = pc]
<1>1. r = [op |-> r.op, pc |-> r.pc, v |-> r.v, seen |-> r.seen] /\ t \in DOMAIN task
  BY DEF TypeOK, CallOK
<1>2. /\ f = [task EXCEPT ![t] = [r EXCEPT !.pc = pc]]
      /\ [r EXCEPT !.pc = pc] = [op |-> r.op, pc |-> pc, v |-> r.v, seen |-> r.seen]
  BY <1>1
<1>3. f = [task EXCEPT ![t] = [op |-> r.op, pc |-> pc, v |-> r.v, seen |-> r.seen]]
  BY <1>2
<1>4. f[t] = [op |-> r.op, pc |-> pc, v |-> r.v, seen |-> r.seen] /\ DOMAIN f = DOMAIN task
      /\ \A s \in DOMAIN task \ {t} : f[s] = task[s]
  BY <1>1, <1>3
<1>5. /\ [f[t] EXCEPT !.seen = x] = [op |-> r.op, pc |-> pc, v |-> r.v, seen |-> x]
      /\ [f[t] EXCEPT !.v = x] = [op |-> r.op, pc |-> pc, v |-> x, seen |-> r.seen]
  BY <1>4
<1> HIDE DEF f
<1>6. /\ [f EXCEPT ![t].seen = x] = [f EXCEPT ![t] = [op |-> r.op, pc |-> pc, v |-> r.v, seen |-> x]]
      /\ [f EXCEPT ![t].v = x] = [f EXCEPT ![t] = [op |-> r.op, pc |-> pc, v |-> x, seen |-> r.seen]]
  BY <1>5
<1>7. \A y : [f EXCEPT ![t] = y] = [task EXCEPT ![t] = y]
  BY <1>4, <1>1
<1> QED
  BY <1>6, <1>7 DEF f

\* A step of a call moves that call alone, along the awaits of its kind.
LEMMA StepMoves ==
    ASSUME TypeOK, NEW t \in Task, Step(t)
    PROVE  Moves(t)
<1> DEFINE r == task[t]
<1>0. Along(r.op, r.pc, r.v, r.seen) /\ r = [op |-> r.op, pc |-> r.pc, v |-> r.v, seen |-> r.seen]
  BY DEF TypeOK, CallOK
<1>a. \A pc : Go(t, pc) /\ Along(r.op, pc, r.v, r.seen) => Moves(t)
  BY GoIs, GoMoves
<1>b. End(t) => Moves(t)
  BY EndMoves
<1>c. \A pc, v, was :
        /\ task' = [task EXCEPT ![t] = [op |-> r.op, pc |-> pc, v |-> v, seen |-> was]]
        /\ Along(r.op, pc, v, was)
        => Moves(t)
  BY GoMoves
<1>d. /\ best \in Value /\ tracker \in Value /\ redis \in Value \cup {None}
      /\ row \in [Endpoint -> Wanted] /\ chat \subseteq [addr : Addr, dflt : BOOLEAN]
  BY DEF TypeOK
<1> USE <1>0, <1>b, NoCallIsNone DEF At
<1>1. CASE ShareStep(t)
  <2>1. CASE Lookup(t)
    <3>1. \A old : Judge(t, old) => End(t) \/ Go(t, "announce")
      BY DEF Judge, End, Go
    <3>2. Along(r.op, "announce", r.v, r.seen) /\ Along(r.op, "load", r.v, r.seen)
      BY <2>1 DEF Lookup, Along, Op
    <3> QED
      BY <1>a, <2>1, <3>1, <3>2 DEF Lookup
  <2>2. CASE Load(t)
    <3>1. task' = [task EXCEPT ![t] = [op |-> r.op, pc |-> "fill", v |-> r.v, seen |-> best]]
      <4>1. task' = [task EXCEPT ![t].pc = "fill", ![t].seen = best]
        BY <2>2, Zenon DEF Load
      <4>2. [task EXCEPT ![t].pc = "fill", ![t].seen = best] =
              [task EXCEPT ![t] = [op |-> r.op, pc |-> "fill", v |-> r.v, seen |-> best]]
        BY ZenonT(60), GoWithIs
      <4> QED
        BY <4>1, <4>2
    <3>2. Along(r.op, "fill", r.v, best)
      BY <2>2, <1>d DEF Load, Along, Op, SendPc
    <3> QED
      BY <1>c, <3>1, <3>2
  <2>3. CASE Fill(t)
    <3>1. \A old : Judge(t, old) => End(t) \/ Go(t, "announce")
      BY DEF Judge, End, Go
    <3>2. Along(r.op, "announce", r.v, r.seen)
      BY <2>3 DEF Fill, Along, Op
    <3> QED
      BY <1>a, <2>3, <3>1, <3>2 DEF Fill
  <2>4. CASE Announce(t)
    <3>1. Along(r.op, "save", r.v, r.seen)
      BY <2>4 DEF Announce, Along, Op, SendPc
    <3> QED
      BY <1>a, <2>4, <3>1 DEF Announce
  <2>5. CASE Save(t)
    <3>1. Along(r.op, "publish", r.v, r.seen)
      BY <2>5 DEF Save, Along, Op, SendPc
    <3> QED
      BY <1>a, <2>5, <3>1 DEF Save
  <2>6. CASE Publish(t)
    BY <2>6 DEF Publish
  <2> QED
    BY <1>1, <2>1, <2>2, <2>3, <2>4, <2>5, <2>6 DEF ShareStep
<1>2. CASE ResetStep(t)
  <2>1. CASE ResetService(t)
    <3>1. Along(r.op, "v2", r.v, r.seen) /\ Along(r.op, "settings", r.v, r.seen)
      BY <2>1 DEF ResetService, Along, Op, SendPc
    <3> QED
      BY <1>a, <2>1, <3>1 DEF ResetService
  <2>2. CASE ResetSettings(t)
    <3>1. Along(r.op, "tracker", r.v, r.seen)
      BY <2>2 DEF ResetSettings, Along, Op, SendPc
    <3> QED
      BY <1>a, <2>2, <3>1 DEF ResetSettings
  <2>3. CASE ResetTracker(t)
    BY <2>3 DEF ResetTracker
  <2> QED
    BY <1>2, <2>1, <2>2, <2>3 DEF ResetStep
<1>3. CASE BestStep(t)
  <2>1. CASE ReadBest(t)
    <3>1. CASE r.pc = "settings"
      <4>1. End(t) \/ task' = [task EXCEPT ![t] = [op |-> r.op, pc |-> "upsert", v |-> best, seen |-> r.seen]]
        BY <2>1, <3>1 DEF ReadBest, Decide, End
      <4>2. Along(r.op, "upsert", best, r.seen)
        BY <2>1, <3>1, <1>d DEF ReadBest, Along, Op
      <4> QED
        BY <1>c, <4>1, <4>2
    <3>2. CASE r.pc # "settings"
      <4>1. task' = [task EXCEPT ![t] = [op |-> r.op, pc |-> "tracker", v |-> best, seen |-> r.seen]]
        BY <2>1, <3>2 DEF ReadBest
      <4>2. Along(r.op, "tracker", best, r.seen)
        BY <2>1, <3>2, <1>d DEF ReadBest, Along, Op
      <4> QED
        BY <1>c, <4>1, <4>2
    <3> QED
      BY <3>1, <3>2
  <2>2. CASE ReadTracker(t)
    <3>1. CASE r.pc = "tracker"
      <4>1. End(t) \/ task' = [task EXCEPT ![t] = [op |-> r.op, pc |-> "upsert", v |-> r.v, seen |-> tracker]]
        BY <2>2, <3>1 DEF ReadTracker, Decide, End
      <4>2. Along(r.op, "upsert", r.v, tracker)
        BY <2>2, <3>1, <1>d DEF ReadTracker, Along, Op
      <4> QED
        BY <1>c, <4>1, <4>2
    <3>2. CASE r.pc # "tracker"
      <4>1. task' = [task EXCEPT ![t] = [op |-> r.op, pc |-> "settings", v |-> r.v, seen |-> tracker]]
        BY <2>2, <3>2 DEF ReadTracker
      <4>2. Along(r.op, "settings", r.v, tracker)
        BY <2>2, <3>2, <1>d DEF ReadTracker, Along, Op
      <4> QED
        BY <1>c, <4>1, <4>2
    <3> QED
      BY <3>1, <3>2
  <2>3. CASE Upsert(t)
    <3>1. Along(r.op, "present", r.v, r.seen)
      BY <2>3 DEF Upsert, Along, Op, SendPc
    <3> QED
      BY <1>a, <2>3, <3>1 DEF Upsert
  <2> QED
    BY <1>3, <2>1, <2>2, <2>3 DEF BestStep
<1>4. CASE SendStep(t)
  <2>1. CASE Present(t)
    <3>1. Along(r.op, "up", r.v, r.seen)
      BY <2>1 DEF Present, Along, Op, SendPc
    <3> QED
      BY <1>a, <2>1, <3>1 DEF Present
  <2>2. CASE SendUp(t)
    <3>1. Along(r.op, "fcm", r.v, r.seen)
      BY <2>2 DEF SendUp, Along, Op, SendPc
    <3> QED
      BY <1>a, <2>2, <3>1 DEF SendUp
  <2>3. CASE SendFcm(t)
    <3>1. r.op = "network" => Along(r.op, "shift", r.v, r.seen)
      BY DEF Along, Op
    <3>2. Done(t) => Moves(t)
      BY <1>a, <3>1 DEF Done
    <3>3. Along(r.op, "delete", r.v, r.seen)
      BY <2>3 DEF SendFcm, Along, Op, SendPc, Wants
    <3> QED
      BY <1>a, <2>3, <3>2, <3>3 DEF SendFcm
  <2> QED
    BY <1>4, <2>1, <2>2, <2>3 DEF SendStep
<1>5. CASE NetStep(t)
  <2>1. CASE ReadNetwork(t)
    <3>1. Along(r.op, "init", r.v, r.seen) /\ Along(r.op, "up", r.v, r.seen)
      BY <2>1 DEF ReadNetwork, Along, Op, SendPc
    <3> QED
      BY <1>a, <2>1, <3>1 DEF ReadNetwork
  <2>2. CASE InitNetwork(t)
    BY <2>2 DEF InitNetwork
  <2>3. CASE ShiftNetwork(t)
    BY <2>3 DEF ShiftNetwork
  <2> QED
    BY <1>5, <2>1, <2>2, <2>3 DEF NetStep
<1>6. CASE PushStep(t)
  <2>1. CASE Find(t)
    <3> DEFINE old == row[r.v]
    <3>1. task' = [task EXCEPT ![t].pc = "store", ![t].seen = old]
      BY <2>1 DEF Find
    <3>2. Along(r.op, "store", r.v, old)
      BY <2>1, <1>d DEF Find, Along, Op, SendPc
    <3> HIDE DEF old
    <3>3. task' = [task EXCEPT ![t] = [op |-> r.op, pc |-> "store", v |-> r.v, seen |-> old]]
      <4>1. [task EXCEPT ![t].pc = "store", ![t].seen = old] =
              [task EXCEPT ![t] = [op |-> r.op, pc |-> "store", v |-> r.v, seen |-> old]]
        BY ZenonT(60), GoWithIs
      <4> QED
        BY <3>1, <4>1
    <3> QED
      BY <1>c, <3>2, <3>3
  <2>2. CASE Store(t)
    <3>1. Along(r.op, "enter", r.v, r.seen)
      BY <2>2 DEF Store, Along, Op, SendPc
    <3> QED
      BY <1>a, <2>2, <3>1 DEF Store
  <2>3. CASE Enter(t)
    BY <2>3 DEF Enter
  <2>4. CASE Delete(t)
    <3>1. r.op = "network" => Along(r.op, "shift", r.v, r.seen)
      BY DEF Along, Op
    <3>2. Done(t) => Moves(t)
      BY <1>a, <3>1 DEF Done
    <3>3. Along(r.op, "count", r.v, r.seen)
      BY <2>4 DEF Delete, Along, Op, SendPc, Wants
    <3> QED
      BY <1>a, <2>4, <3>2, <3>3 DEF Delete
  <2>5. CASE Count(t)
    <3> DEFINE n == Cardinality({e \in Endpoint : row[e] # None})
    <3>1. n \in Nat
      <4>1. IsFiniteSet(Endpoint)
        <5>1. Endpoint = ({} \cup {"up"}) \cup {"fcm"}
          BY DEF Endpoint
        <5> QED
          BY <5>1, FS_EmptySet, FS_AddElement
      <4> QED
        BY <4>1, FS_Subset, FS_CardinalityType
    <3>2. task' = [task EXCEPT ![t] = [op |-> r.op, pc |-> "mark", v |-> r.v, seen |-> n]]
      <4>1. task' = [task EXCEPT ![t].pc = "mark", ![t].seen = n]
        BY <2>5 DEF Count
      <4> HIDE DEF n
      <4>2. [task EXCEPT ![t].pc = "mark", ![t].seen = n] =
              [task EXCEPT ![t] = [op |-> r.op, pc |-> "mark", v |-> r.v, seen |-> n]]
        BY ZenonT(60), GoWithIs
      <4> QED
        BY <4>1, <4>2
    <3> HIDE DEF n
    <3>3. Along(r.op, "mark", r.v, n)
      BY <2>5, <3>1 DEF Count, Along, Op, SendPc
    <3> QED
      BY <1>c, <3>2, <3>3
  <2>6. CASE Mark(t)
    <3>1. r.op = "network" => Along(r.op, "shift", r.v, r.seen)
      BY DEF Along, Op
    <3>2. Done(t) => Moves(t)
      BY <1>a, <3>1 DEF Done
    <3> QED
      BY <1>a, <2>6, <3>2 DEF Mark
  <2>7. CASE DeleteAll(t)
    <3>1. Along(r.op, "drop", r.v, r.seen)
      BY <2>7 DEF DeleteAll, Along, Op, SendPc
    <3> QED
      BY <1>a, <2>7, <3>1 DEF DeleteAll
  <2>8. CASE Drop(t)
    BY <2>8 DEF Drop
  <2> QED
    BY <1>6, <2>1, <2>2, <2>3, <2>4, <2>5, <2>6, <2>7, <2>8 DEF PushStep
<1>7. CASE ChatStep(t)
  <2>1. CASE ClearDefaults(t)
    <3>1. Along(r.op, "find", r.v, r.seen)
      BY <2>1 DEF ClearDefaults, Along, Op, SendPc
    <3> QED
      BY <1>a, <2>1, <3>1 DEF ClearDefaults
  <2>2. CASE FindChat(t)
    <3>1. Along(r.op, "update", r.v, r.seen) /\ Along(r.op, "insert", r.v, r.seen)
      BY <2>2 DEF FindChat, Along, Op, SendPc
    <3> QED
      BY <1>a, <2>2, <3>1 DEF FindChat
  <2>3. CASE MakeDefault(t)
    BY <2>3 DEF MakeDefault
  <2>4. CASE InsertChat(t)
    BY <2>4 DEF InsertChat
  <2>5. CASE RemoveRows(t)
    <3>1. Along(r.op, "left", r.v, r.seen)
      BY <2>5 DEF RemoveRows, Along, Op, SendPc
    <3> QED
      BY <1>a, <2>5, <3>1 DEF RemoveRows
  <2>6. CASE ReadLeft(t)
    <3>1. CASE End(t)
      BY <3>1
    <3>2. CASE Orphaned
      <4> PICK a \in chat : task' = [task EXCEPT ![t].pc = "promote", ![t].v = a.addr]
        BY <2>6, <3>2 DEF ReadLeft
      <4> DEFINE v == a.addr
      <4>0. task' = [task EXCEPT ![t].pc = "promote", ![t].v = v]
        OBVIOUS
      <4>1. v \in Addr
        BY <1>d
      <4> HIDE DEF v
      <4>2. task' = [task EXCEPT ![t] =
                       [op |-> r.op, pc |-> "promote", v |-> v, seen |-> r.seen]]
        <5>1. [task EXCEPT ![t].pc = "promote", ![t].v = v] =
                [task EXCEPT ![t] = [op |-> r.op, pc |-> "promote", v |-> v, seen |-> r.seen]]
          BY GoWithIs
        <5> QED
          BY <4>0, <5>1
      <4>3. Along(r.op, "promote", v, r.seen)
        BY <2>6, <4>1 DEF ReadLeft, Along, Op
      <4> QED
        BY <1>c, <4>2, <4>3
    <3> QED
      BY <2>6, <3>1, <3>2 DEF ReadLeft
  <2>7. CASE Promote(t)
    BY <2>7 DEF Promote
  <2> QED
    BY <1>7, <2>1, <2>2, <2>3, <2>4, <2>5, <2>6, <2>7 DEF ChatStep
<1> QED
  BY <1>1, <1>2, <1>3, <1>4, <1>5, <1>6, <1>7 DEF Step

\* What each kind of step reads and leaves alone.
Sending == {"best", "device", "block", "network"}

LEMMA WhoSteps ==
    ASSUME TypeOK, NEW t \in Task
    PROVE  /\ ShareStep(t) => /\ task[t].op = "share"
                              /\ UNCHANGED <<tracker, subs, chat, races>>
           /\ ResetStep(t) => /\ task[t].op = "reset"
                              /\ UNCHANGED <<subs, chat, told, races>>
           /\ BestStep(t)  => /\ task[t].op = "best"
                              /\ UNCHANGED <<best, redis, high, subs, chat, told, races>>
           /\ SendStep(t)  => /\ task[t].op \in Sending /\ task[t].pc \in {"present", "up", "fcm"}
                              /\ UNCHANGED <<bests, subs, chat, races>>
           /\ NetStep(t)   => /\ task[t].op = "network"
                              /\ UNCHANGED <<bests, subs, chat, told, races>>
           /\ PushStep(t)  => /\ task[t].op \in {"register", "unregister"} \cup Sending
                              /\ task[t].pc \notin {"present", "up", "fcm"}
                              /\ races' \in {races, races \cup {"row"}}
                              /\ UNCHANGED <<bests, chat, told>>
           /\ ChatStep(t)  => /\ task[t].op \in {"subscribe", "remove"}
                              /\ UNCHANGED <<bests, subs, told, races>>
<1>0. Along(task[t].op, task[t].pc, task[t].v, task[t].seen)
  BY DEF TypeOK, CallOK
<1> USE <1>0, NoCallIsNone DEF At, Along, Op, SendPc, Sending, bests, subs, nets
<1>1. ShareStep(t) => task[t].op = "share" /\ UNCHANGED <<tracker, subs, chat, races>>
  BY DEF ShareStep, Lookup, Load, Fill, Announce, Save, Publish
<1>2. ResetStep(t) => task[t].op = "reset" /\ UNCHANGED <<subs, chat, told, races>>
  BY DEF ResetStep, ResetService, ResetSettings, ResetTracker
<1>3. BestStep(t) => task[t].op = "best" /\ UNCHANGED <<best, redis, high, subs, chat, told, races>>
  BY DEF BestStep, ReadBest, ReadTracker, Upsert
<1>4. SendStep(t) => /\ task[t].op \in Sending /\ task[t].pc \in {"present", "up", "fcm"}
                      /\ UNCHANGED <<bests, subs, chat, races>>
  BY DEF SendStep, Present, SendUp, SendFcm
<1>5. NetStep(t) => task[t].op = "network" /\ UNCHANGED <<bests, subs, chat, told, races>>
  BY DEF NetStep, ReadNetwork, InitNetwork, ShiftNetwork
<1>6. PushStep(t) => /\ task[t].op \in {"register", "unregister"} \cup Sending
                      /\ task[t].pc \notin {"present", "up", "fcm"}
                      /\ races' \in {races, races \cup {"row"}}
                      /\ UNCHANGED <<bests, chat, told>>
  BY DEF PushStep, Find, Store, Enter, Delete, Count, Mark, DeleteAll, Drop
<1>7. ChatStep(t) => task[t].op \in {"subscribe", "remove"} /\ UNCHANGED <<bests, subs, told, races>>
  BY DEF ChatStep, ClearDefaults, FindChat, MakeDefault, InsertChat, RemoveRows, ReadLeft, Promote
<1> QED
  BY <1>1, <1>2, <1>3, <1>4, <1>5, <1>6, <1>7

\* A call begins at a free slot, at the first await of its kind.
First == {<<"share", "cached">>, <<"reset", "v1">>, <<"best", "read">>, <<"device", "present">>,
          <<"block", "present">>, <<"network", "track">>, <<"register", "find">>,
          <<"unregister", "delete">>, <<"unregister", "delete all">>,
          <<"subscribe", "clear">>, <<"remove", "rows">>}

Begins(t, op, pc, v) ==
    /\ <<op, pc>> \in First /\ Along(op, pc, v, None)
    /\ task[t] = Idle /\ races' = races \cup Clash(op)
    /\ task' = [task EXCEPT ![t] = [op |-> op, pc |-> pc, v |-> v, seen |-> None]]
    /\ UNCHANGED <<bests, subs, chat, told>>

LEMMA CallBegins ==
    ASSUME TypeOK, NEW t \in Task, Call(t) \/ Tick(t)
    PROVE  \E op, pc, v : Begins(t, op, pc, v)
<1>1. \A op, pc, v :
        Start(t, op, pc, v) /\ UNCHANGED <<bests, subs, nets, chat, told>> /\ <<op, pc>> \in First
        /\ Along(op, pc, v, None) => Begins(t, op, pc, v)
  BY DEF Start, Begins, subs, nets, bests
<1> USE DEF First, Op
<1>2. ASSUME NEW v \in Value, Share(t, v) PROVE Begins(t, "share", "cached", v)
  <2>1. Along("share", "cached", v, None)
    BY NoCallIsNone DEF Along, SendPc
  <2> QED
    BY <1>1, <1>2, <2>1 DEF Share
<1>3. CASE Reset(t)
  <2>1. Along("reset", "v1", 0, None)
    BY NoCallIsNone DEF Along, SendPc
  <2>2. Begins(t, "reset", "v1", 0)
    BY <1>1, <1>3, <2>1 DEF Reset
  <2> QED
    BY <2>2
<1>4. CASE TickAgain(t)
  <2>1. Along("best", "read", None, None)
    BY NoCallIsNone DEF Along, SendPc
  <2>2. Begins(t, "best", "read", None)
    BY <1>1, <1>4, <2>1 DEF TickAgain
  <2> QED
    BY <2>2
<1>5. CASE Tick(t)
  <2>1. Along("best", "read", None, None)
    BY NoCallIsNone DEF Along, SendPc
  <2>2. Begins(t, "best", "read", None)
    BY <1>1, <1>5, <2>1 DEF Tick
  <2> QED
    BY <2>2
<1>6. CASE DeviceChanged(t)
  <2>1. Along("device", "present", None, None)
    BY NoCallIsNone DEF Along, SendPc
  <2>2. Begins(t, "device", "present", None)
    BY <1>1, <1>6, <2>1 DEF DeviceChanged
  <2> QED
    BY <2>2
<1>7. CASE BlockFound(t)
  <2>1. Along("block", "present", None, None)
    BY NoCallIsNone DEF Along, SendPc
  <2>2. Begins(t, "block", "present", None)
    BY <1>1, <1>7, <2>1 DEF BlockFound
  <2> QED
    BY <2>2
<1>8. CASE CheckNetwork(t)
  <2>1. Along("network", "track", net, None)
    BY NoCallIsNone DEF Along, SendPc
  <2>2. Begins(t, "network", "track", net)
    BY <1>1, <1>8, <2>1 DEF CheckNetwork
  <2> QED
    BY <2>2
<1>9. ASSUME NEW e \in Endpoint, Register(t, e) PROVE Begins(t, "register", "find", e)
  <2>1. Along("register", "find", e, None)
    BY NoCallIsNone DEF Along, SendPc
  <2> QED
    BY <1>1, <1>9, <2>1 DEF Register
<1>10. ASSUME NEW e \in Endpoint, Unregister(t, e) PROVE Begins(t, "unregister", "delete", e)
  <2>1. Along("unregister", "delete", e, None)
    BY NoCallIsNone DEF Along, SendPc
  <2> QED
    BY <1>1, <1>10, <2>1 DEF Unregister
<1>11. CASE UnregisterAll(t)
  <2>1. Along("unregister", "delete all", None, None)
    BY NoCallIsNone DEF Along, SendPc
  <2>2. Begins(t, "unregister", "delete all", None)
    BY <1>1, <1>11, <2>1 DEF UnregisterAll
  <2> QED
    BY <2>2
<1>12. ASSUME NEW a \in Addr, Subscribe(t, a) PROVE Begins(t, "subscribe", "clear", a)
  <2>1. Along("subscribe", "clear", a, None)
    BY NoCallIsNone DEF Along, SendPc
  <2> QED
    BY <1>1, <1>12, <2>1 DEF Subscribe
<1>13. ASSUME NEW a \in Addr, Remove(t, a) PROVE Begins(t, "remove", "rows", a)
  <2>1. Along("remove", "rows", a, None)
    BY NoCallIsNone DEF Along, SendPc
  <2> QED
    BY <1>1, <1>13, <2>1 DEF Remove
<1> QED
  BY <1>2, <1>3, <1>4, <1>5, <1>6, <1>7, <1>8, <1>9, <1>10, <1>11, <1>12, <1>13 DEF Call, Addr

\* A call that fails is over, except that a deletion amid a network push goes on.
LEMMA FailMoves ==
    ASSUME TypeOK, NEW t \in Task, Fail(t)
    PROVE  /\ Moves(t) /\ task[t] # Idle /\ task[t].pc \notin {"enter", "mark", "drop"}
           /\ \/ task'[t] = Idle
              \/ task'[t].op = "network" /\ task'[t].pc = "shift"
           /\ present' \in {present, TRUE} /\ races' = races \cup Halves(t)
           /\ UNCHANGED <<bests, row, ready, chat, told>>
<1> DEFINE r == task[t]
<1>0. Along(r.op, r.pc, r.v, r.seen)
  BY DEF TypeOK, CallOK
<1>1. End(t) => Moves(t) /\ task'[t] = Idle
  BY EndMoves
<1>2. ASSUME r.op = "network", Go(t, "shift")
      PROVE  Moves(t) /\ task'[t].op = "network" /\ task'[t].pc = "shift"
  <2>1. task' = [task EXCEPT ![t] = [op |-> r.op, pc |-> "shift", v |-> r.v, seen |-> r.seen]]
    BY <1>2, GoIs
  <2>2. Along(r.op, "shift", r.v, r.seen)
    BY <1>0, <1>2 DEF Along, Op
  <2> QED
    BY <1>2, <2>1, <2>2, GoMoves, Others
<1>3. Done(t) => /\ Moves(t)
                 /\ \/ task'[t] = Idle
                    \/ task'[t].op = "network" /\ task'[t].pc = "shift"
  BY <1>1, <1>2 DEF Done
<1> QED
  BY <1>1, <1>3 DEF Fail, bests

\* Every step keeps the types.
DataOK ==
    /\ best \in Value /\ high \in Value /\ tracker \in Value /\ redis \in Value \cup {None}
    /\ row \in [Endpoint -> Wanted] /\ present \in BOOLEAN /\ ready \in BOOLEAN
    /\ chat \subseteq [addr : Addr, dflt : BOOLEAN]
    /\ told \in [Endpoint -> [Value -> Nat]]

LEMMA MoveTypes ==
    ASSUME TypeOK, DataOK', NEW t \in Task, Moves(t)
    PROVE  TypeOK'
BY Others DEF TypeOK, DataOK, Moves

\* The chat once an address is made its default.
MadeDefault(c, a) == [c EXCEPT !.dflt = @ \/ c.addr = a]
ChatWith(a) == {MadeDefault(c, a) : c \in chat}

LEMMA MadeDefaultIs ==
    ASSUME NEW c \in [addr : Addr, dflt : BOOLEAN], NEW a
    PROVE  /\ MadeDefault(c, a) \in [addr : Addr, dflt : BOOLEAN]
           /\ MadeDefault(c, a).addr = c.addr
           /\ MadeDefault(c, a).dflt <=> c.dflt \/ c.addr = a
<1> DEFINE b == c.dflt \/ c.addr = a
<1>1. b \in BOOLEAN /\ (b <=> c.dflt \/ c.addr = a)
  BY Zenon
<1>2. MadeDefault(c, a) = [c EXCEPT !.dflt = b]
  BY Zenon DEF MadeDefault
<1> HIDE DEF b
<1>3. [c EXCEPT !.dflt = b] = [addr |-> c.addr, dflt |-> b] /\ c.addr \in Addr
  OBVIOUS
<1>4. MadeDefault(c, a).dflt = b
  BY <1>2, <1>3
<1>5. MadeDefault(c, a) \in [addr : Addr, dflt : BOOLEAN] /\ MadeDefault(c, a).addr = c.addr
  BY <1>1, <1>2, <1>3
<1> QED
  BY <1>1, <1>4, <1>5, Zenon

LEMMA StepTypes ==
    ASSUME TypeOK, NEW t \in Task, Step(t)
    PROVE  TypeOK'
<1> DEFINE r == task[t]
<1>0. DataOK /\ Along(r.op, r.pc, r.v, r.seen)
  BY DEF TypeOK, DataOK, CallOK
<1>a. \A e \in Endpoint, v \in Value : [told EXCEPT ![e][v] = @ + 1] \in [Endpoint -> [Value -> Nat]]
  BY <1>0 DEF DataOK
<1> SUFFICES DataOK'
  BY StepMoves, MoveTypes
<1> USE <1>0, NoCallIsNone DEF bests, subs, nets
<1>1. CASE ShareStep(t)
  <2>0. UNCHANGED <<tracker, row, present, ready, chat>>
    BY <1>1, WhoSteps
  <2>1. CASE Lookup(t)
    BY <2>0, <2>1 DEF Lookup, Judge, At, Along, Op, DataOK
  <2>2. CASE Load(t)
    BY <2>0, <2>2 DEF Load, DataOK
  <2>3. CASE Fill(t)
    BY <2>0, <2>3 DEF Fill, Judge, At, Along, Op, DataOK
  <2>4. CASE Announce(t)
    BY <2>0, <2>4 DEF Announce, DataOK
  <2>5. CASE Save(t)
    <3>1. best' = r.v /\ r.v \in Value /\ UNCHANGED <<redis, high>>
      BY <2>5 DEF Save, At, Along, Op
    <3>2. told' \in [Endpoint -> [Value -> Nat]]
      BY <2>5, <3>1 DEF Save, DataOK
    <3> QED
      BY <2>0, <3>1, <3>2 DEF DataOK
  <2>6. CASE Publish(t)
    BY <2>0, <2>6 DEF Publish, Published, At, Along, Op, DataOK
  <2> QED
    BY <1>1, <2>1, <2>2, <2>3, <2>4, <2>5, <2>6 DEF ShareStep
<1>2. CASE ResetStep(t)
  BY <1>2, WhoSteps DEF ResetStep, ResetService, ResetSettings, ResetTracker, DataOK
<1>3. CASE BestStep(t)
  <2>1. tracker' \in Value
    BY <1>3 DEF BestStep, ReadBest, ReadTracker, Upsert, At, Along, Op, DataOK
  <2> QED
    BY <1>3, <2>1, WhoSteps DEF DataOK
<1>4. CASE SendStep(t)
  <2>1. \A e \in Endpoint : r.pc \in {"up", "fcm"} => Sent(e, r) \in [Endpoint -> [Value -> Nat]]
    <3> SUFFICES ASSUME NEW e \in Endpoint, r.pc \in {"up", "fcm"}
                 PROVE  Sent(e, r) \in [Endpoint -> [Value -> Nat]]
      OBVIOUS
    <3>1. r.op = "best" => r.v \in Value
      BY DEF Along, Op
    <3> QED
      BY <1>a, <3>1 DEF Sent, DataOK
  <2>2. told' \in [Endpoint -> [Value -> Nat]]
    BY <1>4, <2>1 DEF SendStep, Present, SendUp, SendFcm, DataOK, Endpoint
  <2> QED
    BY <1>4, <2>2, WhoSteps DEF DataOK
<1>5. CASE NetStep(t)
  BY <1>5, WhoSteps DEF DataOK
<1>6. CASE PushStep(t)
  <2>1. row' \in [Endpoint -> Wanted] /\ present' \in BOOLEAN /\ ready' = ready
    <3>1. CASE Find(t) \/ Count(t)
      BY <3>1 DEF Find, Count, DataOK
    <3>2. CASE Store(t)
      BY ZenonT(60), <3>2 DEF Store, At, Along, Op, Wanted, DataOK
    <3>3. CASE Enter(t) \/ Mark(t) \/ Drop(t)
      <4>1. row' = row /\ ready' = ready
        BY <3>3 DEF Enter, Mark, Drop
      <4>2. present' \in BOOLEAN
        <5>0. CASE Enter(t)
          BY <5>0 DEF Enter
        <5>1. CASE Mark(t)
          <6>1. present' = (r.seen > 0)
            BY <5>1, Zenon DEF Mark, Remaining
          <6>2. r.seen \in Nat
            BY <5>1 DEF Mark, Along
          <6>3. (r.seen > 0) = TRUE \/ (r.seen > 0) = FALSE
            BY ONLY <6>2
          <6> QED
            BY ONLY <6>1, <6>3
        <5>2. CASE Drop(t)
          <6>1. present' = (present /\ ~ready)
            BY <5>2, Zenon DEF Drop
          <6> HIDE <5>2
          <6>2. (present /\ ~ready) \in BOOLEAN
            OBVIOUS
          <6> QED
            BY ONLY <6>1, <6>2
        <5> QED
          BY <3>3, <5>0, <5>1, <5>2
      <4> QED
        BY <4>1, <4>2 DEF DataOK
    <3>4. CASE Delete(t) \/ DeleteAll(t)
      BY <3>4 DEF Delete, DeleteAll, DataOK, Wanted
    <3> QED
      BY <1>6, <3>1, <3>2, <3>3, <3>4 DEF PushStep
  <2> QED
    BY <1>6, <2>1, WhoSteps DEF DataOK
<1>7. CASE ChatStep(t)
  <2>1. chat' \subseteq [addr : Addr, dflt : BOOLEAN]
    <3>0. chat \subseteq [addr : Addr, dflt : BOOLEAN]
      BY DEF DataOK
    <3>1. CASE ClearDefaults(t)
      BY <3>0, <3>1 DEF ClearDefaults
    <3>2. CASE FindChat(t) \/ ReadLeft(t) \/ RemoveRows(t)
      BY <3>0, <3>2 DEF FindChat, ReadLeft, RemoveRows
    <3>3. CASE MakeDefault(t) \/ Promote(t)
      <4>1. chat' = {[c EXCEPT !.dflt = @ \/ c.addr = task[t].v] : c \in chat}
        BY <3>3, Zenon DEF MakeDefault, Promote
      <4>2. chat' = ChatWith(r.v)
        BY <4>1, Zenon DEF ChatWith, MadeDefault
      <4> QED
        <5>1. \A c \in chat : MadeDefault(c, r.v) \in [addr : Addr, dflt : BOOLEAN]
          BY <3>0, MadeDefaultIs
        <5> QED
          BY <4>2, <5>1 DEF ChatWith
    <3>4. CASE InsertChat(t)
      <4>1. r.v \in Addr /\ chat' = chat \cup {[addr |-> r.v, dflt |-> TRUE]}
        BY <3>4 DEF InsertChat, At, Along, Op
      <4>2. [addr |-> r.v, dflt |-> TRUE] \in [addr : Addr, dflt : BOOLEAN]
        BY <4>1
      <4> QED
        BY <3>0, <4>1, <4>2
    <3> QED
      BY <1>7, <3>1, <3>2, <3>3, <3>4 DEF ChatStep
  <2> QED
    BY <1>7, <2>1, WhoSteps DEF DataOK
<1> QED
  BY <1>1, <1>2, <1>3, <1>4, <1>5, <1>6, <1>7 DEF Step

LEMMA NextTypes == TypeOK /\ [Next]_vars => TypeOK'
<1> SUFFICES ASSUME TypeOK, [Next]_vars PROVE TypeOK'
  OBVIOUS
<1>0. DataOK
  BY DEF TypeOK, DataOK
<1>1. ASSUME NEW t \in Task, Call(t) \/ Tick(t) PROVE TypeOK'
  <2> PICK op, pc, v : Begins(t, op, pc, v)
    BY <1>1, CallBegins
  <2>1. CallOK(task'[t]) /\ task' = [task EXCEPT ![t] = task'[t]]
    BY Others DEF Begins, CallOK
  <2>2. DataOK'
    BY <1>0 DEF Begins, DataOK, bests, subs
  <2> QED
    BY <2>1, <2>2, Others DEF TypeOK, DataOK
<1>2. ASSUME NEW t \in Task, Step(t) PROVE TypeOK'
  BY <1>2, StepTypes
<1>3. ASSUME NEW t \in Task, Fail(t) PROVE TypeOK'
  <2>1. DataOK'
    BY <1>0, <1>3, FailMoves DEF DataOK, bests
  <2> QED
    BY <1>3, <2>1, FailMoves, MoveTypes
<1>4. CASE Restart
  <2>1. DataOK'
    BY <1>0, <1>4 DEF Restart, DataOK, bests, HasRows
  <2>2. CallOK(Idle)
    BY NoCallIsNone DEF CallOK, Along, Idle, Op, SendPc
  <2> QED
    BY <1>4, <2>1, <2>2 DEF Restart, TypeOK, DataOK
<1>5. CASE Expire \/ \E n \in Value : Change(n)
  BY <1>5 DEF Expire, Change, TypeOK, bests, subs
<1>6. ASSUME NEW e \in Endpoint, Configure(e) PROVE TypeOK'
  BY <1>6 DEF Configure, TypeOK, Wanted, bests
<1>7. CASE UNCHANGED vars
  BY <1>7 DEF vars, TypeOK, bests, subs
<1> QED
  BY <1>1, <1>2, <1>3, <1>4, <1>5, <1>6, <1>7 DEF Next, Task

\* A race is on record for good; only the registration that came in between is
\* forgotten at a restart, with the deletions that were under way.
LEMMA RacesStay == TypeOK /\ [Next]_vars => races \ {"row"} \subseteq races'
<1> SUFFICES ASSUME TypeOK, [Next]_vars PROVE races \ {"row"} \subseteq races'
  OBVIOUS
<1>1. ASSUME NEW t \in Task, Call(t) \/ Tick(t) PROVE races \subseteq races'
  BY <1>1, CallBegins DEF Begins
<1>2. ASSUME NEW t \in Task, Step(t) PROVE races \subseteq races'
  BY <1>2, WhoSteps DEF Step
<1>3. ASSUME NEW t \in Task, Fail(t) PROVE races \subseteq races'
  BY <1>3, FailMoves
<1>4. CASE Restart
  BY <1>4 DEF Restart
<1>5. CASE Expire \/ (\E n \in Value : Change(n)) \/ (\E e \in Endpoint : Configure(e))
  BY <1>5 DEF Expire, Change, Configure
<1>6. CASE UNCHANGED vars
  BY <1>6 DEF vars
<1> QED
  BY <1>1, <1>2, <1>3, <1>4, <1>5, <1>6 DEF Next, Task

-------------------------------------------------------------------------------
(* The best difficulty. *)

Own == {"share", "reset"}

BestOK ==
    /\ Alone(Own, Own)
    /\ Quiet(Own) => BestSettled
    /\ \A t \in Task : BestUnderWay(task[t])

\* Nothing that leaves these calls alone disturbs them, an expiry included.
LEMMA BestFrame ==
    ASSUME BestOK, best' = best, high' = high, redis' \in {redis, None},
           \A t \in Task : task[t].op \in Own \/ task'[t].op \in Own => task'[t] = task[t]
    PROVE  BestOK'
<1>1. BestSettled => BestSettled'
  BY DEF BestSettled
<1>2. ASSUME NEW t \in Task, task'[t].op \in Own PROVE BestUnderWay(task[t])'
  BY <1>1, <1>2 DEF BestOK, BestUnderWay, BestSettled
<1>3. ASSUME NEW t \in Task, task'[t].op \notin Own PROVE BestUnderWay(task[t])'
  BY <1>3 DEF BestUnderWay, Own
<1>4. Alone(Own, Own)'
  BY DEF BestOK, Alone
<1>5. Quiet(Own)' => BestSettled'
  BY <1>1 DEF BestOK, Quiet, InFlight
<1> QED
  BY <1>2, <1>3, <1>4, <1>5 DEF BestOK

\* A step of the one call under way: it goes on, or it leaves the best settled.
LEMMA BestOwnStep ==
    ASSUME TypeOK, BestOK, NEW t \in Task, task[t].op \in Own, Moves(t),
           task'[t].op \in Own => BestUnderWay(task[t])',
           task'[t].op \notin Own => BestSettled'
    PROVE  BestOK'
<1>1. \A s \in Task \ {t} : task'[s] = task[s] /\ task[s].op \notin Own
  BY Others DEF Moves, BestOK, Alone
<1>2. \A s \in Task \ {t} : BestUnderWay(task[s])'
  BY <1>1 DEF BestUnderWay, Own
<1>3. BestUnderWay(task[t])'
  BY DEF BestUnderWay, Own
<1>4. Alone(Own, Own)'
  BY <1>1 DEF Alone
<1>5. Quiet(Own)' => BestSettled'
  BY DEF Quiet, InFlight
<1> QED
  BY <1>2, <1>3, <1>4, <1>5 DEF BestOK

LEMMA ShareKeepsBest ==
    ASSUME TypeOK, BestOK, NEW t \in Task, ShareStep(t)
    PROVE  BestOK'
<1> DEFINE r == task[t]
<1>0. /\ r.op = "share" /\ BestUnderWay(r) /\ best \in Nat /\ redis \in Nat \cup {None}
      /\ high \in Nat /\ r.v \in Nat
  BY WhoSteps, NoCallIsNone DEF BestOK, TypeOK, CallOK, Along
<1>a. End(t) => task'[t].op = None
  BY EndMoves DEF Idle
<1>b. \A pc : Go(t, pc) => /\ task'[t].op = "share" /\ task'[t].pc = pc
                            /\ task'[t].v = r.v /\ task'[t].seen = r.seen
  BY <1>0, GoIs, Others
<1>m. Moves(t)
  BY StepMoves DEF Step
<1> SUFFICES (task'[t].op \in Own => BestUnderWay(task[t])') /\ (task'[t].op \notin Own => BestSettled')
  BY <1>0, <1>m, BestOwnStep DEF Own
<1>c. ASSUME NEW pc, Go(t, pc), pc # "fill",
             pc \in {"cached", "load"} => BestSettled',
             pc \in {"announce", "save"} => high' = r.v,
             pc = "publish" => best' = r.v /\ high' = r.v
      PROVE  (task'[t].op \in Own => BestUnderWay(task[t])') /\ (task'[t].op \notin Own => BestSettled')
  <2>1. task'[t].op = "share" /\ task'[t].pc = pc /\ task'[t].v = r.v
    BY <1>b, <1>c
  <2> QED
    BY ONLY <1>c, <2>1 DEF BestUnderWay, Own
<1> USE <1>0, NoCallIsNone DEF BestUnderWay, BestSettled, At, Own, Op
<1>1. ASSUME NEW old, Judge(t, old), best = old, high = old, old \in Nat,
             best' = best, redis' \in {None, best}
      PROVE  (task'[t].op \in Own => BestUnderWay(task[t])') /\ (task'[t].op \notin Own => BestSettled')
  <2>1. CASE r.v > old
    <3>1. Go(t, "announce") /\ high' = r.v
      BY <1>1, <2>1 DEF Judge, Higher, Go
    <3> QED
      BY <1>c, <3>1
  <2>2. CASE ~(r.v > old)
    <3>1. End(t) /\ high' = high
      BY <1>1, <2>2 DEF Judge, Higher, End
    <3> QED
      BY <1>1, <1>a, <3>1
  <2> QED
    BY <2>1, <2>2
<1>2. CASE Lookup(t)
  <2>1. CASE redis = None
    BY <1>2, <2>1, <1>c DEF Lookup
  <2>2. CASE redis # None
    BY <1>2, <2>2, <1>1 DEF Lookup
  <2> QED
    BY <2>1, <2>2
<1>3. CASE Load(t)
  <2>1. /\ task'[t].op = "share" /\ task'[t].pc = "fill"
        /\ task'[t].v = r.v /\ task'[t].seen = best
    <3>1. [task EXCEPT ![t].pc = "fill", ![t].seen = best] =
            [task EXCEPT ![t] = [op |-> r.op, pc |-> "fill", v |-> r.v, seen |-> best]]
      BY GoWithIs
    <3>2. task' = [task EXCEPT ![t] = [op |-> r.op, pc |-> "fill", v |-> r.v, seen |-> best]]
      BY <1>3, <3>1, Zenon DEF Load
    <3> QED
      BY <3>2, Others
  <2> QED
    BY <1>3, <2>1 DEF Load, bests
<1>4. CASE Fill(t)
  BY <1>4, <1>1 DEF Fill
<1>5. CASE Announce(t)
  BY <1>5, <1>c DEF Announce, bests
<1>6. CASE Save(t)
  BY <1>6, <1>c DEF Save
<1>7. CASE Publish(t)
  BY <1>7, <1>a DEF Publish, Published
<1> QED
  BY <1>2, <1>3, <1>4, <1>5, <1>6, <1>7 DEF ShareStep

LEMMA ResetKeepsBest ==
    ASSUME TypeOK, BestOK, NEW t \in Task, ResetStep(t)
    PROVE  BestOK'
<1> DEFINE r == task[t]
<1>0. r.op = "reset" /\ BestUnderWay(r)
  BY WhoSteps DEF BestOK
<1>a. End(t) => task'[t].op = None
  BY EndMoves DEF Idle
<1>b. \A pc : Go(t, pc) => task'[t].op = "reset" /\ task'[t].pc = pc
  BY <1>0, GoIs, Others
<1>m. Moves(t)
  BY StepMoves DEF Step
<1> SUFFICES (task'[t].op \in Own => BestUnderWay(task[t])') /\ (task'[t].op \notin Own => BestSettled')
  BY <1>0, <1>m, BestOwnStep DEF Own
<1> USE <1>0, NoCallIsNone DEF BestUnderWay, BestSettled, At, Own, Op
<1>1. CASE ResetService(t)
  BY <1>1, <1>b DEF ResetService
<1>2. CASE ResetSettings(t)
  BY <1>2, <1>b DEF ResetSettings
<1>3. CASE ResetTracker(t)
  BY <1>3, <1>a DEF ResetTracker
<1> QED
  BY <1>1, <1>2, <1>3 DEF ResetStep

LEMMA BestMoves == TypeOK /\ BestPart /\ [Next]_vars => BestPart'
<1> SUFFICES ASSUME TypeOK, BestPart, [Next]_vars, "best" \notin races' PROVE BestOK'
  BY DEF BestPart, BestOK, Own
<1>0. BestOK
  BY RacesStay DEF BestPart, BestOK, Own
<1>1. ASSUME NEW t \in Task, Call(t) \/ Tick(t) PROVE BestOK'
  <2> PICK op, pc, v : Begins(t, op, pc, v)
    BY <1>1, CallBegins
  <2>0. /\ task'[t].op = op /\ task'[t].pc = pc /\ task[t].op = None
        /\ \A s \in Task \ {t} : task'[s] = task[s]
        /\ best' = best /\ high' = high /\ redis' = redis
    <3>1. /\ task' = [task EXCEPT ![t] = [op |-> op, pc |-> pc, v |-> v, seen |-> None]]
          /\ task[t] = Idle /\ UNCHANGED bests
      BY DEF Begins
    <3>2. /\ task'[t] = [op |-> op, pc |-> pc, v |-> v, seen |-> None]
          /\ \A s \in Task \ {t} : task'[s] = task[s]
      BY <3>1, Others
    <3> QED
      BY <3>1, <3>2 DEF Idle, bests
  <2>1. CASE op \notin Own
    <3>1. \A s \in Task : task[s].op \in Own \/ task'[s].op \in Own => task'[s] = task[s]
      BY <2>0, <2>1, NoCallIsNone DEF Own, Op
    <3> QED
      BY <1>0, <2>0, <3>1, BestFrame
  <2>2. CASE op \in Own
    <3>1. \A s \in Task : task[s].op \notin Own
      BY <2>2 DEF Begins, Clash, InFlight, Own
    <3>2. BestSettled'
      BY <1>0, <2>0, <3>1 DEF BestOK, Quiet, InFlight, BestSettled
    <3>3. \A s \in Task \ {t} : BestUnderWay(task[s])'
      BY <2>0, <3>1 DEF BestUnderWay, Own
    <3>4. BestUnderWay(task[t])'
      BY <2>0, <3>2 DEF BestUnderWay, Begins, First
    <3>5. Alone(Own, Own)'
      BY <2>0, <3>1 DEF Alone
    <3> QED
      BY <3>2, <3>3, <3>4, <3>5 DEF BestOK
  <2> QED
    BY <2>1, <2>2
<1>2. ASSUME NEW t \in Task, Step(t) PROVE BestOK'
  <2>1. CASE ShareStep(t)
    BY <1>0, <2>1, ShareKeepsBest
  <2>2. CASE ResetStep(t)
    BY <1>0, <2>2, ResetKeepsBest
  <2>3. CASE BestStep(t) \/ SendStep(t) \/ NetStep(t) \/ PushStep(t) \/ ChatStep(t)
    <3>1. task[t].op \notin Own /\ best' = best /\ high' = high /\ redis' = redis
      <4>1. task[t].op \notin Own
        BY <2>3, WhoSteps DEF Own, Sending
      <4>2. best' = best /\ high' = high /\ redis' = redis
        BY <2>3, WhoSteps DEF bests
      <4> QED
        BY <4>1, <4>2
    <3>2. \A s \in Task : task[s].op \in Own \/ task'[s].op \in Own => task'[s] = task[s]
      <4>1. Moves(t)
        BY <1>2, StepMoves
      <4>2. \A s \in Task \ {t} : task'[s] = task[s]
        BY <4>1, Others DEF Moves
      <4>3. task'[t].op \notin Own
        <5>1. task'[t].op \in {task[t].op, None}
          BY <4>1, Zenon DEF Moves
        <5>2. None \notin Own
          BY NoCallIsNone DEF Own, Op
        <5> QED
          BY <3>1, <5>1, <5>2, Zenon
      <4> QED
        BY <3>1, <4>2, <4>3
    <3> QED
      BY <1>0, <3>1, <3>2, BestFrame
  <2> QED
    BY <1>2, <2>1, <2>2, <2>3 DEF Step
<1>3. ASSUME NEW t \in Task, Fail(t) PROVE BestOK'
  <2>1. task[t].op \notin Own /\ best' = best /\ high' = high /\ redis' = redis
    BY <1>3, FailMoves DEF Halves, Own, bests
  <2>2. \A s \in Task : task[s].op \in Own \/ task'[s].op \in Own => task'[s] = task[s]
    <3>1. task'[t].op \notin Own
      BY <1>3, <2>1, FailMoves, NoCallIsNone DEF Moves, Own, Op
    <3>2. \A s \in Task \ {t} : task'[s] = task[s]
      BY <1>3, FailMoves, Others DEF Moves
    <3> QED
      BY <2>1, <3>1, <3>2
  <2> QED
    BY <1>0, <2>1, <2>2, BestFrame
<1>4. CASE Restart
  <2>1. \A s \in Task : task[s].op \notin Own
    BY <1>4 DEF Restart, Halves, Own
  <2>2. /\ \A s \in Task : task'[s].op \notin Own
        /\ best' = best /\ high' = high /\ redis' = redis
    BY <1>4, NoCallIsNone DEF Restart, Idle, Own, Op, bests
  <2> QED
    BY <1>0, <2>1, <2>2, BestFrame
<1>5. CASE Expire \/ (\E n \in Value : Change(n)) \/ (\E e \in Endpoint : Configure(e))
  BY <1>0, <1>5, BestFrame DEF Expire, Change, Configure, bests
<1>6. CASE UNCHANGED vars
  BY <1>0, <1>6, BestFrame DEF vars, bests
<1> QED
  BY <1>1, <1>2, <1>3, <1>4, <1>5, <1>6 DEF Next, Task

-------------------------------------------------------------------------------
(* The subscriptions. *)

LEMMA BeginsMoves ==
    ASSUME TypeOK, NEW t \in Task, NEW op, NEW pc, NEW v, Begins(t, op, pc, v)
    PROVE  /\ task'[t].op = op /\ task'[t].pc = pc /\ task'[t].v = v /\ task'[t].seen = None
           /\ task[t].op = None /\ task[t].pc = None
           /\ \A s \in Task \ {t} : task'[s] = task[s]
<1>1. /\ task' = [task EXCEPT ![t] = [op |-> op, pc |-> pc, v |-> v, seen |-> None]]
      /\ task[t] = Idle
  BY DEF Begins
<1>2. /\ task'[t] = [op |-> op, pc |-> pc, v |-> v, seen |-> None]
      /\ \A s \in Task \ {t} : task'[s] = task[s]
  BY <1>1, Others
<1> QED
  BY <1>1, <1>2 DEF Idle

\* What a read puts into a call, and the await it then stands at.
LEMMA ReadIs ==
    ASSUME NEW r, NEW x, CallOK(r)
    PROVE  /\ [[r EXCEPT !.v = x] EXCEPT !.pc = "upsert"] =
                [op |-> r.op, pc |-> "upsert", v |-> x, seen |-> r.seen]
           /\ [[r EXCEPT !.seen = x] EXCEPT !.pc = "upsert"] =
                [op |-> r.op, pc |-> "upsert", v |-> r.v, seen |-> x]
<1>1. PICK op, pc, v, was : r = [op |-> op, pc |-> pc, v |-> v, seen |-> was]
  BY DEF CallOK
<1> DEFINE f == [r EXCEPT !.v = x]
           g == [r EXCEPT !.seen = x]
<1>2. /\ f = [op |-> op, pc |-> pc, v |-> x, seen |-> was]
      /\ g = [op |-> op, pc |-> pc, v |-> v, seen |-> x]
  BY ONLY <1>1
<1> HIDE DEF f, g
<1>3. /\ [f EXCEPT !.pc = "upsert"] = [op |-> op, pc |-> "upsert", v |-> x, seen |-> was]
      /\ [g EXCEPT !.pc = "upsert"] = [op |-> op, pc |-> "upsert", v |-> v, seen |-> x]
  BY ONLY <1>2
<1>4. r.op = op /\ r.v = v /\ r.seen = was
  BY ONLY <1>1
<1> QED
  BY ONLY <1>3, <1>4 DEF f, g

\* Where a step outside the subscriptions can lead.
LEMMA StepEnds ==
    ASSUME TypeOK, NEW t \in Task,
           ShareStep(t) \/ ResetStep(t) \/ BestStep(t) \/ SendStep(t) \/ NetStep(t) \/ ChatStep(t)
    PROVE  {task[t].pc, task'[t].pc} \cap {"mark", "drop", "enter"} = {}
<1> DEFINE r == task[t]
<1>0. Along(r.op, r.pc, r.v, r.seen)
  BY DEF TypeOK, CallOK
<1>z. CallOK(r)
  BY DEF TypeOK
<1>a. End(t) => task'[t].pc = None
  BY EndMoves DEF Idle
<1>b. \A pc : Go(t, pc) => task'[t].pc = pc
  BY GoIs, Others
<1>c. Moves(t)
  BY StepMoves DEF Step
<1> USE NoCallIsNone DEF SendPc
<1>1. CASE ShareStep(t) \/ ResetStep(t) \/ ChatStep(t)
  <2>1. /\ r.op \in {"share", "reset", "subscribe", "remove"}
        /\ Along(task'[t].op, task'[t].pc, task'[t].v, task'[t].seen)
        /\ task'[t].op \in {r.op, None}
    BY <1>1, <1>c, WhoSteps DEF Moves, CallOK
  <2> QED
    BY <1>0, <2>1 DEF Along, Op
<1>2. CASE BestStep(t)
  <2>1. CASE Upsert(t)
    BY <2>1, <1>a, <1>b DEF Upsert, At
  <2>2. CASE ReadBest(t)
    <3>1. task'[t].pc \in {"upsert", "tracker", None}
      <4>1. CASE r.pc = "settings"
        <5> DEFINE s == [r EXCEPT !.v = best]
        <5>1. task'[t] = IF Synced(s) THEN [s EXCEPT !.pc = "upsert"] ELSE Idle
          BY <2>2, <4>1, Others DEF ReadBest, Decide
        <5>2. [s EXCEPT !.pc = "upsert"] = [op |-> r.op, pc |-> "upsert", v |-> best, seen |-> r.seen]
          BY <1>z, ReadIs
        <5> HIDE DEF s
        <5>3. [s EXCEPT !.pc = "upsert"].pc = "upsert"
          BY ONLY <5>2
        <5> QED
          BY ONLY <5>1, <5>3 DEF Idle
      <4>2. CASE r.pc # "settings"
        <5>1. task'[t].pc = "tracker"
          BY <2>2, <4>2 DEF ReadBest, TypeOK, CallOK
        <5> QED
          BY <5>1
      <4> QED
        BY <4>1, <4>2
    <3> QED
      BY <2>2, <3>1 DEF ReadBest
  <2>3. CASE ReadTracker(t)
    <3>1. task'[t].pc \in {"upsert", "settings", None}
      <4>1. CASE r.pc = "tracker"
        <5> DEFINE s == [r EXCEPT !.seen = tracker]
        <5>1. task'[t] = IF Synced(s) THEN [s EXCEPT !.pc = "upsert"] ELSE Idle
          BY <2>3, <4>1, Others DEF ReadTracker, Decide
        <5>2. [s EXCEPT !.pc = "upsert"] = [op |-> r.op, pc |-> "upsert", v |-> r.v, seen |-> tracker]
          BY <1>z, ReadIs
        <5> HIDE DEF s
        <5>3. [s EXCEPT !.pc = "upsert"].pc = "upsert"
          BY ONLY <5>2
        <5> QED
          BY ONLY <5>1, <5>3 DEF Idle
      <4>2. CASE r.pc # "tracker"
        <5>1. task'[t].pc = "settings"
          BY <2>3, <4>2 DEF ReadTracker, TypeOK, CallOK
        <5> QED
          BY <5>1
      <4> QED
        BY <4>1, <4>2
    <3> QED
      BY <2>3, <3>1 DEF ReadTracker
  <2> QED
    BY <1>2, <2>1, <2>2, <2>3 DEF BestStep
<1>3. CASE SendStep(t)
  BY <1>3, <1>a, <1>b DEF SendStep, Present, SendUp, SendFcm, Done
<1>4. CASE NetStep(t)
  BY <1>4, <1>a, <1>b DEF NetStep, ReadNetwork, InitNetwork, ShiftNetwork, At
<1> QED
  BY <1>1, <1>2, <1>3, <1>4

\* Rows only go, the cache keeps the address, and whoever is about to empty the cache
\* already was or leaves no row: that disturbs nothing.
LEMMA RowFrame ==
    ASSUME RowPart, HasRows' => HasRows, ready' = ready, present => present',
           \A t \in Task : Emptying(task'[t]) => Emptying(task[t]) \/ ~HasRows',
           present' \/ \A t \in Task : task[t].pc = "enter" => task'[t].pc = "enter",
           "row" \in races => "row" \in races'
    PROVE  RowPart'
<1>1. ASSUME "row" \notin races', NEW t \in Task, Emptying(task'[t]) PROVE ~HasRows'
  BY <1>1 DEF RowPart
<1>2. ASSUME ready', HasRows', "row" \notin races', ~(\E t \in Task : task'[t].pc = "enter")
      PROVE  present'
  BY <1>2 DEF RowPart, PresenceCoversRows
<1> QED
  BY <1>1, <1>2, Zenon DEF RowPart, PresenceCoversRows, Emptying

LEMMA PushKeepsRows ==
    ASSUME TypeOK, RowPart, NEW t \in Task, PushStep(t)
    PROVE  RowPart'
<1> DEFINE r == task[t]
<1>0. Along(r.op, r.pc, r.v, r.seen)
  BY DEF TypeOK, CallOK
<1>a. End(t) => task'[t].pc = None
  BY EndMoves DEF Idle
<1>b. \A pc : Go(t, pc) => task'[t].pc = pc /\ task'[t].seen = r.seen
  BY GoIs, Others
<1>c. Done(t) => task'[t].pc \in {"shift", None}
  BY <1>a, <1>b DEF Done
<1>d. (\A s \in Task \ {t} : task'[s] = task[s])
  BY StepMoves, Others DEF Step, Moves
<1>e. races \subseteq races'
  BY WhoSteps
<1> USE NoCallIsNone
<1>1. CASE Find(t)
  <2>1. task'[t].pc = "store" /\ r.pc = "find" /\ UNCHANGED <<row, present, ready>>
    <3> DEFINE old == row[r.v]
    <3>1. task' = [task EXCEPT ![t].pc = "store", ![t].seen = old]
      BY <1>1 DEF Find
    <3> HIDE DEF old
    <3>2. [task EXCEPT ![t].pc = "store", ![t].seen = old] =
            [task EXCEPT ![t] = [op |-> r.op, pc |-> "store", v |-> r.v, seen |-> old]]
      BY ZenonT(60), GoWithIs
    <3>3. task' = [task EXCEPT ![t] = [op |-> r.op, pc |-> "store", v |-> r.v, seen |-> old]]
      BY <3>1, <3>2
    <3>4. task'[t].pc = "store"
      BY <3>3, Others
    <3> QED
      BY <1>1, <3>4 DEF Find, At, subs
  <2> QED
    BY <1>d, <1>e, <2>1, RowFrame DEF Emptying, HasRows
<1>2. CASE Store(t)
  <2>1. /\ r.pc = "store" /\ UNCHANGED <<present, ready>>
        /\ \/ row' = row /\ task'[t].pc = None
           \/ /\ task'[t].pc = "enter"
              /\ races' = IF Leaving THEN races \cup {"row"} ELSE races
    BY <1>2, <1>a, <1>b DEF Store, At
  <2>2. CASE row' = row /\ task'[t].pc = None
    BY <1>d, <1>e, <2>1, <2>2, RowFrame DEF Emptying, HasRows, SendPc
  <2>3. CASE task'[t].pc = "enter" /\ races' = IF Leaving THEN races \cup {"row"} ELSE races
    <3>1. ASSUME "row" \notin races', NEW s \in Task PROVE ~Emptying(task'[s])
      BY <1>d, <2>1, <2>3, <3>1 DEF Leaving, Emptying
    <3> QED
      BY <2>3, <3>1, Zenon DEF RowPart, PresenceCoversRows, Emptying
  <2> QED
    BY <2>1, <2>2, <2>3
<1>3. CASE Enter(t)
  <2>1. present' = TRUE /\ row' = row /\ ready' = ready /\ task'[t].pc = None
    BY <1>3, <1>a DEF Enter
  <2> QED
    BY <1>d, <1>e, <2>1, RowFrame DEF Emptying, HasRows, SendPc
<1>4. CASE Delete(t)
  <2>1. /\ r.pc = "delete" /\ UNCHANGED <<present, ready>>
        /\ task'[t].pc \in {"count", "shift", None}
    BY <1>4, <1>b, <1>c DEF Delete
  <2>2. HasRows' => HasRows
    BY <1>4 DEF Delete, HasRows, TypeOK
  <2> QED
    BY <1>d, <1>e, <2>1, <2>2, RowFrame DEF Emptying, SendPc
<1>5. CASE Count(t)
  <2> DEFINE rows == {e \in Endpoint : row[e] # None}
             n == Cardinality(rows)
  <2>1. task'[t].pc = "mark" /\ task'[t].seen = n
    <3>1. task' = [task EXCEPT ![t].pc = "mark", ![t].seen = n]
      BY <1>5 DEF Count
    <3> HIDE DEF n
    <3>2. [task EXCEPT ![t].pc = "mark", ![t].seen = n] =
            [task EXCEPT ![t] = [op |-> r.op, pc |-> "mark", v |-> r.v, seen |-> n]]
      BY ZenonT(60), GoWithIs
    <3>3. task' = [task EXCEPT ![t] = [op |-> r.op, pc |-> "mark", v |-> r.v, seen |-> n]]
      BY <3>1, <3>2
    <3> QED
      BY <3>3, Others
  <2>2. r.pc = "count" /\ UNCHANGED <<row, present, ready>>
    BY <1>5 DEF Count, subs
  <2>3. n = 0 => ~HasRows
    <3>1. IsFiniteSet(rows)
      <4>1. Endpoint = ({} \cup {"up"}) \cup {"fcm"}
        BY DEF Endpoint
      <4>2. IsFiniteSet(Endpoint)
        BY <4>1, FS_EmptySet, FS_AddElement
      <4> QED
        BY <4>2, FS_Subset
    <3>2. n = 0 => rows = {}
      BY <3>1, FS_EmptySet
    <3> QED
      BY <3>2 DEF HasRows
  <2> HIDE DEF n
  <2> QED
    BY <1>d, <1>e, <2>1, <2>2, <2>3, RowFrame DEF Emptying, HasRows
<1>6. CASE Mark(t)
  <2>1. /\ r.pc = "mark" /\ r.seen \in Nat /\ UNCHANGED <<row, ready>>
        /\ task'[t].pc \in {"shift", None}
    BY <1>0, <1>6, <1>c DEF Mark, Along
  <2>2. present' <=> r.seen > 0
    BY <1>6, Zenon DEF Mark, Remaining
  <2>3. CASE r.seen > 0
    BY <1>d, <1>e, <2>1, <2>2, <2>3, RowFrame DEF Emptying, HasRows, SendPc
  <2>4. CASE r.seen = 0
    <3>1. "row" \notin races => ~HasRows'
      BY <2>1, <2>4 DEF RowPart, Emptying, HasRows
    <3> QED
      BY <1>e, <3>1, Zenon DEF RowPart, PresenceCoversRows
  <2>5. r.seen > 0 \/ r.seen = 0
    <3>1. r.seen \in Nat
      BY <2>1
    <3> QED
      BY ONLY <3>1
  <2> QED
    BY <2>3, <2>4, <2>5
<1>7. CASE DeleteAll(t)
  <2>1. ~HasRows'
    BY <1>7 DEF DeleteAll, HasRows
  <2> QED
    BY <2>1, Zenon DEF RowPart, PresenceCoversRows
<1>8. CASE Drop(t)
  <2>1. r.pc = "drop" /\ UNCHANGED <<row, ready>> /\ task'[t].pc = None
    BY <1>8, <1>a DEF Drop
  <2>2. "row" \notin races => ~HasRows'
    BY <2>1 DEF RowPart, Emptying, HasRows
  <2> QED
    BY <1>e, <2>2, Zenon DEF RowPart, PresenceCoversRows
<1> QED
  BY <1>1, <1>2, <1>3, <1>4, <1>5, <1>6, <1>7, <1>8 DEF PushStep

LEMMA RowMoves == TypeOK /\ RowPart /\ [Next]_vars => RowPart'
<1> SUFFICES ASSUME TypeOK, RowPart, [Next]_vars PROVE RowPart'
  OBVIOUS
<1> USE NoCallIsNone
<1>1. ASSUME NEW t \in Task, Call(t) \/ Tick(t) PROVE RowPart'
  <2> PICK op, pc, v : Begins(t, op, pc, v)
    BY <1>1, CallBegins
  <2>1. /\ task[t].pc = None /\ task'[t].pc \notin {"mark", "drop", "enter"}
        /\ \A s \in Task \ {t} : task'[s] = task[s]
    BY BeginsMoves DEF Begins, First
  <2>2. UNCHANGED <<row, present, ready>> /\ races \subseteq races'
    BY DEF Begins, subs
  <2> QED
    BY <2>1, <2>2, RowFrame DEF Emptying, HasRows
<1>2. ASSUME NEW t \in Task, Step(t) PROVE RowPart'
  <2>1. CASE PushStep(t)
    BY <2>1, PushKeepsRows
  <2>2. CASE ~PushStep(t)
    <3>1. {task[t].pc, task'[t].pc} \cap {"mark", "drop", "enter"} = {}
      BY <1>2, <2>2, StepEnds DEF Step
    <3>2. UNCHANGED <<row, present, ready>> /\ races \subseteq races'
      BY <1>2, <2>2, WhoSteps DEF Step, subs
    <3>3. \A s \in Task \ {t} : task'[s] = task[s]
      BY <1>2, StepMoves, Others DEF Moves
    <3> QED
      BY <3>1, <3>2, <3>3, RowFrame DEF Emptying, HasRows
  <2> QED
    BY <2>1, <2>2
<1>3. ASSUME NEW t \in Task, Fail(t) PROVE RowPart'
  <2>0. task'[t].pc \in {None, "shift"}
    <3>1. task'[t] = Idle \/ task'[t].pc = "shift"
      BY <1>3, FailMoves
    <3> QED
      BY ONLY <3>1 DEF Idle
  <2>1. /\ task[t].pc \notin {"mark", "drop", "enter"} /\ task'[t].pc \notin {"mark", "drop", "enter"}
        /\ row' = row /\ ready' = ready /\ present' \in {present, TRUE} /\ races \subseteq races'
    BY <1>3, <2>0, FailMoves DEF SendPc
  <2>2. \A s \in Task \ {t} : task'[s] = task[s]
    BY <1>3, FailMoves, Others DEF Moves
  <2>3. present => present'
    BY <2>1, Zenon
  <2> QED
    BY <2>1, <2>2, <2>3, RowFrame DEF Emptying, HasRows
<1>4. CASE Restart
  <2>1. /\ row' = row /\ \A t \in Task : ~Emptying(task'[t])
        /\ present' <=> ready' /\ HasRows
    BY <1>4 DEF Restart, Idle, Emptying, SendPc
  <2>2. HasRows' <=> HasRows
    BY <2>1 DEF HasRows
  <2> QED
    BY <2>1, <2>2, Zenon DEF RowPart, PresenceCoversRows, Emptying
<1>5. CASE Expire \/ (\E n \in Value : Change(n))
  <2>1. UNCHANGED <<row, present, ready, task, races>>
    BY <1>5 DEF Expire, Change, subs
  <2> QED
    BY <2>1, RowFrame DEF HasRows
<1>6. ASSUME NEW e \in Endpoint, Configure(e) PROVE RowPart'
  <2>1. HasRows' => HasRows
    BY <1>6 DEF Configure, HasRows, TypeOK
  <2> QED
    BY <1>6, <2>1, RowFrame DEF Configure
<1>7. CASE UNCHANGED vars
  BY <1>7, RowFrame DEF vars, subs, HasRows
<1> QED
  BY <1>1, <1>2, <1>3, <1>4, <1>5, <1>6, <1>7 DEF Next, Task

-------------------------------------------------------------------------------
(* The chat. *)

ChatOps == {"subscribe", "remove"}

\* Nothing that leaves the chat and its calls alone disturbs it.
LEMMA ChatFrame ==
    ASSUME ChatPart, chat' = chat, races \cap {"chat", "remove"} \subseteq races',
           \A t \in Task : task[t].op \in ChatOps \/ task'[t].op \in ChatOps => task'[t] = task[t]
    PROVE  ChatPart'
<1> SUFFICES ASSUME "chat" \notin races' PROVE ChatPart'
  BY DEF ChatPart
<1>0. \A r : (Names(r)' <=> Names(r)) /\ (ChatUnderWay(r) => ChatUnderWay(r)')
  BY DEF Names, ChatUnderWay, NoDefault, Known
<1>1. OneEach' /\ (AtMostOne => AtMostOne') /\ (NoDefault => NoDefault')
  BY DEF ChatPart, OneEach, AtMostOne, NoDefault
<1>2. Alone({"subscribe"}, {"subscribe", "remove"})'
  BY DEF ChatPart, Alone, ChatOps
<1>3. Named'
  <2>1. ASSUME NEW t \in Task, Names(task[t]) PROVE Names(task[t])'
    BY <2>1 DEF Names, Known, ChatOps
  <2> QED
    BY <2>1 DEF ChatPart, Named, NoDefault
<1>4. ASSUME NEW t \in Task PROVE ChatUnderWay(task[t])'
  BY <1>4 DEF ChatPart, ChatUnderWay, NoDefault, Known, ChatOps
<1>5. "remove" \notin races' =>
        /\ Alone({"remove"}, {"remove"})' /\ AtMostOne'
        /\ \A t \in Task : At(t, "remove", "promote")' => NoDefault'
  BY <1>1 DEF ChatPart, Alone, ChatOps, At
<1> QED
  BY <1>1, <1>2, <1>3, <1>4, <1>5 DEF ChatPart

\* Making an address the default: no row comes or goes, and the address is the default
\* if it has a row.
LEMMA ChatWithKeeps ==
    ASSUME TypeOK, OneEach, NEW a, chat' = ChatWith(a)
    PROVE  /\ OneEach' /\ (chat = {} => chat' = {})
           /\ \A b : Known(b)' <=> Known(b)
           /\ Known(a) \/ ~NoDefault => ~NoDefault'
           /\ NoDefault => AtMostOne'
<1>1. /\ \A d \in chat' : \E c \in chat :
            d = MadeDefault(c, a) /\ d.addr = c.addr /\ (d.dflt <=> c.dflt \/ c.addr = a)
      /\ \A c \in chat : \E d \in chat' :
            d.addr = c.addr /\ (d.dflt <=> c.dflt \/ c.addr = a)
  <2>1. \A c \in chat : /\ MadeDefault(c, a) \in chat'
                        /\ MadeDefault(c, a).addr = c.addr
                        /\ MadeDefault(c, a).dflt <=> c.dflt \/ c.addr = a
    BY MadeDefaultIs DEF TypeOK, ChatWith
  <2>2. \A d \in chat' : \E c \in chat : d = MadeDefault(c, a)
    BY DEF ChatWith
  <2> QED
    BY ONLY <2>1, <2>2
<1>2. OneEach'
  BY <1>1 DEF OneEach
<1>3. chat = {} => chat' = {}
  BY <1>1
<1>4. \A b : Known(b)' <=> Known(b)
  BY <1>1 DEF Known
<1>5. Known(a) \/ ~NoDefault => ~NoDefault'
  BY <1>1, Zenon DEF Known, NoDefault
<1>6. NoDefault => AtMostOne'
  BY <1>1 DEF NoDefault, AtMostOne, OneEach
<1> QED
  BY <1>2, <1>3, <1>4, <1>5, <1>6

LEMMA ClearedIs ==
    ASSUME NEW c \in [addr : Addr, dflt : BOOLEAN], NEW b
    PROVE  [c EXCEPT !.dflt = b] = [addr |-> c.addr, dflt |-> b]
OBVIOUS

\* While a subscription is under way there is no other call on the chat.
LEMMA SubscribeKeepsChat ==
    ASSUME TypeOK, ChatPart, NEW t \in Task, task[t].op = "subscribe", ChatStep(t)
    PROVE  ChatPart'
<1> SUFFICES ASSUME "chat" \notin races, races' = races PROVE ChatPart'
  BY WhoSteps DEF ChatPart
<1> DEFINE r == task[t]
<1>0. /\ OneEach /\ ChatUnderWay(r) /\ chat \subseteq [addr : Addr, dflt : BOOLEAN]
      /\ "remove" \notin races => AtMostOne
  BY DEF ChatPart, TypeOK
<1>1. \A s \in Task \ {t} : task'[s] = task[s] /\ task[s].op \notin ChatOps
  BY StepMoves, Others DEF Step, Moves, ChatPart, Alone, ChatOps
<1>2. task'[t].op \in {"subscribe", None}
  BY StepMoves DEF Step, Moves
<1>3. ASSUME OneEach', chat' = {} \/ ~NoDefault' \/ Names(task[t])', ChatUnderWay(task[t])',
             "remove" \notin races => AtMostOne'
      PROVE  ChatPart'
  <2>1. Alone({"subscribe"}, {"subscribe", "remove"})' /\ Alone({"remove"}, {"remove"})'
    BY <1>1, <1>2, NoCallIsNone DEF Alone, ChatOps, Op
  <2>2. Named'
    BY <1>3 DEF Named
  <2>3. \A s \in Task : ChatUnderWay(task[s])'
    BY <1>1, <1>3 DEF ChatUnderWay, ChatOps
  <2>4. \A s \in Task : At(s, "remove", "promote")' => NoDefault'
    BY <1>1, <1>2, NoCallIsNone DEF At, ChatOps, Op
  <2> QED
    BY <1>3, <2>1, <2>2, <2>3, <2>4 DEF ChatPart
<1>a. End(t) => task'[t].op = None
  BY EndMoves DEF Idle
<1>b. \A pc : Go(t, pc) => task'[t].op = "subscribe" /\ task'[t].pc = pc /\ task'[t].v = r.v
  BY GoIs, Others
<1> USE NoCallIsNone DEF Op
<1>4. CASE ClearDefaults(t)
  <2>0. task'[t].op = "subscribe" /\ task'[t].pc = "find"
    BY <1>4, <1>b DEF ClearDefaults
  <2>1. \A d \in chat' : \E c \in chat : d = [addr |-> c.addr, dflt |-> FALSE]
    <3>1. ASSUME NEW c \in chat PROVE [c EXCEPT !.dflt = FALSE] = [addr |-> c.addr, dflt |-> FALSE]
      BY <1>0, ClearedIs
    <3>2. chat' = {[c EXCEPT !.dflt = FALSE] : c \in chat}
      BY <1>4 DEF ClearDefaults
    <3> QED
      BY ONLY <3>1, <3>2
  <2>2. OneEach' /\ NoDefault' /\ AtMostOne'
    <3>1. ASSUME NEW d \in chat'
          PROVE  \E c \in chat : d = [addr |-> c.addr, dflt |-> FALSE]
                                 /\ d.addr = c.addr /\ ~d.dflt
      <4> PICK c \in chat : d = [addr |-> c.addr, dflt |-> FALSE]
        BY <2>1
      <4>1. d.addr = c.addr /\ ~d.dflt
        OBVIOUS
      <4> QED
        BY <4>1
    <3>2. OneEach'
      <4> SUFFICES ASSUME NEW d \in chat', NEW e \in chat', d.addr = e.addr PROVE d = e
        BY DEF OneEach
      <4>1. PICK c \in chat : d = [addr |-> c.addr, dflt |-> FALSE] /\ d.addr = c.addr
        BY <3>1
      <4>2. PICK b \in chat : e = [addr |-> b.addr, dflt |-> FALSE] /\ e.addr = b.addr
        BY <3>1
      <4> QED
        BY <4>1, <4>2, Zenon
    <3>3. NoDefault' /\ AtMostOne'
      BY <3>1 DEF NoDefault, AtMostOne
    <3> QED
      BY <3>2, <3>3
  <2> QED
    BY <1>3, <2>0, <2>2 DEF Names, ChatUnderWay
<1>5. CASE FindChat(t)
  <2>1. /\ task'[t].op = "subscribe" /\ task'[t].v = r.v /\ chat' = chat
        /\ r.op = "subscribe" /\ r.pc = "find"
        /\ task'[t].pc = IF Known(r.v) THEN "update" ELSE "insert"
    BY <1>5, <1>b DEF FindChat, At, Known
  <2>2. OneEach' /\ NoDefault' /\ ("remove" \notin races => AtMostOne')
    BY <1>0, <2>1 DEF OneEach, NoDefault, AtMostOne, ChatUnderWay
  <2>3. Known(r.v)' <=> Known(r.v)
    BY <2>1 DEF Known
  <2> QED
    BY <1>3, <2>1, <2>2, <2>3 DEF Names, ChatUnderWay, Known
<1>6. CASE MakeDefault(t)
  <2>1. NoDefault /\ Known(r.v) /\ task'[t].op = None
    BY <1>0, <1>6, <1>a DEF MakeDefault, At, ChatUnderWay
  <2>2. chat' = ChatWith(r.v)
    BY <1>6, Zenon DEF MakeDefault, ChatWith, MadeDefault
  <2>3. OneEach' /\ ~NoDefault' /\ AtMostOne'
    BY <1>0, <2>1, <2>2, ChatWithKeeps
  <2> QED
    BY <1>3, <2>1, <2>3 DEF ChatUnderWay
<1>7. CASE InsertChat(t)
  <2> DEFINE new == [addr |-> r.v, dflt |-> TRUE]
  <2>1. NoDefault /\ ~Known(r.v) /\ task'[t].op = None /\ chat' = chat \cup {new}
    BY <1>0, <1>7, <1>a DEF InsertChat, At, ChatUnderWay
  <2>2. new.addr = r.v /\ new.dflt
    OBVIOUS
  <2> HIDE DEF new
  <2>3. OneEach' /\ ~NoDefault' /\ AtMostOne'
    <3>1. \A c \in chat : ~c.dflt /\ c.addr # r.v
      <4>1. \A c \in chat : ~c.dflt
        BY <2>1 DEF NoDefault
      <4>2. \A c \in chat : c.addr # r.v
        BY <2>1 DEF Known
      <4> QED
        BY <4>1, <4>2
    <3>2. OneEach'
      <4> SUFFICES ASSUME NEW a \in chat', NEW b \in chat', a.addr = b.addr PROVE a = b
        BY DEF OneEach
      <4>1. CASE a = new \/ b = new
        <5>1. a = new => b \notin chat
          BY <2>2, <3>1
        <5>2. b = new => a \notin chat
          BY <2>2, <3>1
        <5> QED
          BY <2>1, <4>1, <5>1, <5>2, Zenon
      <4>2. CASE a \in chat /\ b \in chat
        BY <1>0, <4>2, Zenon DEF OneEach
      <4> QED
        BY <2>1, <4>1, <4>2, Zenon
    <3>3. ~NoDefault'
      BY <2>1, <2>2 DEF NoDefault
    <3>4. AtMostOne'
      BY <2>1, <2>2, <3>1 DEF AtMostOne
    <3> QED
      BY <3>2, <3>3, <3>4
  <2> QED
    BY <1>3, <2>1, <2>3 DEF ChatUnderWay
<1>8. ~(RemoveRows(t) \/ ReadLeft(t) \/ Promote(t))
  BY DEF RemoveRows, ReadLeft, Promote, At
<1> QED
  BY <1>4, <1>5, <1>6, <1>7, <1>8 DEF ChatStep

\* While a removal is under way there is no subscription; another removal may be.
LEMMA RemoveKeepsChat ==
    ASSUME TypeOK, ChatPart, NEW t \in Task, task[t].op = "remove", ChatStep(t)
    PROVE  ChatPart'
<1> SUFFICES ASSUME "chat" \notin races, races' = races PROVE ChatPart'
  BY WhoSteps DEF ChatPart
<1> DEFINE r == task[t]
<1>0. /\ OneEach /\ Named /\ chat \subseteq [addr : Addr, dflt : BOOLEAN]
      /\ "remove" \notin races =>
           AtMostOne /\ \A s \in Task : At(s, "remove", "promote") => NoDefault
  BY DEF ChatPart, TypeOK
<1>1. \A s \in Task \ {t} : task'[s] = task[s] /\ task[s].op # "subscribe"
  BY StepMoves, Others DEF Step, Moves, ChatPart, Alone
<1>2. task'[t].op \in {"remove", None}
  BY StepMoves DEF Step, Moves
<1>c. "remove" \notin races => \A s \in Task \ {t} : task[s].op # "remove"
  BY DEF ChatPart, Alone
<1>3. ASSUME OneEach', chat' = {} \/ ~NoDefault' \/ \E s \in Task : Names(task[s])',
             "remove" \notin races => AtMostOne' /\ (At(t, "remove", "promote")' => NoDefault')
      PROVE  ChatPart'
  <2>1. /\ Alone({"subscribe"}, {"subscribe", "remove"})'
        /\ "remove" \notin races => Alone({"remove"}, {"remove"})'
    BY <1>1, <1>2, <1>c, NoCallIsNone DEF Alone, Op
  <2>2. Named'
    BY <1>3 DEF Named
  <2>3. \A s \in Task : ChatUnderWay(task[s])'
    BY <1>1, <1>2, NoCallIsNone DEF ChatUnderWay, Op
  <2>4. "remove" \notin races => \A s \in Task : At(s, "remove", "promote")' => NoDefault'
    BY <1>1, <1>3, <1>c DEF At
  <2> QED
    BY <1>3, <2>1, <2>2, <2>3, <2>4 DEF ChatPart
<1>a. End(t) => task'[t].op = None
  BY EndMoves DEF Idle
<1>b. \A pc : Go(t, pc) => task'[t].op = "remove" /\ task'[t].pc = pc /\ task'[t].v = r.v
  BY GoIs, Others
<1> USE NoCallIsNone DEF Op
<1>4. CASE RemoveRows(t)
  <2>1. /\ r.pc = "rows" /\ chat' \subseteq chat
        /\ \/ chat' = chat /\ task'[t].op = None
           \/ task'[t].op = "remove" /\ task'[t].pc = "left"
    BY <1>4, <1>a, <1>b DEF RemoveRows, At
  <2>2. OneEach' /\ ("remove" \notin races => AtMostOne')
    BY <1>0, <2>1 DEF OneEach, AtMostOne
  <2>3. CASE chat' = chat /\ task'[t].op = None
    <3>1. ~Names(r)
      BY <2>1 DEF Names
    <3>2. ASSUME NEW s \in Task, Names(task[s]) PROVE Names(task[s])'
      BY <1>1, <2>3, <3>1, <3>2 DEF Names, Known
    <3> QED
      BY <1>0, <1>3, <2>2, <2>3, <3>2 DEF Named, NoDefault, At
  <2>4. CASE task'[t].op = "remove" /\ task'[t].pc = "left"
    BY <1>3, <2>2, <2>4 DEF Names, At
  <2> QED
    BY <2>1, <2>3, <2>4
<1>5. CASE ReadLeft(t)
  <2>1. chat' = chat /\ r.pc = "left"
    BY <1>5 DEF ReadLeft, At
  <2>2. OneEach' /\ ("remove" \notin races => AtMostOne') /\ (NoDefault' <=> NoDefault)
    BY <1>0, <2>1 DEF OneEach, AtMostOne, NoDefault
  <2>3. CASE Orphaned
    <3> PICK c \in chat : task' = [task EXCEPT ![t].pc = "promote", ![t].v = c.addr]
      BY <1>5, <2>3 DEF ReadLeft
    <3> DEFINE a == c.addr
    <3>0. task' = [task EXCEPT ![t].pc = "promote", ![t].v = a]
      OBVIOUS
    <3> HIDE DEF a
    <3>1. [task EXCEPT ![t].pc = "promote", ![t].v = a] =
            [task EXCEPT ![t] = [op |-> r.op, pc |-> "promote", v |-> a, seen |-> r.seen]]
      BY GoWithIs
    <3>4. task' = [task EXCEPT ![t] = [op |-> r.op, pc |-> "promote", v |-> a, seen |-> r.seen]]
      BY <3>0, <3>1
    <3>5. task'[t] = [op |-> r.op, pc |-> "promote", v |-> a, seen |-> r.seen]
      BY <3>4, Others
    <3>2. task'[t].op = "remove" /\ task'[t].pc = "promote" /\ task'[t].v = c.addr
      <4>1. r.op = "remove"
        OBVIOUS
      <4> QED
        BY ONLY <3>5, <4>1 DEF a
    <3>3. Names(task[t])' /\ NoDefault'
      BY <2>1, <2>3, <3>2 DEF Names, Known, Orphaned, NoDefault
    <3> QED
      BY <1>3, <2>2, <3>3
  <2>4. CASE ~Orphaned
    <3>1. task'[t].op = None /\ (chat' = {} \/ ~NoDefault')
      BY <1>5, <1>a, <2>1, <2>2, <2>4 DEF ReadLeft, Orphaned, NoDefault
    <3> QED
      BY <1>3, <2>2, <3>1 DEF At
  <2> QED
    BY <2>3, <2>4
<1>6. CASE Promote(t)
  <2>1. r.pc = "promote" /\ task'[t].op = None /\ ("remove" \notin races => NoDefault)
    BY <1>0, <1>6, <1>a DEF Promote, At
  <2>2. chat' = ChatWith(r.v)
    BY <1>6, Zenon DEF Promote, ChatWith, MadeDefault
  <2>3. /\ OneEach' /\ (chat = {} => chat' = {})
        /\ \A b : Known(b)' <=> Known(b)
        /\ Known(r.v) \/ ~NoDefault => ~NoDefault'
        /\ NoDefault => AtMostOne'
    BY <1>0, <2>2, ChatWithKeeps
  <2>4. ASSUME NEW s \in Task, Names(task[s]), ~Known(r.v) PROVE Names(task[s])'
    <3>1. s # t
      BY <2>1, <2>4 DEF Names
    <3> QED
      BY <1>1, <2>3, <2>4, <3>1 DEF Names
  <2>5. chat' = {} \/ ~NoDefault' \/ \E s \in Task : Names(task[s])'
    BY <1>0, <2>3, <2>4 DEF Named
  <2> QED
    BY <1>3, <2>1, <2>3, <2>5 DEF At
<1>8. ~(ClearDefaults(t) \/ FindChat(t) \/ MakeDefault(t) \/ InsertChat(t))
  BY DEF ClearDefaults, FindChat, MakeDefault, InsertChat, At
<1> QED
  BY <1>4, <1>5, <1>6, <1>8 DEF ChatStep

LEMMA ChatMoves == TypeOK /\ ChatPart /\ [Next]_vars => ChatPart'
<1> SUFFICES ASSUME TypeOK, ChatPart, [Next]_vars, "chat" \notin races' PROVE ChatPart'
  BY DEF ChatPart
<1> USE NoCallIsNone DEF Op
<1>0. "chat" \notin races /\ ("remove" \in races => "remove" \in races')
  BY RacesStay
<1>1. ASSUME NEW t \in Task, Call(t) \/ Tick(t) PROVE ChatPart'
  <2> PICK op, pc, v : Begins(t, op, pc, v)
    BY <1>1, CallBegins
  <2>1. /\ task'[t].op = op /\ task'[t].pc = pc /\ task[t].op = None
        /\ \A s \in Task \ {t} : task'[s] = task[s]
    <3>1. /\ task'[t].op = op /\ task'[t].pc = pc /\ task'[t].v = v /\ task'[t].seen = None
          /\ task[t].op = None /\ task[t].pc = None
          /\ \A s \in Task \ {t} : task'[s] = task[s]
      BY BeginsMoves, Zenon
    <3> QED
      BY <3>1
  <2>2. chat' = chat /\ races' = races \cup Clash(op) /\ <<op, pc>> \in First
    BY DEF Begins
  <2>3. CASE op \notin ChatOps
    BY <1>0, <2>1, <2>2, <2>3, ChatFrame DEF ChatOps
  <2>4. /\ OneEach' /\ (AtMostOne => AtMostOne') /\ (NoDefault' <=> NoDefault)
        /\ \A a : Known(a)' <=> Known(a)
    BY <1>0, <2>2 DEF ChatPart, OneEach, AtMostOne, NoDefault, Known
  <2>5. ASSUME NEW s \in Task, Names(task[s]) PROVE Names(task[s])'
    BY <2>1, <2>4, <2>5 DEF Names
  <2>6. Named'
    BY <1>0, <2>2, <2>4, <2>5 DEF ChatPart, Named
  <2>7. CASE op = "subscribe"
    <3>1. \A s \in Task \ {t} : task'[s].op \notin ChatOps
      BY <2>1, <2>2, <2>7 DEF Clash, InFlight, ChatOps
    <3>2. task'[t].pc = "clear"
      BY <2>1, <2>2, <2>7 DEF First
    <3>3. Alone({"subscribe"}, {"subscribe", "remove"})' /\ Alone({"remove"}, {"remove"})'
      BY <2>1, <2>7, <3>1 DEF Alone, ChatOps
    <3>4. \A s \in Task : ChatUnderWay(task[s])' /\ ~At(s, "remove", "promote")'
      BY <2>1, <2>7, <3>1, <3>2 DEF ChatUnderWay, At, ChatOps
    <3> QED
      BY <1>0, <2>4, <2>6, <3>3, <3>4 DEF ChatPart
  <2>8. CASE op = "remove"
    <3>1. \A s \in Task : task'[s].op # "subscribe"
      BY <2>1, <2>2, <2>8 DEF Clash, InFlight
    <3>2. task'[t].pc = "rows"
      BY <2>1, <2>2, <2>8 DEF First
    <3>3. "remove" \notin races' => \A s \in Task \ {t} : task'[s].op # "remove"
      BY <2>1, <2>2, <2>8 DEF Clash, InFlight
    <3>4. /\ Alone({"subscribe"}, {"subscribe", "remove"})'
          /\ "remove" \notin races' => Alone({"remove"}, {"remove"})'
      BY <3>1, <3>3 DEF Alone
    <3>5. \A s \in Task : ChatUnderWay(task[s])'
      BY <3>1 DEF ChatUnderWay
    <3>6. "remove" \notin races' => \A s \in Task : ~At(s, "remove", "promote")'
      BY <3>2, <3>3 DEF At
    <3> QED
      BY <1>0, <2>4, <2>6, <3>4, <3>5, <3>6 DEF ChatPart
  <2> QED
    BY <2>3, <2>7, <2>8 DEF ChatOps
<1>2. ASSUME NEW t \in Task, Step(t) PROVE ChatPart'
  <2>1. CASE ChatStep(t)
    <3>1. task[t].op \in {"subscribe", "remove"}
      BY <2>1, WhoSteps
    <3> QED
      BY <2>1, <3>1, SubscribeKeepsChat, RemoveKeepsChat
  <2>2. CASE ~ChatStep(t)
    <3>1. chat' = chat /\ task[t].op \notin ChatOps
      BY <1>2, <2>2, WhoSteps DEF Step, ChatOps, Sending
    <3>2. task'[t].op \notin ChatOps /\ \A s \in Task \ {t} : task'[s] = task[s]
      BY <1>2, <3>1, StepMoves, Others DEF Moves, ChatOps
    <3> QED
      BY <1>0, <3>1, <3>2, ChatFrame
  <2> QED
    BY <2>1, <2>2
<1>3. ASSUME NEW t \in Task, Fail(t) PROVE ChatPart'
  <2>1. /\ chat' = chat /\ races' = races \cup Halves(t)
        /\ task'[t].op \in {task[t].op, None} /\ \A s \in Task \ {t} : task'[s] = task[s]
    BY <1>3, FailMoves, Others DEF Moves
  <2>2. task[t].op \notin ChatOps
    BY <2>1 DEF Halves, ChatOps
  <2> QED
    BY <1>0, <2>1, <2>2, ChatFrame DEF ChatOps
<1>4. CASE Restart
  <2>1. \A t \in Task : Halves(t) \subseteq races'
    BY <1>4 DEF Restart
  <2>2. \A t \in Task : task[t].op \notin ChatOps
    BY <2>1 DEF Halves, ChatOps
  <2>3. chat' = chat /\ \A t \in Task : task'[t].op \notin ChatOps
    BY <1>4 DEF Restart, Idle, ChatOps
  <2> QED
    BY <1>0, <2>2, <2>3, ChatFrame
<1>5. CASE Expire \/ (\E n \in Value : Change(n)) \/ (\E e \in Endpoint : Configure(e))
  BY <1>0, <1>5, ChatFrame DEF Expire, Change, Configure
<1>6. CASE UNCHANGED vars
  BY <1>0, <1>6, ChatFrame DEF vars
<1> QED
  BY <1>1, <1>2, <1>3, <1>4, <1>5, <1>6 DEF Next, Task

-------------------------------------------------------------------------------
(* The pushes. *)

PushOps == {"share", "reset", "best"}

PushOK ==
    /\ Alone({"best"}, {"best"}) /\ Alone({"reset"}, {"share", "reset", "best"})
    /\ \A e \in Endpoint, v \in Value : told[e][v] <= 1
    /\ Caught(best)
    /\ \A t \in Task : PushUnderWay(task[t])
    /\ \A t \in Task : At(t, "reset", "tracker") => best = 0

LEMMA PushValues ==
    ASSUME TypeOK, NEW t \in Task, task[t].op = "best"
    PROVE  /\ task[t].pc \in {"tracker", "upsert", "present", "up", "fcm"} => task[t].v \in Value
           /\ task[t].pc \in {"settings", "upsert"} => task[t].seen \in Value
BY DEF TypeOK, CallOK, Along

\* Nothing disturbs the pushes that leaves the tracker and the run alone, while counts
\* only start again and a new best has none.
LEMMA PushFrame ==
    ASSUME TypeOK, PushOK, tracker' = tracker, best' \in Value,
           best' = best \/ NotYet(best)',
           \A e \in Endpoint, v \in Value : told'[e][v] \in {told[e][v], 0},
           \A t \in Task : /\ task'[t].op \in PushOps => task[t].op = task'[t].op
                           /\ task'[t].op = "best" => task'[t] = task[t]
                           /\ At(t, "reset", "tracker")' => At(t, "reset", "tracker") /\ best' = best
    PROVE  PushOK'
<1>0. \A e \in Endpoint, v \in Value : told[e][v] \in Nat
  BY DEF TypeOK
<1>1. \A v \in Value : (NotYet(v) => NotYet(v)') /\ (Caught(v) => Caught(v)')
  BY DEF NotYet, Caught
<1>2. \A e \in Endpoint, v \in Value : told'[e][v] <= 1
  <2> TAKE e \in Endpoint, v \in Value
  <2>1. told[e][v] <= 1 /\ told'[e][v] \in {told[e][v], 0}
    BY DEF PushOK
  <2> QED
    BY ONLY <2>1
<1>3. Caught(best)'
  BY <1>1 DEF PushOK, Caught, NotYet
<1>4. ASSUME NEW t \in Task PROVE PushUnderWay(task[t])'
  <2> SUFFICES ASSUME task'[t].op = "best" PROVE PushUnderWay(task[t])'
    BY DEF PushUnderWay
  <2>1. /\ task[t].pc \in {"tracker", "upsert", "present", "up", "fcm"} => task[t].v \in Value
        /\ task'[t] = task[t] /\ PushUnderWay(task[t]) /\ task[t].op = "best" /\ best \in Value
    BY PushValues DEF PushOK, TypeOK
  <2>2. task[t].pc = "fcm" => told'["fcm"][task[t].v] = 0
    BY <2>1 DEF PushUnderWay, Endpoint
  <2> QED
    BY <1>1, <2>1, <2>2 DEF PushUnderWay
<1>5. \A t \in Task : At(t, "reset", "tracker")' => best' = 0
  BY DEF PushOK
<1>6. Alone({"best"}, {"best"})' /\ Alone({"reset"}, {"share", "reset", "best"})'
  BY DEF PushOK, Alone, PushOps
<1> QED
  BY <1>2, <1>3, <1>4, <1>5, <1>6 DEF PushOK

\* A step of the one run there is, no reset being under way.
LEMMA RunFrame ==
    ASSUME TypeOK, PushOK, NEW t \in Task, task[t].op = "best", Moves(t),
           \A e \in Endpoint, v \in Value : told'[e][v] <= 1,
           Caught(best)', PushUnderWay(task[t])'
    PROVE  PushOK'
<1>1. \A s \in Task \ {t} : task'[s] = task[s] /\ task[s].op \notin {"best", "reset"}
  BY Others DEF Moves, PushOK, Alone
<1>2. task'[t].op \in {"best", None}
  BY DEF Moves
<1>3. \A s \in Task \ {t} : PushUnderWay(task[s])'
  BY <1>1 DEF PushUnderWay
<1>4. \A s \in Task : ~At(s, "reset", "tracker")'
  BY <1>1, <1>2, NoCallIsNone DEF At, Op
<1>5. Alone({"best"}, {"best"})' /\ Alone({"reset"}, {"share", "reset", "best"})'
  BY <1>1, <1>2, NoCallIsNone DEF Alone, Op
<1> QED
  BY <1>3, <1>4, <1>5 DEF PushOK

LEMMA ShareKeepsPushes ==
    ASSUME TypeOK, PushOK, NEW t \in Task, ShareStep(t)
    PROVE  PushOK'
<1> DEFINE v == task[t].v
<1>0. /\ task[t].op = "share" /\ tracker' = tracker
      /\ \A s \in Task \ {t} : task'[s] = task[s]
      /\ task'[t].op \in {"share", None}
  BY WhoSteps, StepMoves, Others DEF Step, Moves
<1>1. \A s \in Task : /\ task'[s].op \in PushOps => task[s].op = task'[s].op
                      /\ task'[s].op = "best" => task'[s] = task[s]
                      /\ ~At(s, "reset", "tracker")'
  BY <1>0, NoCallIsNone DEF At, Op, PushOK, Alone, PushOps
<1>2. CASE Save(t)
  <2>1. v \in Value /\ best' = v
    BY <1>0, <1>2 DEF Save, At, TypeOK, CallOK, Along
  <2>2. CASE v = best
    <3>1. told' = told /\ best' = best
      BY <1>2, <2>1, <2>2 DEF Save
    <3> QED
      BY <1>0, <1>1, <2>1, <3>1, PushFrame
  <2>3. CASE v # best
    <3>1. told' = [e \in Endpoint |-> [told[e] EXCEPT ![v] = 0]]
      BY <1>2, <2>3 DEF Save
    <3>2. told \in [Endpoint -> [Value -> Nat]]
      BY DEF TypeOK
    <3>3. \A e \in Endpoint, x \in Value : told'[e][x] = IF x = v THEN 0 ELSE told[e][x]
      BY <3>1, <3>2
    <3>4. NotYet(best)'
      BY <2>1, <3>3 DEF NotYet
    <3> QED
      BY <1>0, <1>1, <2>1, <3>3, <3>4, PushFrame
  <2> QED
    BY <2>2, <2>3
<1>3. CASE ~Save(t)
  <2>1. told' = told /\ best' = best /\ best \in Value
    BY <1>3 DEF ShareStep, Lookup, Load, Fill, Announce, Publish, bests, TypeOK
  <2> QED
    BY <1>0, <1>1, <2>1, PushFrame
<1> QED
  BY <1>2, <1>3

LEMMA ResetKeepsPushes ==
    ASSUME TypeOK, PushOK, NEW t \in Task, ResetStep(t)
    PROVE  PushOK'
<1>0. task[t].op = "reset" /\ told' = told /\ tracker \in Nat /\ tracker # None /\ best \in Value
  BY WhoSteps, NoCallIsNone DEF TypeOK
<1>1. \A s \in Task \ {t} : task'[s] = task[s] /\ task[s].op \notin PushOps
  BY <1>0, StepMoves, Others DEF Step, Moves, PushOK, Alone, PushOps
<1>2. task'[t].op \in {"reset", None}
  BY <1>0, StepMoves DEF Step, Moves
<1>a. End(t) => task'[t].op = None
  BY EndMoves DEF Idle
<1>b. \A pc : Go(t, pc) => task'[t].pc = pc
  BY GoIs, Others
<1>3. ASSUME Caught(best)', At(t, "reset", "tracker")' => best' = 0 PROVE PushOK'
  <2>1. Alone({"best"}, {"best"})' /\ Alone({"reset"}, {"share", "reset", "best"})'
    BY <1>1, <1>2, NoCallIsNone DEF Alone, PushOps, Op
  <2>2. \A s \in Task : PushUnderWay(task[s])'
    BY <1>1, <1>2, NoCallIsNone DEF PushUnderWay, PushOps, Op
  <2>3. \A s \in Task : At(s, "reset", "tracker")' => best' = 0
    BY <1>1, <1>3 DEF At, PushOps
  <2> QED
    BY <1>0, <1>3, <2>1, <2>2, <2>3 DEF PushOK
<1>4. CASE ResetService(t)
  <2>1. best' = best /\ tracker' = tracker /\ task'[t].pc # "tracker"
    BY <1>4, <1>b DEF ResetService
  <2> QED
    BY <1>0, <1>3, <2>1 DEF PushOK, Caught, NotYet, At
<1>5. CASE ResetSettings(t)
  <2>1. best' = 0 /\ tracker' = tracker
    BY <1>5 DEF ResetSettings
  <2>2. tracker >= 0
    BY ONLY <1>0
  <2> QED
    BY <1>3, <2>1, <2>2 DEF Caught
<1>6. CASE ResetTracker(t)
  <2>1. best' = 0 /\ tracker' = 0
    BY <1>0, <1>6 DEF ResetTracker, PushOK, At
  <2> QED
    BY <1>3, <2>1 DEF Caught
<1> QED
  BY <1>4, <1>5, <1>6 DEF ResetStep

\* A run reads, decides and moves the tracker on.
LEMMA RunKeepsPushes ==
    ASSUME TypeOK, PushOK, NEW t \in Task, BestStep(t)
    PROVE  PushOK'
<1> DEFINE r == task[t]
<1>0. /\ r.op = "best" /\ told' = told /\ best' = best /\ PushUnderWay(r)
      /\ best \in Value /\ tracker \in Value /\ Caught(best)
      /\ \A e \in Endpoint, v \in Value : told[e][v] <= 1
  BY WhoSteps DEF TypeOK, PushOK
<1>1. Moves(t)
  BY StepMoves DEF Step
<1>2. \A v : /\ NotYet(v)' <=> NotYet(v)
             /\ tracker' = tracker => (Caught(v)' <=> Caught(v))
  BY <1>0 DEF NotYet, Caught
<1>3. ASSUME Caught(best)', PushUnderWay(task[t])' PROVE PushOK'
  BY <1>0, <1>1, <1>3, RunFrame
<1>z. CallOK(r)
  BY DEF TypeOK
<1>4. ASSUME task'[t] = Idle PROVE PushUnderWay(task[t])'
  BY <1>4, NoCallIsNone DEF Idle, PushUnderWay, Op
<1>5. CASE ReadBest(t)
  <2>0. tracker' = tracker
    BY <1>5 DEF ReadBest, bests
  <2>1. CASE r.pc = "settings"
    <3> DEFINE s == [r EXCEPT !.v = best]
    <3>1. task'[t] = IF Synced(s) THEN [s EXCEPT !.pc = "upsert"] ELSE Idle
      BY <1>5, <2>1, Others DEF ReadBest, Decide
    <3>2. [s EXCEPT !.pc = "upsert"] = [op |-> r.op, pc |-> "upsert", v |-> best, seen |-> r.seen]
      BY <1>z, ReadIs
    <3> HIDE DEF s
    <3>3. CASE task'[t] = [op |-> r.op, pc |-> "upsert", v |-> best, seen |-> r.seen]
      <4>1. task'[t].pc = "upsert" /\ task'[t].v = best /\ task'[t].seen = r.seen
        BY ONLY <3>3
      <4>2. r.seen = tracker
        BY <1>0, <2>1 DEF PushUnderWay
      <4>3. PushUnderWay(task[t])'
        BY <1>0, <1>2, <2>0, <4>1, <4>2 DEF PushUnderWay
      <4> QED
        BY <1>0, <1>2, <1>3, <2>0, <4>3
    <3>4. CASE task'[t] = Idle
      BY <1>0, <1>2, <1>3, <1>4, <2>0, <3>4
    <3> QED
      BY <3>1, <3>2, <3>3, <3>4
  <2>2. CASE r.pc # "settings"
    <3>1. task' = [task EXCEPT ![t] = [op |-> r.op, pc |-> "tracker", v |-> best, seen |-> r.seen]]
      BY <1>5, <1>z, <2>2 DEF ReadBest, CallOK
    <3>2. task'[t] = [op |-> r.op, pc |-> "tracker", v |-> best, seen |-> r.seen]
      BY <3>1, Others
    <3>3. task'[t].pc = "tracker" /\ task'[t].v = best
      BY ONLY <3>2
    <3>4. PushUnderWay(task[t])'
      BY <1>0, <1>2, <2>0, <3>3 DEF PushUnderWay
    <3> QED
      BY <1>0, <1>2, <1>3, <2>0, <3>4
  <2> QED
    BY <2>1, <2>2
<1>6. CASE ReadTracker(t)
  <2>0. tracker' = tracker
    BY <1>6 DEF ReadTracker, bests
  <2>1. CASE r.pc = "tracker"
    <3> DEFINE s == [r EXCEPT !.seen = tracker]
    <3>1. task'[t] = IF Synced(s) THEN [s EXCEPT !.pc = "upsert"] ELSE Idle
      BY <1>6, <2>1, Others DEF ReadTracker, Decide
    <3>2. [s EXCEPT !.pc = "upsert"] = [op |-> r.op, pc |-> "upsert", v |-> r.v, seen |-> tracker]
      BY <1>z, ReadIs
    <3> HIDE DEF s
    <3>3. CASE task'[t] = [op |-> r.op, pc |-> "upsert", v |-> r.v, seen |-> tracker]
      <4>1. task'[t].pc = "upsert" /\ task'[t].v = r.v /\ task'[t].seen = tracker
        BY ONLY <3>3
      <4>2. Caught(r.v) /\ (best = r.v \/ NotYet(best))
        BY <1>0, <2>1 DEF PushUnderWay
      <4>3. PushUnderWay(task[t])'
        BY <1>0, <1>2, <2>0, <4>1, <4>2 DEF PushUnderWay
      <4> QED
        BY <1>0, <1>2, <1>3, <2>0, <4>3
    <3>4. CASE task'[t] = Idle
      BY <1>0, <1>2, <1>3, <1>4, <2>0, <3>4
    <3> QED
      BY <3>1, <3>2, <3>3, <3>4
  <2>2. CASE r.pc # "tracker"
    <3>1. task' = [task EXCEPT ![t] = [op |-> r.op, pc |-> "settings", v |-> r.v, seen |-> tracker]]
      BY <1>6, <1>z, <2>2 DEF ReadTracker, CallOK
    <3>2. task'[t] = [op |-> r.op, pc |-> "settings", v |-> r.v, seen |-> tracker]
      BY <3>1, Others
    <3>3. task'[t].pc = "settings" /\ task'[t].seen = tracker
      BY ONLY <3>2
    <3>4. PushUnderWay(task[t])'
      BY <2>0, <3>3 DEF PushUnderWay
    <3> QED
      BY <1>0, <1>2, <1>3, <2>0, <3>4
  <2> QED
    BY <2>1, <2>2
<1>7. CASE Upsert(t)
  <2>1. /\ r.v \in Nat /\ r.seen = tracker /\ tracker \in Nat /\ r.seen # None
        /\ Caught(r.v) /\ (best = r.v \/ NotYet(best)) /\ tracker' = r.v
    BY <1>0, <1>7, PushValues, NoCallIsNone DEF Upsert, At, PushUnderWay
  <2>2. Caught(best)'
    <3>1. r.v >= r.v
      BY ONLY <2>1
    <3> QED
      BY <1>0, <1>2, <2>1, <3>1 DEF Caught
  <2>3. CASE r.v > r.seen
    <3>1. Go(t, "present")
      BY <1>7, <2>1, <2>3 DEF Upsert
    <3>2. task'[t].pc = "present" /\ task'[t].v = r.v
      BY <3>1, GoIs, Others
    <3>3. ~(tracker >= r.v)
      BY ONLY <2>1, <2>3
    <3>4. NotYet(r.v)
      BY <2>1, <3>3 DEF Caught
    <3>5. PushUnderWay(task[t])'
      BY <1>0, <1>2, <2>1, <3>2, <3>4 DEF PushUnderWay
    <3> QED
      BY <1>3, <2>2, <3>5
  <2>4. CASE ~(r.v > r.seen)
    <3>1. task'[t] = Idle
      BY <1>7, <2>4, EndMoves DEF Upsert
    <3> QED
      BY <1>3, <1>4, <2>2, <3>1
  <2> QED
    BY <2>3, <2>4
<1> QED
  BY <1>5, <1>6, <1>7 DEF BestStep

LEMMA SentOnce ==
    ASSUME NEW t \in Task, task[t].op = "best", task[t].v \in Value, NEW e \in Endpoint,
           told \in [Endpoint -> [Value -> Nat]], told[e][task[t].v] = 0,
           told' = Sent(e, task[t])
    PROVE  \A f \in Endpoint, x \in Value :
             \/ told'[f][x] = told[f][x]
             \/ f = e /\ x = task[t].v /\ told'[f][x] = 1
<1> DEFINE v == task[t].v
<1>1. told' = told \/ told' = [told EXCEPT ![e][v] = @ + 1]
  BY DEF Sent
<1> HIDE DEF v
<1>2. CASE told' = told
  BY <1>2
<1>3. CASE told' = [told EXCEPT ![e][v] = @ + 1]
  BY <1>3 DEF v
<1> QED
  BY <1>1, <1>2, <1>3

\* A run that sends a deletion on its way has sent everything.
LEMMA PushEnds ==
    ASSUME TypeOK, NEW t \in Task, PushStep(t), task[t].op = "best"
    PROVE  task'[t].op = None \/ task'[t].pc \in {"count", "mark"}
<1>1. Done(t) => task'[t].op = None
  BY EndMoves DEF Done, Idle
<1>2. \A pc : Go(t, pc) => task'[t].pc = pc
  BY GoIs, Others
<1>3. CASE Count(t)
  <2> DEFINE n == Cardinality({e \in Endpoint : row[e] # None})
  <2>1. task' = [task EXCEPT ![t].pc = "mark", ![t].seen = n]
    BY <1>3 DEF Count
  <2> HIDE DEF n
  <2>2. task'[t].pc = "mark"
    BY <2>1 DEF TypeOK, CallOK
  <2> QED
    BY <2>2
<1>4. CASE Delete(t)
  BY <1>1, <1>2, <1>4 DEF Delete
<1>5. CASE Mark(t)
  BY <1>1, <1>5 DEF Mark
<1>6. ~(Find(t) \/ Store(t) \/ Enter(t) \/ DeleteAll(t) \/ Drop(t))
  BY NoCallIsNone DEF Find, Store, Enter, DeleteAll, Drop, At, TypeOK, CallOK, Along, SendPc, Op
<1> QED
  BY <1>3, <1>4, <1>5, <1>6 DEF PushStep

\* A run sends: what it sends is at the tracker and was not sent to that endpoint.
LEMMA SendKeepsPushes ==
    ASSUME TypeOK, PushOK, NEW t \in Task, task[t].op = "best", SendStep(t)
    PROVE  PushOK'
<1> DEFINE v == task[t].v
<1>0. /\ best' = best /\ tracker' = tracker /\ PushUnderWay(task[t]) /\ Caught(best)
      /\ best \in Value /\ v \in Value /\ tracker \in Nat /\ told \in [Endpoint -> [Value -> Nat]]
      /\ \A e \in Endpoint, x \in Value : told[e][x] <= 1
      /\ task[t].pc \in {"present", "up", "fcm"}
  BY WhoSteps, PushValues, NoCallIsNone DEF bests, PushOK, TypeOK
<1>1. /\ tracker = v /\ (best = v \/ NotYet(best)) /\ told["fcm"][v] = 0
      /\ task[t].pc # "fcm" => NotYet(v)
  BY <1>0 DEF PushUnderWay, NotYet, Endpoint
<1>2. Moves(t)
  BY StepMoves DEF Step
<1>a. End(t) => task'[t].op = None
  BY EndMoves DEF Idle
<1>b. \A pc : Go(t, pc) => task'[t].pc = pc /\ task'[t].v = v
  BY GoIs, Others
<1>3. ASSUME NEW e \in Endpoint, told' = Sent(e, task[t]), told[e][v] = 0
      PROVE  /\ \A f \in Endpoint, x \in Value : told'[f][x] <= 1
             /\ \A x \in Value \ {v} : NotYet(x) => NotYet(x)'
             /\ \A f \in Endpoint \ {e} : told'[f][v] = told[f][v]
  <2>1. \A f \in Endpoint, x \in Value :
          told'[f][x] = told[f][x] \/ (f = e /\ x = v /\ told'[f][x] = 1)
    BY <1>0, <1>3, SentOnce
  <2> QED
    BY <1>0, <2>1 DEF NotYet
<1>4. ASSUME NEW e \in Endpoint, told' = Sent(e, task[t]), told[e][v] = 0
      PROVE  Caught(best)' /\ (best = v \/ NotYet(best)')
  <2>1. v >= v
    BY ONLY <1>0, <1>1
  <2> QED
    BY <1>0, <1>1, <1>3, <1>4, <2>1 DEF Caught
<1>5. CASE Present(t)
  <2>1. /\ told' = told /\ task[t].pc = "present"
        /\ task'[t].op = None \/ (task'[t].pc = "up" /\ task'[t].v = v)
    BY <1>5, <1>a, <1>b DEF Present
  <2>3. PushUnderWay(task[t])'
    BY <1>0, <1>1, <2>1, NoCallIsNone DEF PushUnderWay, NotYet, Op
  <2> QED
    BY <1>0, <1>2, <2>1, <2>3, RunFrame DEF Caught, NotYet
<1>6. CASE SendUp(t)
  <2>1. /\ told' = Sent("up", task[t]) /\ "up" \in Endpoint /\ "fcm" \in Endpoint \ {"up"}
        /\ task'[t].pc = "fcm" /\ task'[t].v = v /\ told["up"][v] = 0
    BY <1>0, <1>1, <1>6, <1>b DEF SendUp, Endpoint, NotYet
  <2>2. /\ \A f \in Endpoint, x \in Value : told'[f][x] <= 1
        /\ told'["fcm"][v] = 0
    BY <1>1, <1>3, <2>1
  <2>3. Caught(best)' /\ (best = v \/ NotYet(best)')
    BY <1>4, <2>1
  <2>4. PushUnderWay(task[t])'
    BY <1>0, <1>1, <2>1, <2>2, <2>3 DEF PushUnderWay
  <2> QED
    BY <1>2, <2>2, <2>3, <2>4, RunFrame
<1>7. CASE SendFcm(t)
  <2>1. /\ "fcm" \in Endpoint
        /\ task'[t].op = None \/ task'[t].pc = "delete"
        /\ told' = Sent("fcm", task[t]) \/ told' = told
    BY <1>7, <1>a, <1>b DEF SendFcm, Done, Endpoint
  <2>2. PushUnderWay(task[t])'
    BY <2>1, NoCallIsNone DEF PushUnderWay, Op
  <2>3. (\A f \in Endpoint, x \in Value : told'[f][x] <= 1) /\ Caught(best)'
    BY <1>0, <1>1, <1>3, <1>4, <2>1 DEF Caught, NotYet
  <2> QED
    BY <1>2, <2>2, <2>3, RunFrame
<1> QED
  BY <1>5, <1>6, <1>7 DEF SendStep

LEMMA PushMoves == TypeOK /\ PushPart /\ [Next]_vars => PushPart'
<1> SUFFICES ASSUME TypeOK, PushPart, [Next]_vars, "push" \notin races' PROVE PushPart'
  BY DEF PushPart
<1> USE NoCallIsNone DEF Op
<1>0. PushOK /\ best \in Value
  BY RacesStay DEF PushPart, PushOK, TypeOK
<1> SUFFICES PushOK'
  BY DEF PushPart, PushOK
<1>1. ASSUME NEW t \in Task, Call(t) \/ Tick(t) PROVE PushOK'
  <2> PICK op, pc, v : Begins(t, op, pc, v)
    BY <1>1, CallBegins
  <2>1. /\ task'[t].op = op /\ task'[t].pc = pc /\ task[t].op = None
        /\ \A s \in Task \ {t} : task'[s] = task[s]
    <3>1. /\ task'[t].op = op /\ task'[t].pc = pc /\ task'[t].v = v /\ task'[t].seen = None
          /\ task[t].op = None /\ task[t].pc = None
          /\ \A s \in Task \ {t} : task'[s] = task[s]
      BY BeginsMoves, Zenon
    <3> QED
      BY <3>1
  <2>2. /\ UNCHANGED <<best, tracker, told>> /\ Clash(op) \subseteq races'
        /\ <<op, pc>> \in First
    BY DEF Begins, bests
  <2>3. CASE op \notin PushOps
    BY <1>0, <2>1, <2>2, <2>3, PushFrame DEF PushOps, At
  <2>4. CASE op \in PushOps
    <3>1. /\ op = "best"  => \A s \in Task : task[s].op \notin {"best", "reset"}
          /\ op = "reset" => \A s \in Task : task[s].op \notin PushOps
          /\ op = "share" => \A s \in Task : task[s].op # "reset"
      BY <2>2 DEF Clash, InFlight, PushOps
    <3>2. Alone({"best"}, {"best"})' /\ Alone({"reset"}, {"share", "reset", "best"})'
      BY <1>0, <2>1, <2>4, <3>1 DEF PushOK, Alone, PushOps
    <3>3. op = "best" => pc = "read"
      BY <2>2 DEF First
    <3>4. op = "reset" => pc = "v1"
      BY <2>2 DEF First
    <3>5. \A s \in Task \ {t} : PushUnderWay(task[s])'
      <4>1. \A x : (Caught(x) <=> Caught(x)') /\ (NotYet(x) <=> NotYet(x)')
        BY <2>2 DEF Caught, NotYet
      <4>2. ASSUME NEW s \in Task \ {t} PROVE PushUnderWay(task[s])'
        <5>1. task'[s] = task[s] /\ PushUnderWay(task[s])
          BY <1>0, <2>1 DEF PushOK
        <5> QED
          BY <2>2, <4>1, <5>1 DEF PushUnderWay
      <4> QED
        BY <4>2
    <3>6. PushUnderWay(task[t])'
      BY <2>1, <3>3 DEF PushUnderWay
    <3>7. \A s \in Task : At(s, "reset", "tracker")' => best' = 0
      BY <1>0, <2>1, <2>2, <3>4 DEF PushOK, At
    <3>8. Caught(best)' /\ \A e \in Endpoint, x \in Value : told'[e][x] <= 1
      BY <1>0, <2>2 DEF PushOK, Caught, NotYet
    <3> QED
      BY <3>2, <3>5, <3>6, <3>7, <3>8 DEF PushOK
  <2> QED
    BY <2>3, <2>4
<1>2. ASSUME NEW t \in Task, Step(t) PROVE PushOK'
  <2>1. CASE ShareStep(t)
    BY <1>0, <2>1, ShareKeepsPushes
  <2>2. CASE ResetStep(t)
    BY <1>0, <2>2, ResetKeepsPushes
  <2>3. CASE BestStep(t)
    BY <1>0, <2>3, RunKeepsPushes
  <2>4. CASE SendStep(t) /\ task[t].op = "best"
    BY <1>0, <2>4, SendKeepsPushes
  <2>5. ASSUME UNCHANGED <<best, tracker, told>>,
               \/ task[t].op \notin PushOps \/ task'[t].op = None
               \/ task'[t].pc \in {"count", "mark"},
               task[t].op \notin {"share", "reset"}
        PROVE  PushOK'
    <3>1. Moves(t) /\ \A s \in Task \ {t} : task'[s] = task[s]
      BY <1>2, StepMoves, Others DEF Moves
    <3>2. CASE task[t].op = "best"
      <4>1. PushUnderWay(task[t])'
        BY <2>5, <3>2 DEF PushUnderWay, PushOps
      <4>2. Caught(best)' /\ \A e \in Endpoint, x \in Value : told'[e][x] <= 1
        BY <1>0, <2>5 DEF PushOK, Caught, NotYet
      <4> QED
        BY <1>0, <3>1, <3>2, <4>1, <4>2, RunFrame
    <3>3. CASE task[t].op # "best"
      <4>1. task'[t].op \notin PushOps
        BY <2>5, <3>1, <3>3 DEF Moves, PushOps
      <4> QED
        BY <1>0, <2>5, <3>1, <4>1, PushFrame DEF PushOps, At
    <3> QED
      BY <3>2, <3>3
  <2>6. CASE SendStep(t) /\ task[t].op # "best"
    <3>1. told' = told
      BY <2>6 DEF SendStep, Present, SendUp, SendFcm, Sent
    <3>2. UNCHANGED <<best, tracker>> /\ task[t].op \in Sending
      BY <2>6, WhoSteps DEF bests
    <3> QED
      BY <2>5, <2>6, <3>1, <3>2 DEF PushOps, Sending
  <2>7. CASE NetStep(t) \/ ChatStep(t)
    <3>1. UNCHANGED <<best, tracker, told>> /\ task[t].op \in {"network", "subscribe", "remove"}
      BY <2>7, WhoSteps DEF bests
    <3> QED
      BY <2>5, <3>1 DEF PushOps
  <2>8. CASE PushStep(t)
    <3>1. /\ UNCHANGED <<best, tracker, told>>
          /\ task[t].op \in {"register", "unregister"} \cup Sending
      BY <2>8, WhoSteps DEF bests
    <3>2. task[t].op = "best" => task'[t].op = None \/ task'[t].pc \in {"count", "mark"}
      BY <2>8, PushEnds
    <3> QED
      BY <2>5, <3>1, <3>2 DEF PushOps, Sending
  <2> QED
    BY <1>2, <2>1, <2>2, <2>3, <2>4, <2>6, <2>7, <2>8 DEF Step
<1>3. ASSUME NEW t \in Task, Fail(t) PROVE PushOK'
  <2>1. /\ UNCHANGED <<best, tracker, told>> /\ Halves(t) \subseteq races'
        /\ \A s \in Task \ {t} : task'[s] = task[s]
    BY <1>3, FailMoves, Others DEF Moves, bests
  <2>2. task'[t].op \in {None, "network"}
    <3>1. task'[t] = Idle \/ task'[t].op = "network"
      BY <1>3, FailMoves
    <3> QED
      BY ONLY <3>1 DEF Idle
  <2> QED
    BY <1>0, <2>1, <2>2, PushFrame DEF PushOps, At
<1>4. CASE Restart
  <2>1. UNCHANGED <<best, tracker, told>> /\ \A t \in Task : task'[t].op = None
    BY <1>4 DEF Restart, Idle, bests
  <2> QED
    BY <1>0, <2>1, PushFrame DEF PushOps, At
<1>5. CASE Expire \/ (\E n \in Value : Change(n)) \/ (\E e \in Endpoint : Configure(e))
  <2>1. UNCHANGED <<best, tracker, told, task>>
    BY <1>5 DEF Expire, Change, Configure, bests
  <2> QED
    BY <1>0, <2>1, PushFrame DEF At
<1>6. CASE UNCHANGED vars
  BY <1>0, <1>6, PushFrame DEF vars, bests, At
<1> QED
  BY <1>1, <1>2, <1>3, <1>4, <1>5, <1>6 DEF Next, Task

-------------------------------------------------------------------------------
(* The promises. *)

LEMMA NoticesStart == Init => NoticesInv
<1> SUFFICES ASSUME Init PROVE NoticesInv
  OBVIOUS
<1>0. /\ task = [t \in Task |-> Idle] /\ Idle.op = None /\ Idle.pc = None /\ CallOK(Idle)
      /\ \A t \in Task : task[t] = Idle
  BY NoCallIsNone DEF Init, Idle, CallOK, Along, Op, SendPc
<1>1. TypeOK
  <2>1. row \in [Endpoint -> Wanted] /\ present \in BOOLEAN
    BY DEF Init, Wanted, Kind, HasRows
  <2>2. chat \subseteq [addr : Addr, dflt : BOOLEAN]
    BY DEF Init, Addr
  <2>3. told \in [Endpoint -> [Value -> Nat]]
    BY DEF Init
  <2> QED
    BY <1>0, <2>1, <2>2, <2>3, NoCallIsNone DEF Init, TypeOK
<1>2. BestPart
  BY <1>0, NoCallIsNone DEF Init, BestPart, BestSettled, BestUnderWay, Alone, Op
<1>3. RowPart
  <2>1. \A t \in Task : ~Emptying(task[t])
    BY <1>0, NoCallIsNone DEF Emptying, SendPc
  <2>2. HasRows => present
    BY DEF Init
  <2> QED
    BY <2>1, <2>2 DEF RowPart, PresenceCoversRows
<1>4. ChatPart
  <2> DEFINE x == [addr |-> "a", dflt |-> FALSE]
             y == [addr |-> "b", dflt |-> TRUE]
  <2>0. chat = {x, y} /\ x.addr # y.addr /\ ~x.dflt /\ y.dflt
    BY DEF Init
  <2> HIDE DEF x, y
  <2>1. ~NoDefault
    BY <2>0 DEF NoDefault
  <2>2. OneEach /\ AtMostOne
    BY <2>0 DEF OneEach, AtMostOne
  <2>3. \A t \in Task : task[t].op = None /\ ChatUnderWay(task[t]) /\ ~At(t, "remove", "promote")
    BY <1>0, NoCallIsNone DEF ChatUnderWay, At, Op
  <2> QED
    BY <2>1, <2>2, <2>3, NoCallIsNone DEF ChatPart, Named, Alone, Op
<1>5. PushPart
  <2>1. \A e \in Endpoint, v \in Value : told[e][v] = 0
    BY DEF Init
  <2>2. \A t \in Task : task[t].op = None /\ PushUnderWay(task[t]) /\ ~At(t, "reset", "tracker")
    BY <1>0, NoCallIsNone DEF PushUnderWay, At, Op
  <2>3. best \in Value
    BY <1>1 DEF TypeOK
  <2> QED
    <3>1. Caught(best) /\ \A e \in Endpoint, v \in Value : told[e][v] <= 1
      BY <2>1, <2>3 DEF Caught, NotYet
    <3>2. Alone({"best"}, {"best"}) /\ Alone({"reset"}, {"share", "reset", "best"})
      BY <2>2, NoCallIsNone DEF Alone, Op
    <3> QED
      BY <2>2, <3>1, <3>2 DEF PushPart
<1> QED
  BY <1>1, <1>2, <1>3, <1>4, <1>5 DEF NoticesInv

LEMMA NoticesMove == NoticesInv /\ [Next]_vars => NoticesInv'
BY NextTypes, BestMoves, RowMoves, ChatMoves, PushMoves DEF NoticesInv

LEMMA NoticesHold == NoticesInv => NotificationsHold
<1> SUFFICES ASSUME NoticesInv PROVE NotificationsHold
  OBVIOUS
<1>1. BestIsKept
  BY DEF NoticesInv, BestPart, BestIsKept, BestSettled
<1>2. PresenceCoversRows
  BY DEF NoticesInv, RowPart
<1>3. OneDefault
  <2> SUFFICES ASSUME "chat" \notin races, Quiet({"subscribe", "remove"}), chat # {}
               PROVE  /\ \E r \in chat : r.dflt
                      /\ "remove" \notin races => AtMostOne
    BY DEF OneDefault, AtMostOne
  <2>1. \A t \in Task : ~Names(task[t])
    BY DEF Quiet, InFlight, Names
  <2> QED
    BY <2>1 DEF NoticesInv, ChatPart, Named, NoDefault
<1>4. PushedOnce
  BY DEF NoticesInv, PushPart, PushedOnce
<1> QED
  BY <1>1, <1>2, <1>3, <1>4 DEF NotificationsHold, SubscriptionsSound

\* However many calls compete, fail or are cut off by a restart: the best difficulty and
\* its copy agree with the highest one judged, no subscription is skipped, a chat keeps
\* its default, and a rise is pushed once, except after the races the parts name.
THEOREM NotificationsAlwaysHold == MCSpec => []NotificationsHold
<1>1. MCInit => NoticesInv
  BY NoticesStart DEF MCInit
<1>2. NoticesInv /\ [MCNext]_<<vars, monitor>> => NoticesInv'
  BY NoticesMove DEF MCNext
<1> QED
  BY <1>1, <1>2, NoticesHold, PTL DEF MCSpec

\* After every check the operator's last mail about a bucket fits what was found, through
\* failing mails, a Redis that is off, torn writes and restarts, for any load.
THEOREM CapacityIsAlwaysTold == MCSpec => []CapacityIsTold
<1>1. MCInit => MonitorInv
  BY MonitorStarts DEF MCInit
<1>2. MonitorInv /\ [MCNext]_<<vars, monitor>> => MonitorInv'
  BY MonitorMoves DEF MCNext
<1>3. MonitorInv => CapacityIsTold
  BY DEF MonitorInv
<1> QED
  BY <1>1, <1>2, <1>3, PTL DEF MCSpec

-------------------------------------------------------------------------------
(* The network difficulty. *)

\* A run that is about to move the network tracker has sent what it moves it to.
Sure(t)   == At(t, "network", "shift") => task[t].v \in netTold
AllSent   == \A t \in Task : Sure(t)
NotShift(t) == task[t].op # "network" \/ task[t].pc # "shift"

LEMMA DoneSends ==
    ASSUME TypeOK, NEW t \in Task, Done(t)
    PROVE  netTold \subseteq netTold' /\ Sure(t)'
<1>1. CASE task[t].op = "network"
  <2>1. Go(t, "shift") /\ netTold' = netTold \cup {task[t].v}
    BY <1>1 DEF Done
  <2>2. task'[t].v = task[t].v
    BY <2>1, GoIs, Others
  <2> QED
    BY <2>1, <2>2 DEF Sure
<1>2. CASE task[t].op # "network"
  <2>1. End(t) /\ netTold' = netTold
    BY <1>2 DEF Done
  <2>2. task'[t].op = None
    BY <2>1, EndMoves DEF Idle
  <2> QED
    BY <2>1, <2>2, NoCallIsNone DEF Sure, At, Op
<1> QED
  BY <1>1, <1>2

LEMMA StepSends ==
    ASSUME TypeOK, NEW t \in Task, Step(t)
    PROVE  netTold \subseteq netTold' /\ Sure(t)'
<1> DEFINE r == task[t]
<1>n. None # "network"
  BY NoCallIsNone DEF Op
<1>0. task'[t].op \in {r.op, None}
  BY StepMoves DEF Moves
<1>s. NotShift(t)' => Sure(t)'
  BY Zenon DEF Sure, At, NotShift
<1>a. End(t) => Sure(t)'
  <2>1. End(t) => task'[t].op = None
    BY EndMoves DEF Idle
  <2>2. End(t) => NotShift(t)'
    BY <1>n, <2>1 DEF NotShift
  <2> QED
    BY <1>s, <2>2
<1>b. ASSUME NEW pc, Go(t, pc), pc # "shift" PROVE Sure(t)'
  <2>1. NotShift(t)'
    BY <1>b, GoIs, Others DEF NotShift
  <2> QED
    BY <1>s, <2>1
<1>c. r.op # "network" => Sure(t)'
  <2>1. r.op # "network" => NotShift(t)'
    BY <1>0, <1>n DEF NotShift
  <2> QED
    BY <1>s, <2>1
<1>1. CASE ShareStep(t) \/ ResetStep(t) \/ BestStep(t) \/ ChatStep(t)
  <2>1. r.op # "network"
    BY <1>1, WhoSteps
  <2>2. netTold' = netTold
    BY <1>1 DEF ShareStep, Lookup, Load, Fill, Announce, Save, Publish, ResetStep, ResetService,
       ResetSettings, ResetTracker, BestStep, ReadBest, ReadTracker, Upsert, ChatStep,
       ClearDefaults, FindChat, MakeDefault, InsertChat, RemoveRows, ReadLeft, Promote, nets
  <2> QED
    BY <1>c, <2>1, <2>2
<1>2. CASE SendStep(t)
  BY <1>2, <1>a, <1>b, DoneSends DEF SendStep, Present, SendUp, SendFcm, nets
<1>3. CASE NetStep(t)
  BY <1>3, <1>a, <1>b DEF NetStep, ReadNetwork, InitNetwork, ShiftNetwork, nets
<1>4. CASE Find(t) \/ Store(t) \/ Enter(t) \/ DeleteAll(t) \/ Drop(t)
  <2>1. r.op # "network"
    BY <1>4, NoCallIsNone DEF Find, Store, Enter, DeleteAll, Drop, At, TypeOK, CallOK, Along, Op
  <2>2. netTold' = netTold
    BY <1>4 DEF Find, Store, Enter, DeleteAll, Drop, nets
  <2> QED
    BY <1>c, <2>1, <2>2
<1>5. CASE Count(t)
  <2> DEFINE n == Cardinality({e \in Endpoint : row[e] # None})
  <2>1. task' = [task EXCEPT ![t].pc = "mark", ![t].seen = n] /\ netTold' = netTold
    BY <1>5 DEF Count, nets
  <2> HIDE DEF n
  <2>2. task'[t].pc = "mark"
    BY <2>1 DEF TypeOK, CallOK
  <2> QED
    <3>1. NotShift(t)'
      BY <2>2 DEF NotShift
    <3> QED
      BY <1>s, <2>1, <3>1
<1>6. CASE Delete(t) \/ Mark(t)
  BY <1>6, <1>b, DoneSends DEF Delete, Mark
<1> QED
  BY <1>1, <1>2, <1>3, <1>4, <1>5, <1>6 DEF Step, PushStep

LEMMA SentMoves == TypeOK /\ AllSent /\ [Next]_vars => AllSent'
<1> SUFFICES ASSUME TypeOK, AllSent, [Next]_vars PROVE AllSent'
  OBVIOUS
<1>n. None # "network"
  BY NoCallIsNone DEF Op
<1>0. ASSUME NEW t \in Task, netTold \subseteq netTold', Sure(t)',
             \A s \in Task \ {t} : task'[s] = task[s]
      PROVE  AllSent'
  BY <1>0 DEF AllSent, Sure, At
<1>1. ASSUME NEW t \in Task, Call(t) \/ Tick(t) PROVE AllSent'
  <2> PICK op, pc, v : Begins(t, op, pc, v)
    BY <1>1, CallBegins
  <2>1. Sure(t)' /\ \A s \in Task \ {t} : task'[s] = task[s]
    <3>2. task'[t].op = op /\ task'[t].pc = pc
      BY BeginsMoves
    <3>3. <<op, pc>> \in First
      BY DEF Begins
    <3>0. <<op, pc>> \in First /\ task'[t].op = op /\ task'[t].pc = pc
      BY <3>2, <3>3
    <3>1. NotShift(t)' /\ \A s \in Task \ {t} : task'[s] = task[s]
      BY <3>0, BeginsMoves DEF First, NotShift
    <3> QED
      BY <3>1, Zenon DEF Sure, At, NotShift
  <2>2. netTold' = netTold
    BY <1>1 DEF Call, Tick, Share, Reset, TickAgain, DeviceChanged, BlockFound, CheckNetwork,
       Register, Unregister, UnregisterAll, Subscribe, Remove, nets
  <2> QED
    BY <1>0, <2>1, <2>2
<1>2. ASSUME NEW t \in Task, Step(t) PROVE AllSent'
  BY <1>0, <1>2, StepSends, StepMoves, Others DEF Moves
<1>3. ASSUME NEW t \in Task, Fail(t) PROVE AllSent'
  <2>1. netTold \subseteq netTold' /\ Sure(t)'
    <3>1. CASE Done(t)
      BY <3>1, DoneSends
    <3>2. CASE End(t) /\ netTold' = netTold
      <4>0. task'[t].op = None
        BY <3>2, EndMoves DEF Idle
      <4>1. NotShift(t)'
        BY <1>n, <4>0 DEF NotShift
      <4> QED
        BY <3>2, <4>1, Zenon DEF Sure, At, NotShift
    <3> QED
      BY <1>3, <3>1, <3>2 DEF Fail
  <2> QED
    BY <1>0, <1>3, <2>1, FailMoves, Others DEF Moves
<1>4. CASE Restart
  <2>1. \A t \in Task : task'[t].op = None
    BY <1>4 DEF Restart, Idle
  <2>2. \A t \in Task : NotShift(t)'
    BY <1>n, <2>1 DEF NotShift
  <2> QED
    BY <2>2, Zenon DEF AllSent, Sure, At, NotShift
<1>5. CASE Expire \/ (\E n \in Value : Change(n)) \/ (\E e \in Endpoint : Configure(e))
  BY <1>5 DEF Expire, Change, Configure, AllSent, Sure, At, nets
<1>6. CASE UNCHANGED vars
  BY <1>6 DEF vars, nets, AllSent, Sure, At
<1> QED
  BY <1>1, <1>2, <1>3, <1>4, <1>5, <1>6 DEF Next, Task

\* The first value is set up in silence; after that the tracker moves on only from "shift".
LEMMA ShiftIsSent ==
    TypeOK /\ AllSent /\ [Next]_vars =>
        (netTracker' # netTracker /\ netTracker # None => netTracker' \in netTold)
<1> SUFFICES ASSUME TypeOK, AllSent, [Next]_vars, netTracker' # netTracker, netTracker # None
             PROVE  netTracker' \in netTold
  OBVIOUS
<1>1. ASSUME NEW t \in Task, Call(t) \/ Tick(t) PROVE FALSE
  BY <1>1 DEF Call, Tick, Share, Reset, TickAgain, DeviceChanged, BlockFound, CheckNetwork,
     Register, Unregister, UnregisterAll, Subscribe, Remove, nets
<1>2. ASSUME NEW t \in Task, Step(t) PROVE netTracker' \in netTold
  <2>1. ASSUME ~NetStep(t) PROVE FALSE
    BY <1>2, <2>1 DEF Step, ShareStep, Lookup, Load, Fill, Announce, Save, Publish, ResetStep,
       ResetService, ResetSettings, ResetTracker, BestStep, ReadBest, ReadTracker, Upsert,
       SendStep, Present, SendUp, SendFcm, PushStep, Find, Store, Enter, Delete, Count, Mark,
       DeleteAll, Drop, ChatStep, ClearDefaults, FindChat, MakeDefault, InsertChat, RemoveRows,
       ReadLeft, Promote, nets
  <2>2. CASE NetStep(t)
    BY <2>2 DEF NetStep, ReadNetwork, InitNetwork, ShiftNetwork, AllSent, Sure, nets
  <2> QED
    BY <2>1, <2>2
<1>3. ASSUME NEW t \in Task, Fail(t) PROVE FALSE
  BY <1>3 DEF Fail
<1>4. ~(Restart \/ Expire \/ (\E n \in Value : Change(n)) \/ (\E e \in Endpoint : Configure(e)))
  BY DEF Restart, Expire, Change, Configure, nets
<1>5. ~UNCHANGED vars
  BY DEF vars, nets
<1> QED
  BY <1>1, <1>2, <1>3, <1>4, <1>5 DEF Next, Task

\* A change of the network's difficulty is recorded as told only once every subscription
\* was sent a notification of it, delivered or not, however the runs overlap, fail or are
\* cut off: the safety half of ChangesAreTold, whose other half is a liveness property.
THEOREM NetworkChangeIsAlwaysTold == MCSpec => NetworkChangeIsTold
<1>1. MCInit => TypeOK /\ AllSent
  <2>1. MCInit => TypeOK
    BY NoticesStart DEF MCInit, NoticesInv
  <2>2. Init => \A t \in Task : NotShift(t)
    <3>1. Init => \A t \in Task : task[t].op = None
      BY DEF Init, Idle
    <3>2. None # "network"
      BY NoCallIsNone DEF Op
    <3> QED
      BY <3>1, <3>2 DEF NotShift
  <2>3. MCInit => AllSent
    BY <2>2, Zenon DEF MCInit, AllSent, Sure, At, NotShift
  <2> QED
    BY <2>1, <2>3
<1>2. TypeOK /\ AllSent /\ [MCNext]_<<vars, monitor>> => TypeOK' /\ AllSent'
  BY NextTypes, SentMoves DEF MCNext
<1>3. TypeOK /\ AllSent /\ [MCNext]_<<vars, monitor>> =>
        [netTracker' # netTracker /\ netTracker # None => netTracker' \in netTold]_vars
  BY ShiftIsSent DEF MCNext
<1> QED
  BY <1>1, <1>2, <1>3, PTL DEF MCSpec, NetworkChangeIsTold
===============================================================================
