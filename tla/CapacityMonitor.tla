---------------------------- MODULE CapacityMonitor ----------------------------
(***************************************************************************)
(* CoinbaseCapacityMonitorService: the hourly check that compares how many *)
(* outputs a payout bucket needs with how many its coinbase can hold and   *)
(* mails the operator.  Every Redis and SMTP round trip is a step.         *)
(***************************************************************************)
EXTENDS Integers, FiniteSets

CONSTANTS
    Groups,         \* payout groups; "pplns" is a bucket of its own
    Loads,          \* bound: utilisations of a bucket, in percent
    Hours,          \* bound: hourly checks of a behaviour
    Reminder,       \* DAILY_REMINDER_MS, in hours
    Settings,       \* bound: the environments, thresholds in percent
    Cases,          \* bound: the changes and faults of a behaviour
    None            \* no value

LoadAssumption ==
    /\ Loads \subseteq Nat /\ Reminder \in Nat \ {0} /\ {"pplns", "groups"} \cap Groups = {}
    /\ None \notin Groups \cup {"pplns", "below", "warning", "urgent", "recovery",
                              "read", "send", "write"}

VARIABLES
    config,         \* what onModuleInit made of the environment
    load, active,   \* utilisation of each bucket; groups that are active
    state,          \* Redis: the alert state of each bucket, with its age
    check,          \* the check under way
    left,           \* buckets the check has still to look at, or "groups" to list
    todo,           \* what is left of the case
    last,           \* ghost: the last mail about each bucket, with its age
    seen,           \* ghost: the level the last check found
    torn,           \* ghost: buckets whose last mail is not in Redis
    failed          \* ghost: buckets whose last check met an error

vars == <<config, load, active, state, check, left, todo, last, seen, torn, failed>>

Bucket == {"pplns"} \cup Groups
Take(c) == c \in todo /\ todo' = todo \ {c}
Fresh  == [level |-> "below", age |-> Reminder]
NoCheck == [b |-> None, pc |-> None, level |-> None, send |-> None]

\* clamp, and the thresholds it leaves; None is a setting that does not parse.
Clamp(v, lo, hi, fallback) ==
    CASE v = None -> fallback
      [] v # None /\ v < lo -> lo
      [] v # None /\ v > hi -> hi
      [] OTHER -> v

Configured(e) ==
    LET warning == Clamp(e.warning, 1, 99, 80)
    IN  [warning |-> warning, urgent |-> Clamp(e.urgent, warning + 1, 150, 95),
         enabled |-> e.mail /\ e.alerts, redis |-> e.mail /\ e.alerts /\ e.redis]

LevelFor(percent) ==
    CASE percent >= config.urgent -> "urgent"
      [] percent < config.urgent /\ percent >= config.warning -> "warning"
      [] OTHER -> "below"

\* decide
Decide_Faulty(prev, level) ==       \* a change to a lower level is always a recovery
    CASE prev.level = level -> IF level # "below" /\ prev.age >= Reminder THEN level ELSE None
      [] prev.level # level /\ level = "urgent" -> "urgent"
      [] prev.level = "below" /\ level = "warning" -> "warning"
      [] OTHER -> "recovery"
Decide(prev, level) ==
    CASE prev.level = level -> IF level # "below" /\ prev.age >= Reminder THEN level ELSE None
      [] prev.level # level /\ level = "below"  -> "recovery"
      [] prev.level # level /\ level = "urgent" -> "urgent"
      [] OTHER -> IF prev.level = "urgent" THEN None ELSE "warning"

Init ==
    /\ \E e \in Settings : config = Configured(e)
    /\ todo \in Cases
    /\ load = [b \in Bucket |-> 0] /\ active = {}
    /\ state = [b \in Bucket |-> Fresh]
    /\ check = NoCheck /\ left = {}
    /\ last = [b \in Bucket |-> [level |-> None, age |-> Reminder]]
    /\ seen = [b \in Bucket |-> None]
    /\ torn = {} /\ failed = {}

-------------------------------------------------------------------------------
\* Miners come and go.
LoadChanges ==
    /\ \E b \in Bucket, p \in Loads : Take(<<"load", b, p>>) /\ load' = [load EXCEPT ![b] = p]
    /\ UNCHANGED <<config, active, state, check, left, last, seen, torn, failed>>

\* A dissolved group keeps its key: nothing calls clearGroupAlertState.
GroupChanges ==
    /\ \E g \in Groups : \/ Take(<<"form", g>>) /\ active' = active \cup {g}
                         \/ Take(<<"dissolve", g>>) /\ active' = active \ {g}
    /\ UNCHANGED <<config, load, state, check, left, last, seen, torn, failed>>

Older(r) == [r EXCEPT !.age = IF @ < Reminder THEN @ + 1 ELSE @]

\* Buckets that the check will look at, or may.
Waiting == (left \ {"groups"}) \cup (IF "groups" \in left THEN Groups ELSE {})

\* checkHourly: PPLNS first, and then the groups.
Hour ==
    /\ config.enabled /\ check = NoCheck /\ left = {} /\ \E i \in 1..Hours : Take(<<"hour", i>>)
    /\ left' = {"pplns", "groups"}
    /\ state' = [b \in Bucket |-> Older(state[b])]
    /\ last'  = [b \in Bucket |-> Older(last[b])]
    /\ UNCHANGED <<config, load, active, check, seen, torn, failed>>

\* Those that are active when PPLNS is done.
ListGroups ==
    /\ check = NoCheck /\ left = {"groups"} /\ left' = active
    /\ seen' = [b \in Bucket |-> IF b \in {"pplns"} \cup active THEN seen[b] ELSE None]
    /\ UNCHANGED <<config, load, active, state, check, todo, last, torn, failed>>

Evaluate ==
    /\ check = NoCheck
    /\ \E b \in left \cap Bucket :
         /\ b = "pplns" \/ "pplns" \notin left
         /\ check' = [b |-> b, pc |-> "read", level |-> LevelFor(load[b]), send |-> None]
         /\ seen' = [seen EXCEPT ![b] = check'.level]
         /\ left' = left \ {b} /\ failed' = failed \ {b}
    /\ UNCHANGED <<config, load, active, state, todo, last, torn>>

Judge(prev) ==
    LET send == Decide(prev, check.level)
    IN  check' = IF send = None THEN NoCheck ELSE [check EXCEPT !.pc = "send", !.send = send]

ReadState ==
    /\ check.pc = "read"
    /\ Judge(IF config.redis THEN state[check.b] ELSE Fresh)
    /\ UNCHANGED <<config, load, active, state, left, todo, last, seen, torn, failed>>

SendMail ==
    /\ check.pc = "send"
    /\ last' = [last EXCEPT ![check.b] = [level |-> check.send, age |-> 0]]
    /\ torn' = IF config.redis THEN torn \cup {check.b} ELSE torn
    /\ check' = IF config.redis THEN [check EXCEPT !.pc = "write"] ELSE NoCheck
    /\ UNCHANGED <<config, load, active, state, left, todo, seen, failed>>

WriteState ==
    /\ check.pc = "write"
    /\ state' = [state EXCEPT ![check.b] = [level |-> check.level, age |-> 0]]
    /\ torn' = torn \ {check.b} /\ check' = NoCheck
    /\ UNCHANGED <<config, load, active, left, todo, last, seen, failed>>

\* A read that fails counts as no state, a mail that fails leaves the state for the
\* next hour, and a write that fails loses it.
Fail ==
    /\ check # NoCheck /\ Take(<<"fail">>)
    /\ IF check.pc = "read" THEN Judge(Fresh) ELSE check' = NoCheck
    /\ failed' = failed \cup {check.b}
    /\ UNCHANGED <<config, load, active, state, left, last, seen, torn>>

\* What a bucket needs cannot be read: a group is skipped, but for PPLNS, and for the
\* list of the groups, the check ends, and no group is looked at this hour.
Unreadable ==
    /\ check = NoCheck /\ Take(<<"fail">>)
    /\ \/ \E b \in left \cap Groups : left' = left \ {b} /\ failed' = failed \cup {b}
       \/ "groups" \in left /\ left' = {} /\ failed' = failed \cup Waiting
    /\ UNCHANGED <<config, load, active, state, check, last, seen, torn>>

Restart ==
    /\ Take(<<"restart">>)
    /\ check' = NoCheck /\ left' = {}
    /\ failed' = failed \cup Waiting \cup (IF check = NoCheck THEN {} ELSE {check.b})
    /\ UNCHANGED <<config, load, active, state, last, seen, torn>>

Next ==
    \/ LoadChanges \/ GroupChanges \/ Hour \/ ListGroups
    \/ Evaluate \/ ReadState \/ SendMail \/ WriteState \/ Fail \/ Unreadable \/ Restart

Spec == Init /\ [][Next]_vars

-------------------------------------------------------------------------------
\* After a check without errors the operator's last mail about a bucket fits what
\* the check found: an urgent bucket was called urgent and a warned one at least
\* warned of, within the day, and a bucket that is fine again has had its recovery.
\* Exempt are a state that Redis lost after its mail, and a bucket that
\* went from urgent to warning, of which nothing is said; a group that stops being
\* active is not looked at again.
Fits(b) ==
    CASE seen[b] = "urgent"  -> last[b].level = "urgent" /\ last[b].age < Reminder
      [] seen[b] = "warning" -> \/ last[b].level = "urgent"
                                \/ last[b].level = "warning" /\ last[b].age < Reminder
      [] OTHER -> config.redis => last[b].level \in {None, "recovery"}

CapacityIsTold ==
    \A b \in Bucket \ (torn \cup failed \cup Waiting) :
        config.enabled /\ check.b # b /\ seen[b] # None => Fits(b)
===============================================================================
