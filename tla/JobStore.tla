------------------------------ MODULE JobStore ------------------------------
(***************************************************************************)
(* The registry of block templates and mining jobs that every V1 and V2    *)
(* connection shares (stratum-v1-jobs.service.ts).  A block change deletes *)
(* nothing: it stamps retiredAt on what is registered then, and what has   *)
(* been retired for longer than Retention is deleted when the next         *)
(* template comes.  Ids count up, so a higher id was created later.        *)
(*                                                                         *)
(* A template is [tip, made, retired]: the block it builds on, its         *)
(* creation and retiredAt.  A job has tmpl, made and retired beside what   *)
(* its connection keeps in it.                                             *)
(***************************************************************************)
EXTENDS Integers, FiniteSets

CONSTANTS
    Grace,          \* STALE_GRACE_MS
    Retention,      \* job_retention_ms
    MinRetained     \* MIN_RETAINED

ASSUME StoreAssumption ==
    Grace \in Nat /\ Retention \in Nat /\ MinRetained \in Nat /\ Grace <= Retention

Active == -1        \* retiredAt is undefined

EmptyStore == [templates |-> << >>, jobs |-> << >>,
               nextTemplate |-> 1, nextJob |-> 1, tip |-> 0]

\* What is known is stamped once; it stays.
Retire(entries, now) ==
    [i \in DOMAIN entries |->
        [entries[i] EXCEPT !.retired = IF @ = Active THEN now ELSE @]]

Spent(entry, now) ==
    \/ entry.retired # Active /\ now - entry.retired > Retention
    \/ now - entry.made > 2 * Retention

Newer(entries, i) == {k \in DOMAIN entries : k > i}

\* ageEntries: all but the newest MinRetained entries may go.
Aged(entries, now) ==
    LET gone == {i \in DOMAIN entries : /\ Cardinality(Newer(entries, i)) >= MinRetained
                                        /\ Spent(entries[i], now)}
    IN  [i \in DOMAIN entries \ gone |-> entries[i]]

\* A block change retires the templates and not the jobs.
Cleanup_Faulty(store, clearJobs, now) ==
    LET swept(entries) == Aged(IF clearJobs THEN Retire(entries, now) ELSE entries, now)
    IN  [store EXCEPT !.templates = swept(@), !.jobs = Aged(@, now)]

Cleanup(store, clearJobs, now) ==
    LET swept(entries) == Aged(IF clearJobs THEN Retire(entries, now) ELSE entries, now)
    IN  [store EXCEPT !.templates = swept(@), !.jobs = swept(@)]

\* newMiningJob$: clearJobs is decided by the previous block hash of the fetched
\* template against that of the last one; the registry is cleaned up, then the
\* template is registered.
ClearsJobs(store, tip) == store.nextTemplate > 1 /\ store.tip # tip

NewTemplate(store, tip, now) ==
    LET id == store.nextTemplate
        template == [tip |-> tip, made |-> now, retired |-> Active]
        cleaned == Cleanup(store, ClearsJobs(store, tip), now)
    IN  [cleaned EXCEPT
            !.templates = [i \in DOMAIN @ \cup {id} |-> IF i = id THEN template ELSE @[i]],
            !.nextTemplate = id + 1, !.tip = tip]

\* addJob, under the id getNextId returned in the same turn.
AddJob(store, job) ==
    LET id == store.nextJob
    IN  [store EXCEPT
            !.jobs = [i \in DOMAIN @ \cup {id} |-> IF i = id THEN job ELSE @[i]],
            !.nextJob = id + 1]

\* classifyJobForShare
Classify(job, now) ==
    CASE job.retired = Active -> "active"
      [] job.retired # Active /\ now - job.retired <= Grace -> "stale-creditable"
      [] OTHER -> "stale-rejected"
=============================================================================
