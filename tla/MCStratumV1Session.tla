-------------------------- MODULE MCStratumV1Session --------------------------
(* Instances of StratumV1Session: each case is one kind of behaviour. *)
EXTENDS StratumV1Session

Events == {"subscribe", "authorize", "suggest", "submit", "ratchet", "template", "empty",
           "close", "reset", "fault", "purge", "restart", "move", "beat", "kill", "tick"}
Some(n) == [e \in Events |-> IF e \in DOMAIN n THEN n[e] ELSE 0]

Case(p, a, f, n) == [port |-> p, agent |-> a, from |-> f, events |-> Some(n)]

\* Two difficulty changes between jobs.
Difficulty == [suggest |-> 1, ratchet |-> 1, template |-> 1, submit |-> 1]
\* Block changes while the same work is submitted again.
Stale == [submit |-> 2, template |-> 2, tick |-> 1]
\* The membership of the address changes.
Moved == [submit |-> 1, template |-> 1, move |-> 2]
\* The handshake, and its end.
Greeting == [subscribe |-> 1, authorize |-> 1, suggest |-> 1, submit |-> 1]
Life == [subscribe |-> 1, authorize |-> 1, suggest |-> 1, close |-> 1, empty |-> 1]
\* The life of the row.
Rowed == [submit |-> 2, close |-> 1, fault |-> 1, purge |-> 1, beat |-> 1]
Restarted == [submit |-> 1, close |-> 1, restart |-> 1, beat |-> 1, kill |-> 1]
Reset == [authorize |-> 1, submit |-> 1, template |-> 1, reset |-> 1, fault |-> 1]
S1 == {Case(p, "asic", "working", Difficulty) : p \in {"solo", "pplns"}}
S2 == {Case("pplns", "asic", "working", Stale)}
S3 == {Case(p, "asic", "working", Moved) : p \in {"solo", "pplns"}}
S4 == {Case("pplns", "cpuminer", "connect", Greeting), Case("pplns", "asic", "connect", Life)}
S5 == {Case("solo", "asic", "mining", Rowed), Case("solo", "asic", "mining", Restarted),
       Case("solo", "asic", "mining", Reset)}
Scenarios == S1 \cup S2 \cup S3 \cup S4 \cup S5
===============================================================================
