------------------------------ MODULE MCStratumV2 ------------------------------
(***************************************************************************)
(* The Stratum V2 connections of a miner: instances of StratumV2Session    *)
(* and, beside it, of JobDeclaration.  A behaviour is one case of either,  *)
(* a mining connection or the connections of a declarer, while the other   *)
(* one rests: the two share no state but whether a declarer is connected,  *)
(* which StratumV2Session has as jdp.                                      *)
(***************************************************************************)
EXTENDS StratumV2Session

CONSTANTS TxLists, TemplateLists, MaxDeclared, MaxKept, Declarations
VARIABLES
    chain, templates, announced, stream, declarer, jobs, registered, calls, rows, booked,
    solved, sent, messages, wrong

declared == <<chain, templates, announced, stream, declarer, jobs, registered, calls, rows,
              booked, solved, sent, messages, wrong>>
Jd ==
    INSTANCE JobDeclaration WITH
        MaxTemplates <- MaxKept, Cases <- Declarations, tdp <- stream, jdp <- declarer,
        budget <- messages, ghost <- wrong

(* Cases of the mining connection. *)
Events == {"setup", "open", "refuse", "update", "close", "custom", "submit", "ratchet",
           "template", "empty", "disconnect", "fault", "tick", "move", "jdp"}
Some(n) == [e \in Events |-> IF e \in DOMAIN n THEN n[e] ELSE 0]
S == "standard"
X == "extended"
\* Channels are opened while blocks change.
Opening == [open |-> 2, template |-> 1, close |-> 1]
Greeting == [setup |-> 1, open |-> 1, template |-> 1, fault |-> 1, submit |-> 1]
\* Work is submitted again after a block change.
Stale == [submit |-> 2, template |-> 1, tick |-> 1]
Old == [submit |-> 1, template |-> 2, tick |-> 1]
\* Difficulties change between jobs.
Difficulty == [update |-> 1, ratchet |-> 1, template |-> 1]
Judged == [update |-> 1, ratchet |-> 1, submit |-> 1]
\* A job declaration client.
Declared == [jdp |-> 1, custom |-> 1, submit |-> 1, ratchet |-> 1, template |-> 1]
Blocks == [submit |-> 1, template |-> 1, move |-> 1]
Emptied == [template |-> 2, empty |-> 1]
Life == [open |-> 1, close |-> 2, disconnect |-> 1, refuse |-> 1, fault |-> 1]
\* Broadcasts that overtake each other.
Twice == [template |-> 2]
Joining == [open |-> 1, template |-> 2]
\* A custom job among those of the pool, when they are aged.
Mixed == [custom |-> 1, template |-> 2, tick |-> 1]
\* The distribution cannot be read for one of the channels.
Broken == [template |-> 2, fault |-> 1]
\* The miner connects anew on the same connection, and misses a template.
Again == [setup |-> 2, template |-> 2]
\* A share waits for its turn while its channel is closed.
Closing == [submit |-> 1, template |-> 1, close |-> 1, tick |-> 1]
Leaving == [submit |-> 2, template |-> 1, close |-> 2]
\* A declared maximum target comes with an absurd hash rate.
Absurd == [update |-> 2, template |-> 1]

Case(p, d, o, n) ==
    [port |-> p, tdp |-> d, open |-> o, events |-> Some(n),
     rates |-> CASE n = Absurd -> {2, 16} [] n = Declared -> {2, 18}
                 [] "ratchet" \in DOMAIN n \/ "setup" \in DOMAIN n -> {2, 8}
                 [] OTHER -> {4},
     limits |-> IF "update" \in DOMAIN n THEN {0, 4} ELSE {0}]

Scenarios ==
    {Case("solo", TRUE, <<X>>, Old), Case("solo", FALSE, <<S>>, Old),
     Case("pplns", FALSE, <<S>>, Stale), Case("solo", TRUE, <<X>>, Stale),
     Case("solo", TRUE, <<>>, Opening), Case("pplns", FALSE, <<>>, Greeting),
     Case("pplns", TRUE, <<S, X>>, Difficulty), Case("pplns", TRUE, <<X>>, Judged),
     Case("solo", TRUE, <<X>>, Declared), Case("solo", TRUE, <<X, X>>, Blocks),
     Case("pplns", FALSE, <<X>>, Emptied), Case("solo", FALSE, <<X>>, Life),
     Case("solo", FALSE, <<S, S>>, Twice), Case("solo", FALSE, <<S>>, Joining),
     Case("solo", FALSE, <<S>>, Again), Case("solo", FALSE, <<X>>, Closing),
     Case("solo", FALSE, <<S, X>>, Leaving), Case("solo", FALSE, <<X>>, Absurd),
     Case("solo", TRUE, <<X>>, Mixed), Case("pplns", FALSE, <<X, S>>, Broken)}

\* Two templates in a row, and two extended channels.
Overtaken == {Case("solo", TRUE, <<X, X>>, Twice)}

\* No event at all.
Resting == {Case("solo", FALSE, <<>>, [tick |-> 0])}

(* Cases of the declarer. *)
Messages == {"block", "template", "constraints", "request", "hangup", "setup", "token",
             "hour", "declare", "solve", "fault"}
Declarer(ready, n) ==
    [ready |-> ready, address |-> TRUE,
     events |-> [e \in Messages |-> IF e \in DOMAIN n THEN n[e] ELSE 0]]

Lists == {<< >>, <<"x">>, <<"x", "y">>}
Offered == {<< >>, <<"x">>}

\* A stream without a mining channel.
Nameless ==
    {[Declarer(TRUE, [declare |-> 1, solve |-> 1, template |-> 1, constraints |-> 1]) EXCEPT
        !.address = FALSE]}

Declarers ==
    {\* The stream, while blocks change.
     Declarer(FALSE, [block |-> 2, template |-> 3, constraints |-> 2, request |-> 1]),
     Declarer(FALSE, [block |-> 2, template |-> 3, constraints |-> 1, hangup |-> 1]),
     \* Tokens that expire while a declaration runs.
     Declarer(FALSE, [setup |-> 1, token |-> 2, hour |-> 1, declare |-> 1, template |-> 1, hangup |-> 1]),
     Declarer(TRUE, [hour |-> 1, declare |-> 2, template |-> 1]),
     \* Declarations that overtake each other, and their blocks.
     Declarer(TRUE, [declare |-> 3, solve |-> 1]),
     Declarer(TRUE, [declare |-> 2, solve |-> 1, template |-> 1, block |-> 1]),
     Declarer(TRUE, [declare |-> 2, solve |-> 2, template |-> 1]),
     \* A job on the pool's own template, solved on both connections.
     Declarer(TRUE, [declare |-> 1, solve |-> 1, template |-> 2, block |-> 1, constraints |-> 1,
                 fault |-> 1])}
        \cup Nameless
Silent == {Declarer(FALSE, [token |-> 0])}

Quietly(b) == \A e \in DOMAIN b : b[e] = 0

ScenariosAndRest == Scenarios \cup Resting
DeclarersAndRest == Declarers \cup Silent

\* One of the two rests.
MCInit ==
    /\ Init /\ Jd!Init
    /\ Quietly(budget) <=> ~Quietly(messages)
MCNext ==
    \/ Next /\ UNCHANGED declared
    \/ Jd!Next /\ UNCHANGED vars

MCSpec == MCInit /\ [][MCNext]_<<vars, declared>> /\ Fairness

-------------------------------------------------------------------------------
\* A job is accepted only if declared in full and paying the pool, an accepted block
\* is on record, and a template client hears of every new tip, however the messages
\* of the two connections interleave.
DeclarationsHold ==
    Jd!DeclaredSound /\ Jd!AcceptedJobsPay /\ Jd!RecordedOnSuccess /\ Jd!StreamIsTold

\* A block built from a declared job is the one the miner has solved.
BlockIsTheSolved == Jd!BlockIsTheSolved
===============================================================================
