--------------------------- MODULE JobDeclaration ---------------------------
(***************************************************************************)
(* The two Stratum V2 protocols of a miner who builds its own blocks: one  *)
(* connection on which the pool streams its templates (the TDP part of     *)
(* StratumV2Client.ts over template-distribution.service.ts), one on which *)
(* the miner declares jobs and pushes the block it has solved              *)
(* (JobDeclarationClient.ts, job-declaration.service.ts).  The pool builds *)
(* the block again from what it has kept, and gives it to bitcoind; so     *)
(* does the stream's SubmitSolution, which also books it.                  *)
(*                                                                         *)
(* A frame runs to its first await and later frames overtake it there:     *)
(* `jobs' are "checking" while the mempool is asked, `replies' are written *)
(* before they are stored, a submission waits for bitcoind and then for    *)
(* the database.                                                           *)
(*                                                                         *)
(* A job is known by its place in `jobs', which stands for its coinbase,   *)
(* and a template by its id.  A tip is the number of blocks below.         *)
(***************************************************************************)
EXTENDS Integers, FiniteSets, Sequences, SequencesExt

CONSTANTS
    TxLists,        \* transactions that a job may hold, in order
    TemplateLists,  \* transactions that a template may hold
    MaxDeclared,    \* MAX_DECLARED_JOBS
    MaxTemplates,   \* templates kept for later lookups (10)
    Cases           \* bounds: how often each event may come, whether the miner has set
                    \* up and has a token to begin with, and whether the stream's
                    \* connection has opened a mining channel too

VARIABLES
    chain,      \* the blocks of bitcoind: a solved block, or Other
    templates,  \* activeTemplates, those no longer kept included
    announced,  \* whether newPrevHash$ has emitted, and replays
    tdp,        \* the connection of the stream
    jdp,        \* the connection of the declarations
    jobs,       \* what the miner has declared on it
    registered, \* declaredJobs of the service
    calls,      \* submissions under way
    rows,       \* the blocks table: [via, blk], as inserted
    booked,     \* blocks handed to the payout engine, in order
    solved, sent,   \* jobs the miner has solved; where it has sent the solution
    budget,
    ghost       \* what has gone wrong before

vars == <<chain, templates, announced, tdp, jdp, jobs, registered, calls, rows,
          booked, solved, sent, budget, ghost>>
streamed == <<templates, announced, tdp>>
declaring == <<jdp, jobs, registered>>
outcome == <<chain, calls, rows, booked, solved, sent>>

Other == [prev |-> -1, txs |-> << >>, coinbase |-> 0]
NoTip == -1
NoJob == 0

Init ==
    /\ chain = << >> /\ templates = << >> /\ announced = FALSE
    /\ \E c \in Cases :
        /\ budget = c.events
        /\ tdp = [open |-> TRUE, address |-> c.address, told |-> {}, named |-> 0,
                  subs |-> << >>, greetings |-> << >>, answer |-> "none"]
        /\ jdp = [open |-> TRUE, setup |-> c.ready, full |-> c.ready, paced |-> FALSE,
                  tokens |-> IF c.ready THEN <<"live">> ELSE << >>,
                  nextToken |-> IF c.ready THEN 2 ELSE 1,
                  pending |-> [job |-> NoJob], replies |-> << >>, declared |-> << >>]
    /\ jobs = << >> /\ registered = {} /\ calls = {} /\ rows = << >> /\ booked = << >>
    /\ solved = {} /\ sent = {}
    /\ ghost = [unchecked |-> {}, mixed |-> {}, lost |-> {}, nameless |-> {},
                missed |-> FALSE]

Spend(event) == budget[event] > 0 /\ budget' = [budget EXCEPT ![event] = @ - 1]

-------------------------------------------------------------------------------
(* template-distribution.service.ts *)

Latest == Len(templates)                    \* getLatestTemplate, 0 if there is none
Stored(id) == id \in 1..Latest /\ id > Latest - MaxTemplates
LatestTip == IF Latest = 0 THEN NoTip ELSE templates[Latest].tip

NewBlock == /\ Spend("block") /\ chain' = Append(chain, Other)
            /\ UNCHANGED <<streamed, declaring, calls, rows, booked, solved, sent, ghost>>

\* skip(1) drops the replay, or the first emission if there was none to replay.
Hear(c, id, clearJobs) ==
    LET heard == {i \in DOMAIN c.subs : ~c.subs[i].skipTemplate}
        turned == {i \in DOMAIN c.subs : clearJobs /\ ~c.subs[i].skipTip}
    IN  [c EXCEPT !.told = IF heard = {} THEN @ ELSE @ \cup {id},
                  !.named = IF turned = {} THEN @ ELSE id,
                  !.subs = [i \in DOMAIN @ |->
                    [skipTemplate |-> FALSE, skipTip |-> @[i].skipTip /\ ~clearJobs]]]

\* The announcement of a new tip is made for the templates that do not clear.
ClearsJobs_Faulty(tip) == Latest > 0 /\ LatestTip = tip

ClearsJobs(tip) == Latest > 0 /\ LatestTip # tip

\* processJobTemplate; what bitcoind answered may be of an older tip by now.
NewTemplate(tip, txs) ==
    LET id == Latest + 1
        heard == Hear(tdp, id, ClearsJobs(tip))
    IN  /\ Spend("template") /\ tip >= LatestTip
        /\ templates' = Append(templates, [tip |-> tip, txs |-> txs])
        /\ announced' = (announced \/ ClearsJobs(tip))
        /\ tdp' = heard
        /\ ghost' = [ghost EXCEPT !.missed =
                        @ \/ /\ ClearsJobs(tip)
                             /\ \/ tdp.greetings # << >>
                                \/ tdp.subs # << >> /\ heard.named # id]
        /\ UNCHANGED <<declaring, outcome>>

-------------------------------------------------------------------------------
(* The stream: handleCoinbaseOutputConstraints *)

Subscribed(c) ==
    [c EXCEPT !.subs = Append(@, [skipTemplate |-> Latest = 0, skipTip |-> ~announced])]

\* `greetings' are the frames on their way to the client, in the order of their writing,
\* one for each handler at work: a second message does not wait for the first.
Constraints ==
    /\ Spend("constraints") /\ tdp.open
    /\ tdp' = IF Latest = 0 THEN Subscribed(tdp)
              ELSE [tdp EXCEPT !.told = @ \cup {Latest},
                               !.greetings = Append(@, [at |-> "template", id |-> Latest])]
    /\ UNCHANGED <<templates, announced, declaring, outcome, ghost>>

Written == Head(tdp.greetings)

\* A frame to a connection that is gone is dropped; the handler goes on.
SendPrevHash ==
    /\ tdp.greetings # << >> /\ Written.at = "template"
    /\ tdp' = [tdp EXCEPT !.greetings = Append(Tail(@), [Written EXCEPT !.at = "prevhash"]),
                          !.named = IF tdp.open THEN Written.id ELSE @]
    /\ UNCHANGED <<templates, announced, declaring, outcome, budget, ghost>>

Subscribe ==
    /\ tdp.greetings # << >> /\ Written.at = "prevhash"
    /\ tdp' = Subscribed([tdp EXCEPT !.greetings = Tail(@)])
    /\ UNCHANGED <<templates, announced, declaring, outcome, budget, ghost>>

\* handleRequestTransactionData
TransactionData(id) ==
    CASE ~Stored(id) -> "template-id-not-found"
      [] Stored(id) /\ templates[id].tip # LatestTip -> "stale-template-id"
      [] OTHER -> "success"

RequestTransactionData ==
    /\ Spend("request") /\ tdp.open
    /\ \E id \in tdp.told : tdp' = [tdp EXCEPT !.answer = TransactionData(id)]
    /\ UNCHANGED <<templates, announced, declaring, outcome, ghost>>

HangUp ==
    /\ Spend("hangup") /\ tdp.open
    /\ tdp' = [tdp EXCEPT !.open = FALSE, !.subs = << >>]
    /\ UNCHANGED <<templates, announced, declaring, outcome, ghost>>

-------------------------------------------------------------------------------
(* Declarations: setup and tokens *)

SetupConnection ==
    /\ Spend("setup") /\ jdp.open
    /\ \/ \E full \in BOOLEAN : jdp' = [jdp EXCEPT !.setup = TRUE, !.full = full]
       \/ jdp' = [jdp EXCEPT !.open = FALSE, !.tokens = << >>, !.declared = << >>]
    /\ UNCHANGED <<streamed, jobs, registered, outcome, ghost>>

\* handleAllocateToken: the pace counts although no address is found.
AllocateToken ==
    /\ Spend("token") /\ jdp.open /\ jdp.setup /\ ~jdp.paced
    /\ \/ jdp' = [jdp EXCEPT !.paced = TRUE]
       \/ jdp' = [jdp EXCEPT !.paced = TRUE, !.nextToken = @ + 1,
                    !.tokens = [k \in DOMAIN @ \cup {jdp.nextToken} |->
                                    IF k \in DOMAIN @ THEN @[k] ELSE "live"]]
    /\ UNCHANGED <<streamed, jobs, registered, outcome, ghost>>

\* A second passes; an hour passes.
Second == /\ jdp.paced /\ jdp' = [jdp EXCEPT !.paced = FALSE]
          /\ UNCHANGED <<streamed, jobs, registered, outcome, budget, ghost>>
Hour == /\ Spend("hour") /\ DOMAIN jdp.tokens # {}
        /\ jdp' = [jdp EXCEPT !.tokens = [k \in DOMAIN @ |-> "old"]]
        /\ UNCHANGED <<streamed, jobs, registered, outcome, ghost>>

Without(tokens, k) == [i \in DOMAIN tokens \ {k} |-> tokens[i]]

-------------------------------------------------------------------------------
(* Declarations: jobs *)

\* validateCoinbaseOutputs: nothing to compare with if the token is gone.
Unpaid_Faulty(job) ==
    job.token \in DOMAIN jdp.tokens /\ jdp.tokens[job.token] = "live" /\ ~job.pays

Unpaid(job) == job.token \in DOMAIN jdp.tokens /\ ~job.pays

Verdict(job) == IF Unpaid(job) THEN "refused" ELSE "accepted"

\* acceptDeclaration, to the await of its answer.
Accepted(c, job, n, raw) ==
    IF Unpaid(job) THEN c ELSE [c EXCEPT !.replies = Append(@, [job |-> n, raw |-> raw])]
Unchecked(g, job, n) ==
    IF job.token \in DOMAIN jdp.tokens THEN g ELSE [g EXCEPT !.unchecked = @ \cup {n}]

\* The miner builds on the template it was told last, or on its own node's tip.
Bases ==
    [tmpl : {0}, prev : {Len(chain)}, txs : TxLists]
        \cup {[tmpl |-> id, prev |-> templates[id].tip, txs |-> templates[id].txs] :
                id \in {i \in tdp.told : tdp.named > 0 /\ templates[i].tip = templates[tdp.named].tip}}

\* handleDeclareMiningJob, to its first await.
Declare(base, k, pays) ==
    LET n == Len(jobs) + 1
        known == k \in DOMAIN jdp.tokens
        valid == jdp.full /\ known /\ jdp.tokens[k] = "live"
        job == [token |-> k, tmpl |-> base.tmpl, prev |-> base.prev,
                txs |-> base.txs, pays |-> pays, at |-> "refused"]
        at(status) == jobs' = Append(jobs, [job EXCEPT !.at = status])
    IN  /\ Spend("declare") /\ jdp.open
        /\ \/ ~valid /\ at("refused") /\ UNCHANGED ghost
              /\ jdp' = IF jdp.full /\ known THEN [jdp EXCEPT !.tokens = Without(@, k)] ELSE jdp
           \/ valid /\ job.txs # << >> /\ at("checking") /\ UNCHANGED <<jdp, ghost>>
           \/ valid /\ job.txs = << >> /\ at(Verdict(job))
              /\ jdp' = Accepted(jdp, job, n, << >>) /\ ghost' = Unchecked(ghost, job, n)
        /\ UNCHANGED <<streamed, registered, outcome>>

\* The mempool has answered.  What the newest template does not hold is asked
\* for; there is one pendingDeclaration, and the newest request takes it.
Validated(n) ==
    LET job == jobs[n]
        here == IF Latest = 0 THEN {} ELSE ToSet(templates[Latest].txs)
        known == {i \in DOMAIN job.txs : job.txs[i] \in here}
        raw == [i \in known |-> job.txs[i]]
        missing == SetToSortSeq(DOMAIN job.txs \ known, <)
    IN  /\ job.at = "checking"
        /\ \/ missing # << >> /\ UNCHANGED ghost
              /\ jdp' = [jdp EXCEPT !.pending = [job |-> n, missing |-> missing, known |-> raw]]
              /\ jobs' = [jobs EXCEPT ![n] = [job EXCEPT !.at = "asked"] @@ [missing |-> missing]]
           \/ missing = << >> /\ jdp' = Accepted(jdp, job, n, raw)
              /\ jobs' = [jobs EXCEPT ![n].at = Verdict(job)] /\ ghost' = Unchecked(ghost, job, n)
        /\ UNCHANGED <<streamed, registered, outcome, budget>>

\* The transactions that came, at the positions that were asked for.
Merged_Faulty(p, given) ==
    [i \in DOMAIN given |-> given[i]] @@ p.known

Merged(p, given) ==
    LET filled == DOMAIN given \cap DOMAIN p.missing
    IN  [k \in {p.missing[i] : i \in filled} |->
            given[CHOOSE i \in filled : p.missing[i] = k]] @@ p.known

\* handleProvideMissingTransactionsSuccess: the answer for job n goes into the
\* declaration that waits now.
Provided(n) ==
    LET p == jdp.pending
        given == [i \in DOMAIN jobs[n].missing |-> jobs[n].txs[jobs[n].missing[i]]]
        job == jobs[p.job]
        raw == Merged(p, given)
    IN  /\ jdp.open /\ jobs[n].at = "asked"
        /\ \/ p.job = NoJob /\ UNCHANGED <<jdp, ghost>>
              /\ jobs' = [jobs EXCEPT ![n].at = "ignored"]
           \/ /\ p.job # NoJob
              /\ jdp' = Accepted([jdp EXCEPT !.pending = [job |-> NoJob]], job, p.job, raw)
              /\ jobs' = [jobs EXCEPT ![n].at = "mistaken", ![p.job].at = Verdict(job)]
              /\ ghost' = [Unchecked(ghost, job, p.job) EXCEPT !.mixed =
                                IF p.job = n THEN @ ELSE @ \cup {p.job}]
        /\ UNCHANGED <<streamed, registered, outcome, budget>>

\* The answer is written; the job is kept, with the tip of that moment, and of
\* the jobs the newest MaxDeclared.
Kept(declared) ==
    IF Len(declared) > MaxDeclared THEN Tail(declared) ELSE declared

Store ==
    LET r == Head(jdp.replies)
    IN  /\ jdp.replies # << >>
        /\ jdp' = [jdp EXCEPT !.replies = Tail(@),
                    !.declared = Kept(Append(@, [job |-> r.job, raw |-> r.raw, prev |-> LatestTip]))]
        /\ registered' = registered \cup {r.job}
        /\ UNCHANGED <<streamed, jobs, outcome, budget, ghost>>

Disconnect ==
    /\ Spend("hangup") /\ jdp.open
    /\ jdp' = [jdp EXCEPT !.open = FALSE, !.tokens = << >>, !.declared = << >>]
    /\ UNCHANGED <<streamed, jobs, registered, outcome, ghost>>

-------------------------------------------------------------------------------
(* A solved block *)

Solution(n) == [prev |-> jobs[n].prev, txs |-> jobs[n].txs, coinbase |-> n]

Solve(n) ==
    /\ Spend("solve") /\ jobs[n].at = "accepted" /\ n \notin solved
    /\ solved' = solved \cup {n}
    /\ UNCHANGED <<streamed, declaring, chain, calls, rows, booked, sent, ghost>>

\* The newest job declared under the solution's previous block, or the newest.
Matched_Faulty(prev) ==
    LET hits == {i \in DOMAIN jdp.declared : jdp.declared[i].prev = prev}
    IN  IF hits # {} THEN CHOOSE i \in hits : \A k \in hits : i <= k ELSE Len(jdp.declared)

Matched(prev) ==
    LET hits == {i \in DOMAIN jdp.declared : jdp.declared[i].prev = prev}
    IN  IF hits # {} THEN CHOOSE i \in hits : \A k \in hits : i >= k ELSE Len(jdp.declared)

Rebuilt(n) ==
    LET d == jdp.declared[Matched(jobs[n].prev)]
    IN  [prev |-> jobs[n].prev, txs |-> d.raw, coinbase |-> d.job]

Call(via, n, blk) == [via |-> via, job |-> n, blk |-> blk, at |-> "submit"]

\* handlePushSolution, to submitblock.
PushSolution(n) ==
    /\ n \in solved /\ <<"jdp", n>> \notin sent /\ sent' = sent \cup {<<"jdp", n>>}
    /\ jdp.open /\ jdp.full /\ jdp.declared # << >>
    /\ LET job == jdp.declared[Matched(jobs[n].prev)].job
       IN  calls' = IF DOMAIN jobs[job].txs = DOMAIN Rebuilt(n).txs
                    THEN calls \cup {Call("jdp", n, Rebuilt(n))} ELSE calls
    /\ UNCHANGED <<streamed, declaring, chain, rows, booked, solved, budget, ghost>>

\* handleSubmitSolution of the stream, to submitblock: the transactions and the
\* previous block are those of the template.
SubmitSolution(n) ==
    LET id == jobs[n].tmpl
    IN  /\ n \in solved /\ <<"tdp", n>> \notin sent /\ sent' = sent \cup {<<"tdp", n>>}
        /\ tdp.open /\ id # 0
        /\ calls' = IF Stored(id)
                    THEN calls \cup {Call("tdp", n, [prev |-> templates[id].tip,
                                                     txs |-> templates[id].txs, coinbase |-> n])}
                    ELSE calls
        /\ UNCHANGED <<streamed, declaring, chain, rows, booked, solved, budget, ghost>>

\* submitblock at bitcoind: a block it has, a hash that is not the solved one,
\* a previous block that is not the tip.
Takes(call) ==
    /\ call.blk = Solution(call.job) /\ call.blk.prev = Len(chain)

After(call, at) == calls' = (calls \ {call}) \cup {[call EXCEPT !.at = at]}

\* Only what bitcoind has accepted is recorded, on the stream; and the address
\* it is recorded for comes with a mining channel.  Without one ensureEntity
\* leaves the entity undefined, and the handler ends in a TypeError that
\* destroys the connection.
Recorded_Faulty(call) == call.blk = Solution(call.job)

Recorded(call) == Takes(call)

SubmitBlock(call) ==
    /\ call.at = "submit"
    /\ chain' = IF Takes(call) THEN Append(chain, call.blk) ELSE chain
    /\ \/ /\ call.via = "jdp" \/ (Recorded(call) /\ tdp.address)
          /\ After(call, "save") /\ UNCHANGED <<tdp, ghost>>
       \/ /\ call.via = "tdp" /\ ~Recorded(call)
          /\ calls' = calls \ {call} /\ UNCHANGED <<tdp, ghost>>
       \/ /\ call.via = "tdp" /\ Recorded(call) /\ ~tdp.address
          /\ calls' = calls \ {call}
          /\ tdp' = [tdp EXCEPT !.open = FALSE, !.subs = << >>]
          /\ ghost' = [ghost EXCEPT !.nameless = @ \cup {call.blk}]
    /\ UNCHANGED <<templates, announced, declaring, rows, booked, solved, sent, budget>>

\* The answer of bitcoind is lost: the block may be in the chain, and is taken
\* to be rejected.
AnswerLost(call) ==
    /\ Spend("fault") /\ call.at = "submit"
    /\ chain' = IF Takes(call) THEN Append(chain, call.blk) ELSE chain
    /\ IF call.via = "jdp" THEN After(call, "save") ELSE calls' = calls \ {call}
    /\ ghost' = [ghost EXCEPT !.lost = @ \cup {call.blk}]
    /\ UNCHANGED <<streamed, declaring, rows, booked, solved, sent>>

SaveBlock(call) ==
    /\ call.at = "save"
    /\ rows' = Append(rows, [via |-> call.via, blk |-> call.blk])
    /\ IF call.via = "tdp" THEN After(call, "book") ELSE calls' = calls \ {call}
    /\ UNCHANGED <<streamed, declaring, chain, booked, solved, sent, budget, ghost>>

\* The database fails: the stream's connection is destroyed with the error, and
\* nothing is booked.
SaveFails(call) ==
    /\ Spend("fault") /\ call.at = "save" /\ calls' = calls \ {call}
    /\ ghost' = [ghost EXCEPT !.lost = @ \cup {call.blk}]
    /\ tdp' = IF call.via = "tdp" THEN [tdp EXCEPT !.open = FALSE, !.subs = << >>] ELSE tdp
    /\ UNCHANGED <<templates, announced, declaring, chain, rows, booked, solved, sent>>

BookBlock(call) ==
    /\ call.at = "book" /\ calls' = calls \ {call}
    /\ booked' = Append(booked, call.blk)
    /\ UNCHANGED <<streamed, declaring, chain, rows, solved, sent, budget, ghost>>

-------------------------------------------------------------------------------
Next ==
    \/ NewBlock
    \/ \E tip \in 0..Len(chain), txs \in TemplateLists : NewTemplate(tip, txs)
    \/ Constraints \/ SendPrevHash \/ Subscribe \/ RequestTransactionData \/ HangUp
    \/ SetupConnection \/ AllocateToken \/ Second \/ Hour
    \/ \E base \in Bases, k \in 1..(jdp.nextToken - 1), pays \in BOOLEAN :
            Declare(base, k, pays)
    \/ \E n \in DOMAIN jobs : \/ Validated(n) \/ Provided(n) \/ Solve(n)
                              \/ PushSolution(n) \/ SubmitSolution(n)
    \/ Store \/ Disconnect
    \/ \E call \in calls : \/ SubmitBlock(call) \/ AnswerLost(call) \/ SaveBlock(call)
                           \/ SaveFails(call) \/ BookBlock(call)

Spec == Init /\ [][Next]_vars

-------------------------------------------------------------------------------
Won(blk) == \E i \in DOMAIN chain : chain[i] = blk

\* What is kept of the declarations stays within its bounds, and a block that
\* can be built again has all the transactions of its job.
DeclaredSound ==
    /\ Len(jdp.declared) <= MaxDeclared
    /\ \A i \in DOMAIN jdp.declared :
            LET d == jdp.declared[i]
            IN  /\ d.job \in registered /\ d.prev <= LatestTip
                /\ d.job \notin ghost.mixed => d.raw = jobs[d.job].txs

\* A job the pool has accepted pays the miner's output that its token named,
\* except where the token has vanished between the declaration and the
\* acceptance (validateCoinbaseOutputs then finds nothing to compare with).
AcceptedJobsPay ==
    \A n \in DOMAIN jobs :
        jobs[n].at = "accepted" => jobs[n].pays \/ n \in ghost.unchecked

\* The block built again for a solution is the solved one, if the job is the
\* newest the pool has kept, its previous block is still the tip, and no other
\* declaration's transactions have come in for it (handlePushSolution: the
\* match is by previous block and age, not by job).
BlockIsTheSolved ==
    [][\A n \in DOMAIN jobs :
        /\ <<"jdp", n>> \in sent' \ sent
        /\ jdp.declared[Len(jdp.declared)].job = n
        /\ jobs[n].prev = Len(chain) /\ n \notin ghost.mixed
        => Call("jdp", n, Solution(n)) \in calls']_vars

Times(blk) == Cardinality({i \in DOMAIN booked : booked[i] = blk})
StreamRows(blk) == Cardinality({i \in DOMAIN rows : rows[i] = [via |-> "tdp", blk |-> blk]})

\* Submit always, record only on success: however the two connections' copies
\* of a block race, the stream records it once at most, and only if it is in the
\* chain; and what a call has put into the chain is recorded when the calls are
\* over, unless bitcoind's answer or the database failed or the stream's
\* connection has no address.
RecordedOnSuccess ==
    LET blocks == {Solution(n) : n \in solved}
        saved == {rows[i].blk : i \in DOMAIN rows}
    IN  /\ \A blk \in blocks :
            /\ Times(blk) <= StreamRows(blk) /\ StreamRows(blk) <= 1
            /\ StreamRows(blk) = 1 => Won(blk)
        /\ \A blk \in {b \in blocks : Won(b)} \ (ghost.lost \cup ghost.nameless) :
            \/ \E call \in calls : call.blk = blk
            \/ blk \in saved /\ (Times(blk) = StreamRows(blk))

\* What the comment on the dispatch in handleSubmitSolution says it brings: a
\* block that bitcoind has from the stream is booked.  It is not, if the
\* connection is the stream's alone, or the copy on the other one came first.
StreamBooksItsBlocks ==
    \A n \in solved :
        /\ <<"tdp", n>> \in sent /\ Won(Solution(n)) /\ Solution(n) \notin ghost.lost
        /\ \A call \in calls : call.job # n
        => Times(Solution(n)) = 1

\* A SetNewPrevHash on the stream names a template sent before (spec 7.3, quoted
\* at sendTdpNewTemplate); and once the miner has subscribed it is told every
\* new tip, except the one the pool skips or drops while the handler still runs.
StreamIsTold ==
    /\ tdp.named \in tdp.told \cup {0}
    /\ tdp.subs # << >> /\ tdp.named # 0 /\ ~ghost.missed
        => templates[tdp.named].tip = LatestTip
===============================================================================
