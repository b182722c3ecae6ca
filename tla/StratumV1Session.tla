--------------------------- MODULE StratumV1Session ---------------------------
(***************************************************************************)
(* One Stratum V1 connection (StratumV1Client.ts) between the shared job   *)
(* registry, the payout services and the row of its worker in Postgres     *)
(* (client.service.ts).                                                    *)
(*                                                                         *)
(* A task is one run of an asynchronous function: the loop over a chunk of *)
(* lines, the handler of a new template, the difficulty timer.  Nothing    *)
(* serialises them, so they interleave at every await.  A task keeps `at', *)
(* the await it is suspended in, and what it captured before it.  write    *)
(* fails on a socket that was ended, and runs destroy then.                *)
(*                                                                         *)
(* Left out: the bytes of messages and headers (a share is the difficulty  *)
(* q its hash meets), statistics, notifications except for the two flags   *)
(* they set, validation errors, which only answer.  Rates, in getSuggested-*)
(* Difficulty, are any of Rates; the row's columns are left out, but not   *)
(* whether it counts as online.                                            *)
(*                                                                         *)
(* An operator whose name ends in _Faulty is a broken variant of the       *)
(* definition below it and is used by nothing.                             *)
(***************************************************************************)
EXTENDS JobStore, TLC

CONSTANTS
    Address, None,
    Tasks,          \* bound: asynchronous runs at a time
    InitialDiff, Fallback,  \* initialDifficulty, cpuminer's fallbackDifficulty
    Floor, Warmup,  \* minimumDifficulty and ledgerWarmupShares of the PPLNS port
    Rates,          \* difficulties a miner suggests and its share rate calls for
    Quality,        \* difficulties the hash of a share meets
    NetDiff,        \* networkDifficulty
    MaxTemplates, MaxJobs,  \* bounds
    Cases           \* bounds: port, user agent, and the events of one behaviour

VARIABLES
    clock,
    store,      \* the registry of jobs and templates
    port, agent,
    membership, \* membership[a]: the group or party an address mines for
    epoch,      \* ghost: counts the changes of membership
    sess,       \* the fields of StratumV1Client
    sock,       \* "open", "ended" (end was called) or "closed"
    late,       \* a loop over lines was alive when the socket closed
    task,
    destroys,   \* stages of destroy that are still to run
    registered, \* addresses under which stratum-v1.service holds the client
    row,        \* the row in client_entity, "queued" before insertClients runs
    beat,       \* a heartbeat of the session is buffered
    told,       \* the difficulty written to the miner last
    budget,     \* events that may still happen
    credits,    \* ghost: credits[j][q]: how often work was credited
    paid,       \* ghost: what was recorded with the PPLNS or the group ledger
    booked      \* ghost: blocks: scheme of the coinbase and of the booking

rowvars == <<row, beat>>
ghost == <<credits, paid, booked>>
world == <<port, agent, membership, epoch>>
vars == <<clock, store, world, sess, sock, late, task, destroys, registered,
          rowvars, told, budget, ghost>>

Task == 1..Tasks
Kinds == {"none", "group", "party", "pending"}
Schemes == {"pplns", "blockparty", "group-solo", "fee", "solo", "devfee"}

Idle == [at |-> "idle", tmpl |-> 0, route |-> None, addr |-> None, epoch |-> 0,
         job |-> 0, q |-> 0, diff |-> 0, why |-> None, back |-> "idle", line |-> FALSE]

MinDiff(p) == IF p = "pplns" THEN Floor ELSE 0
Highest(a, b) == IF a >= b THEN a ELSE b
Lowest(a, b) == IF a <= b THEN a ELSE b

\* nearestDifficultyStep: of 2^k, 1.5 * 2^k and 2^(k+1) the nearest one, the
\* smaller one of two.
NearestStep(val, min) ==
    LET lower == CHOOSE p \in {2, 4, 8, 16, 32, 64, 128, 256} : p <= val /\ val < 2 * p
        steps == {lower, lower + lower \div 2, 2 * lower}
        far(s) == IF s >= val THEN s - val ELSE val - s
    IN  IF val < min THEN min
        ELSE CHOOSE s \in steps : \A o \in steps :
                far(s) < far(o) \/ (far(s) = far(o) /\ s <= o)

\* Rounding to a step can go below a floor that lies above its own step.
ASSUME SessionAssumption ==
    /\ \A r \in Rates : r \in 2..256 /\ NearestStep(r, Floor) >= Floor
    /\ {InitialDiff, Fallback, Floor, Warmup, NetDiff} \cup Quality \subseteq Nat
    /\ InitialDiff >= Floor /\ Floor > Fallback /\ Fallback > 0
    /\ Tasks \in Nat /\ MaxTemplates \in Nat /\ MaxJobs \in Nat \ {0}
    /\ None \notin Address
    /\ \A c \in Cases : c.port \in {"solo", "pplns"} /\ c.agent \in {"asic", "cpuminer"}

NoJob == [tmpl |-> 0, made |-> 0, retired |-> Active, route |-> None, addr |-> None,
          epoch |-> 0, asked |-> 0, clean |-> FALSE, changes |-> 0, late |-> FALSE]

Fresh == [started |-> FALSE, init |-> FALSE, auth |-> None,
          diff |-> InitialDiff, old |-> InitialDiff, boundary |-> 0, changes |-> 0,
          suggested |-> FALSE, used |-> FALSE,
          entity |-> FALSE, creating |-> "none", seen |-> {}, accepted |-> 0,
          listening |-> FALSE, ticking |-> FALSE, online |-> FALSE, offline |-> FALSE]

\* After the handshake, and after the first share too.
Mining(a, shared) ==
    [Fresh EXCEPT !.started = TRUE, !.init = TRUE, !.auth = a, !.entity = shared,
                  !.creating = IF shared THEN "done" ELSE "none",
                  !.accepted = IF shared THEN 1 ELSE 0,
                  !.listening = TRUE, !.ticking = TRUE, !.online = TRUE]

FirstJob(p, a) ==
    [NoJob EXCEPT !.tmpl = 1, !.route = IF p = "pplns" THEN p ELSE "solo", !.addr = a,
                  !.asked = InitialDiff, !.clean = TRUE]

\* A behaviour starts with the connection or, so that its bounds are spent on what
\* comes then, in the state every handshake that is left alone leads to.
Init ==
    /\ clock = 0 /\ membership = [a \in Address |-> "none"] /\ epoch = 0
    /\ sock = "open" /\ late = FALSE /\ task = [t \in Task |-> Idle] /\ destroys = {}
    /\ beat = FALSE
    /\ credits = [j \in 1..MaxJobs |-> [q \in Quality |-> 0]] /\ paid = {} /\ booked = {}
    /\ \E c \in Cases :
        /\ port = c.port /\ agent = c.agent /\ budget = c.events
        /\ LET first == NewTemplate(EmptyStore, 0, 0)
           IN  \/ /\ c.from = "connect" /\ sess = Fresh /\ registered = {} /\ told = 0
                  /\ store = first /\ row = "none"
               \/ /\ c.from \in {"mining", "working"}
                  /\ row = IF c.from = "working" THEN "live" ELSE "none"
                  /\ \E a \in Address :
                        /\ sess = Mining(a, c.from = "working") /\ registered = {a}
                        /\ told = InitialDiff
                        /\ store = AddJob(first, FirstJob(c.port, a))

Spend(event) == budget[event] > 0 /\ budget' = [budget EXCEPT ![event] = @ - 1]

-------------------------------------------------------------------------------
(* Sockets and destroy. *)

Writable == sock = "open"

\* A write that fails does not clean up.
Write_Faulty(written) == UNCHANGED destroys

\* write on a socket that was ended or closed runs destroy.
Write(written) == destroys' = IF written THEN destroys ELSE destroys \cup {"bury"}

\* A new run takes the first free place.
Free(t) == task[t] = Idle /\ \A u \in 1..t - 1 : task[u] # Idle

Put(t, record) == task' = [task EXCEPT ![t] = record]
Goto(t, label) == Put(t, [task[t] EXCEPT !.at = label])
Done(t) == Put(t, Idle)

\* A line of the miner: it is read from the socket, or comes from a chunk whose
\* loop was alive when the socket closed.
Line(t, event) == Free(t) /\ (sock # "closed" \/ late) /\ Spend(event)

Looping == \E t \in Task : task[t].line

\* The handler of the close event: a client without a sessionId only loses its
\* listeners.
OnClose ==
    /\ sock' = "closed" /\ late' = Looping
    /\ destroys' = IF sess.started THEN destroys \cup {"bury"} ELSE destroys

Close ==
    /\ sock # "closed" /\ Spend("close") /\ OnClose
    /\ UNCHANGED <<clock, store, world, sess, task, registered, rowvars, told, ghost>>

Ended ==
    /\ sock = "ended" /\ OnClose
    /\ UNCHANGED <<clock, store, world, sess, task, registered, rowvars, told, budget, ghost>>

\* socket.end after an exception in a loop or in a template's handler.
EndSocket == sock' = IF sock = "open" THEN "ended" ELSE sock

\* resetClientsForAddress ends the sockets of an account.
ResetClients(a) ==
    /\ a \in registered /\ Spend("reset")
    /\ EndSocket /\ registered' = registered \ {a}
    /\ UNCHANGED <<clock, store, world, sess, late, task, destroys, rowvars, told, ghost>>

Buried(r) == IF r = "live" THEN "dead" ELSE r

\* destroy up to the end of clientService.delete; the offline notification goes
\* out once, after an online one.
Bury ==
    /\ "bury" \in destroys
    /\ destroys' = (destroys \ {"bury"}) \cup {"release"}
    /\ sess' = [sess EXCEPT !.offline = @ \/ (sess.auth # None /\ sess.online)]
    /\ row' = IF sess.started THEN Buried(row) ELSE row
    /\ UNCHANGED <<clock, store, world, sock, late, task, registered, beat, told,
                   budget, ghost>>

\* The rest of destroy and of a failed write, with no await in it.
Release ==
    /\ "release" \in destroys
    /\ destroys' = destroys \ {"release"}
    /\ registered' = registered \ {sess.auth}
    /\ sess' = [sess EXCEPT !.listening = FALSE, !.ticking = FALSE]
    /\ sock' = "closed" /\ late' = (late \/ sock = "ended")
    /\ UNCHANGED <<clock, store, world, task, rowvars, told, budget, ghost>>

-------------------------------------------------------------------------------
(* Jobs. *)

Route(a) ==
    CASE port = "pplns" -> "pplns"
      [] port # "pplns" /\ a = None -> "devfee"
      [] OTHER -> CASE membership[a] = "party"   -> "blockparty"
                    [] membership[a] = "group"   -> "group-solo"
                    [] membership[a] = "pending" -> "fee"
                    [] OTHER -> "solo"

\* The distribution is there: the job takes the next id, is registered in s and
\* written, all in one turn.  Beside what the store needs it keeps, for the
\* properties, how it came about.
Notify(s, t, call) ==
    LET job == [NoJob EXCEPT !.tmpl = call.tmpl, !.made = clock,
                    !.route = call.route, !.addr = call.addr, !.epoch = call.epoch,
                    !.asked = told, !.clean = told = sess.diff, !.changes = sess.changes,
                    !.late = \/ call.tmpl \notin DOMAIN s.templates
                             \/ s.templates[call.tmpl].retired # Active]
    IN  /\ store' = IF s.nextJob <= MaxJobs THEN AddJob(s, job) ELSE s
        /\ Write(Writable)
        /\ Put(t, IF call.back = "idle" THEN Idle ELSE [call EXCEPT !.at = call.back])

\* sendNewMiningJob: the route is read at once.  PPLNS, Blockparty and Group-Solo
\* wait for their distribution then, the others do not.
SendJob(s, t, call, tmpl, back) ==
    LET sent == [call EXCEPT !.at = "distribution", !.tmpl = tmpl, !.back = back,
                             !.route = Route(sess.auth), !.addr = sess.auth, !.epoch = epoch]
    IN  IF sent.route \in {"pplns", "blockparty", "group-solo"}
        THEN store' = s /\ Put(t, sent) /\ UNCHANGED destroys
        ELSE Notify(s, t, sent)

Distribution(t) ==
    /\ task[t].at = "distribution" /\ Notify(store, t, task[t])
    /\ UNCHANGED <<clock, world, sess, sock, late, registered, rowvars, told, budget, ghost>>

\* There is nobody to pay: the job is skipped.
NoDistribution(t) ==
    /\ task[t].at = "distribution" /\ Spend("empty")
    /\ Put(t, IF task[t].back = "idle" THEN Idle ELSE [task[t] EXCEPT !.at = task[t].back])
    /\ UNCHANGED <<clock, store, world, sess, sock, late, destroys, registered, rowvars,
                   told, ghost>>

Newest == store.nextTemplate - 1

\* Every template empties the list of the hashes that were submitted.
Seen_Faulty(clears) == {}

Seen(clears) == IF clears THEN {} ELSE sess.seen

\* A template is published: the registry is cleaned up and the handler of the
\* session starts, in one turn.
Template(t, tip) ==
    /\ store.nextTemplate <= MaxTemplates /\ Spend("template") /\ Free(t)
    /\ LET published == NewTemplate(store, tip, clock)
       IN  IF sess.listening
           THEN /\ sess' = [sess EXCEPT !.seen = Seen(ClearsJobs(store, tip))]
                /\ SendJob(published, t, Idle, store.nextTemplate, "idle")
           ELSE store' = published /\ UNCHANGED <<sess, task, destroys>>
    /\ UNCHANGED <<clock, world, sock, late, registered, rowvars, told, ghost>>

\* Past MaxTemplates the refresh of every minute goes on, for a session that is
\* closed and still listens, with the newest template.
Refresh(t) ==
    /\ sess.listening /\ sock # "open" /\ Free(t)
    /\ SendJob(store, t, Idle, Newest, "idle")
    /\ UNCHANGED <<clock, world, sess, sock, late, registered, rowvars, told, budget, ghost>>

-------------------------------------------------------------------------------
(* Subscribe, authorize, suggest_difficulty, and the difficulty timer. *)

\* mining.subscribe: the first one makes the session; the answer is written.
Subscribe(t) ==
    /\ Line(t, "subscribe")
    /\ sess' = [sess EXCEPT !.started = TRUE]
    /\ Write(Writable)
    /\ Put(t, [Idle EXCEPT !.at = "welcome", !.line = TRUE])
    /\ UNCHANGED <<clock, store, world, sock, late, registered, rowvars, told, ghost>>

\* initStratum up to recordSessionDifficulty: cpuminer gets the fallback.
InitStratum(t) ==
    /\ task[t].at = "welcome"
    /\ IF sess.init THEN Done(t) /\ UNCHANGED sess
       ELSE /\ sess' = [sess EXCEPT !.init = TRUE,
                            !.diff = IF agent = "cpuminer" THEN Fallback ELSE @]
            /\ Put(t, [task[t] EXCEPT !.at = "announce",
                            !.diff = IF agent = "cpuminer" THEN Fallback ELSE sess.diff])
    /\ UNCHANGED <<clock, store, world, sock, late, destroys, registered, rowvars, told,
                   budget, ghost>>

\* set_difficulty is written, unless the miner has suggested one.
Announce(t) ==
    /\ task[t].at = "announce"
    /\ IF sess.suggested THEN Goto(t, "listen") /\ UNCHANGED <<destroys, told>>
       ELSE /\ Write(Writable) /\ told' = IF Writable THEN task[t].diff ELSE told
            /\ IF Writable THEN Goto(t, "listen") ELSE Done(t)
    /\ UNCHANGED <<clock, store, world, sess, sock, late, registered, rowvars, budget, ghost>>

\* The session subscribes to the templates, is given the newest one at once, and
\* starts its timer.
Listen(t) ==
    /\ task[t].at = "listen"
    /\ sess' = [sess EXCEPT !.listening = TRUE, !.ticking = TRUE]
    /\ SendJob(store, t, [Idle EXCEPT !.line = TRUE], Newest, "idle")
    /\ UNCHANGED <<clock, world, sock, late, registered, rowvars, told, budget, ghost>>

\* mining.authorize
Authorize(t, a) ==
    /\ Line(t, "authorize")
    /\ sess' = [sess EXCEPT !.auth = a] /\ registered' = registered \cup {a}
    /\ Write(Writable)
    /\ Put(t, IF Writable THEN [Idle EXCEPT !.at = "authorized", !.line = TRUE] ELSE Idle)
    /\ UNCHANGED <<clock, store, world, sock, late, rowvars, told, ghost>>

\* An initialised session gets a job for the new address.
Authorized(t) ==
    /\ task[t].at = "authorized"
    /\ IF sess.init THEN SendJob(store, t, task[t], Newest, "online")
       ELSE Goto(t, "online") /\ UNCHANGED <<store, destroys>>
    /\ UNCHANGED <<clock, world, sess, sock, late, registered, rowvars, told, budget, ghost>>

\* The online notification, once.
Online(t) ==
    /\ task[t].at = "online"
    /\ sess' = [sess EXCEPT !.online = TRUE, !.offline = @ /\ sess.online]
    /\ Done(t)
    /\ UNCHANGED <<clock, store, world, sock, late, destroys, registered, rowvars, told,
                   budget, ghost>>

\* An address that is none: the socket is destroyed.
AuthorizeInvalid(t) ==
    /\ Line(t, "authorize") /\ OnClose
    /\ UNCHANGED <<clock, store, world, sess, task, registered, rowvars, told, ghost>>

\* No boundary is remembered for the jobs of the old difficulty.
Change_Faulty(new) == [sess EXCEPT !.diff = new, !.changes = @ + 1]

\* The boundary is one too high.
Change_FaultyBoundary(new) ==
    [sess EXCEPT !.diff = new, !.old = sess.diff, !.boundary = store.nextJob + 1,
                 !.changes = @ + 1]

\* A change of the session difficulty: jobs below boundary keep the old one.
Change(new) ==
    [sess EXCEPT !.diff = new, !.old = sess.diff, !.boundary = store.nextJob,
                 !.changes = @ + 1]

\* A suggestion is taken as it is.
Suggested_Faulty(wanted) == wanted

Suggested(wanted) == Highest(wanted, MinDiff(port))

\* mining.suggest_difficulty, once: the difficulty changes before it is recorded.
Suggest(t, wanted) ==
    /\ Line(t, "suggest")
    /\ ~sess.used
    /\ LET new == Suggested(wanted)
       IN  sess' = [IF new # sess.diff THEN Change(new) ELSE sess
                        EXCEPT !.suggested = TRUE]
    /\ Put(t, [Idle EXCEPT !.at = "suggested", !.line = TRUE])
    /\ UNCHANGED <<clock, store, world, sock, late, destroys, registered, rowvars, told, ghost>>

AnswerSuggest(t) ==
    /\ task[t].at = "suggested"
    /\ Write(Writable) /\ told' = IF Writable THEN sess.diff ELSE told
    /\ sess' = [sess EXCEPT !.used = @ \/ Writable]
    /\ Done(t)
    /\ UNCHANGED <<clock, store, world, sock, late, registered, rowvars, budget, ghost>>

\* checkDifficulty: getSuggestedDifficulty rounds the rate to a step, not below
\* the floor.
Ratchet(t, call, rate) ==
    LET target == NearestStep(rate, MinDiff(port))
    IN  /\ target # sess.diff
        /\ sess' = Change(target)
        /\ Put(t, [call EXCEPT !.at = "ratchet", !.diff = target])

\* The interval of the session runs it.
Check(t, rate) ==
    /\ sess.ticking /\ Free(t) /\ Spend("ratchet")
    /\ Ratchet(t, Idle, rate)
    /\ UNCHANGED <<clock, store, world, sock, late, destroys, registered, rowvars, told, ghost>>

\* Recorded: set_difficulty is written, and a job after it.
Ratcheted(t) ==
    /\ task[t].at = "ratchet"
    /\ IF Writable
       THEN /\ told' = task[t].diff
            /\ SendJob(store, t, task[t], Newest, task[t].back)
       ELSE /\ Write(FALSE) /\ UNCHANGED <<told, store>>
            /\ Put(t, IF task[t].back = "idle" THEN Idle
                      ELSE [task[t] EXCEPT !.at = task[t].back])
    /\ UNCHANGED <<clock, world, sess, sock, late, registered, rowvars, budget, ghost>>

-------------------------------------------------------------------------------
(* Shares. *)

\* effectiveJobDifficulty
EffectiveJobDifficulty(j) ==
    IF sess.boundary # 0 /\ j < sess.boundary THEN Lowest(sess.diff, sess.old) ELSE sess.diff

\* handleMiningSubmission from the test for duplicates to the answer to an
\* accepted share, with no await in it.  What a rejected share is counted under
\* is kept for the answer, which follows after the counting.
Judge(t, j, q) ==
    LET known == j \in DOMAIN store.jobs
        class == Classify(store.jobs[j], clock)
        reject(why) == /\ Put(t, [Idle EXCEPT !.at = "reject", !.why = why, !.job = j,
                                     !.q = q, !.line = TRUE])
                       /\ UNCHANGED <<destroys, credits>>
        diff == EffectiveJobDifficulty(j)
    IN  /\ sess' = [sess EXCEPT !.seen = @ \cup {<<j, q>>}]
        /\ IF <<j, q>> \in sess.seen THEN reject("duplicate")
           ELSE IF ~known THEN reject("unknown")
           ELSE IF class = "stale-rejected" THEN reject("stale")
           ELSE IF store.jobs[j].tmpl \notin DOMAIN store.templates THEN reject("no template")
           ELSE IF q < diff THEN reject("low")
           ELSE /\ Write(Writable)
                /\ credits' = [credits EXCEPT ![j][q] = @ + 1]
                /\ Put(t, [Idle EXCEPT !.at = "credited", !.job = j, !.q = q, !.diff = diff,
                               !.route = store.jobs[j].route, !.addr = store.jobs[j].addr,
                               !.epoch = store.jobs[j].epoch, !.line = TRUE])

Issued == {j \in 1..MaxJobs : j < store.nextJob}

\* mining.submit: one at a time makes the entity, the others wait for it.
Submit(t, j, q) ==
    /\ Line(t, "submit") /\ sess.init /\ sess.auth # None
    /\ IF sess.entity THEN Judge(t, j, q)
       ELSE /\ sess' = [sess EXCEPT !.creating = IF @ = "none" THEN "pending" ELSE @]
            /\ Put(t, [Idle EXCEPT !.at = IF sess.creating = "none" THEN "create" ELSE "await",
                           !.job = j, !.q = q, !.line = TRUE])
            /\ UNCHANGED <<destroys, credits>>
    /\ UNCHANGED <<clock, store, world, sock, late, registered, rowvars, told, paid, booked>>

\* Not subscribed or not authorized.
SubmitEarly(t) ==
    /\ Line(t, "submit") /\ (~sess.init \/ sess.auth = None)
    /\ Write(Writable)
    /\ UNCHANGED <<clock, store, world, sess, sock, late, task, registered, rowvars, told, ghost>>

\* getFirstSeenIfRecent has answered.  insert puts the row into the queue and
\* does not wait for it: the subject it reads has a value already.
Create(t) ==
    /\ task[t].at = "create"
    /\ row' = "queued" /\ sess' = [sess EXCEPT !.entity = TRUE]
    /\ Goto(t, "created")
    /\ UNCHANGED <<clock, store, world, sock, late, destroys, registered, beat, told,
                   budget, ghost>>

Created(t) ==
    /\ task[t].at = "created"
    /\ sess' = [sess EXCEPT !.creating = "done"] /\ Goto(t, "await")
    /\ UNCHANGED <<clock, store, world, sock, late, destroys, registered, rowvars, told,
                   budget, ghost>>

CreateFails(t) ==
    /\ task[t].at = "create" /\ Spend("fault")
    /\ sess' = [sess EXCEPT !.creating = "failed"] /\ Goto(t, "await")
    /\ UNCHANGED <<clock, store, world, sock, late, destroys, registered, rowvars, told, ghost>>

Awaited(t) ==
    /\ task[t].at = "await"
    /\ \/ /\ sess.creating = "done" /\ Judge(t, task[t].job, task[t].q) /\ UNCHANGED sock
       \/ /\ sess.creating = "failed" /\ EndSocket /\ Done(t)
          /\ UNCHANGED <<sess, destroys, credits>>
    /\ UNCHANGED <<clock, store, world, late, registered, rowvars, told, budget, paid, booked>>

\* A rejected share has been counted and is answered; a job without a template is
\* removed first.
Reject(t) ==
    /\ task[t].at = "reject"
    /\ store' = IF task[t].why = "no template"
                THEN [store EXCEPT !.jobs = [j \in DOMAIN @ \ {task[t].job} |-> @[j]]]
                ELSE store
    /\ Write(Writable) /\ Done(t)
    /\ UNCHANGED <<clock, world, sess, sock, late, registered, rowvars, told, budget, ghost>>

\* A share that may be a block goes to bitcoind; only if it is taken is it booked.
SubmitBlock(t) ==
    /\ task[t].at = "credited" /\ task[t].q >= NetDiff
    /\ \E taken \in BOOLEAN : Goto(t, IF taken THEN "booking" ELSE "counting")
    /\ UNCHANGED <<clock, store, world, sess, sock, late, destroys, registered, rowvars, told,
                   budget, ghost>>

\* The port does not override the group.
BookingRoute_Faulty(a) ==
    CASE membership[a] = "party" -> "blockparty"
      [] membership[a] = "group" -> "group-solo"
      [] OTHER -> Route(a)

BookingRoute(a) == Route(a)

\* The route is read again, after the block was saved and announced.
BookBlock(t) ==
    /\ task[t].at = "booking"
    /\ booked' = booked \cup {[built |-> task[t].route, as |-> BookingRoute(sess.auth),
                    moved |-> task[t].epoch # epoch \/ task[t].addr # sess.auth]}
    /\ Goto(t, "counting")
    /\ UNCHANGED <<clock, store, world, sess, sock, late, destroys, registered, rowvars, told,
                   budget, credits, paid>>

\* The share is recorded at the difficulty of the session.
Recorded_Faulty(t) == [q |-> task[t].q, diff |-> sess.diff, n |-> sess.accepted + 1]

Recorded(t) == [q |-> task[t].q, diff |-> task[t].diff, n |-> sess.accepted + 1]

\* The warm-up lets the shares of a PPLNS session into the window that come after it.
RecordShare(t) ==
    /\ \/ task[t].at = "credited" /\ task[t].q < NetDiff
       \/ task[t].at = "counting"
    /\ sess' = [sess EXCEPT !.accepted = @ + 1]
    /\ paid' = IF \/ Route(sess.auth) = "pplns" /\ sess.accepted + 1 > Warmup
                  \/ Route(sess.auth) = "group-solo"
               THEN paid \cup {Recorded(t)} ELSE paid
    /\ Goto(t, "tail")
    /\ UNCHANGED <<clock, store, world, sock, late, destroys, registered, rowvars, told,
                   budget, credits, booked>>

\* Redis fails: the share stays counted and is not recorded.
RecordFails(t) ==
    /\ \/ task[t].at = "credited" /\ task[t].q < NetDiff
       \/ task[t].at = "counting"
    /\ Spend("fault")
    /\ sess' = [sess EXCEPT !.accepted = @ + 1] /\ Done(t)
    /\ UNCHANGED <<clock, store, world, sock, late, destroys, registered, rowvars, told, ghost>>

\* A heartbeat once a minute, then a look at the difficulty for a share of the
\* current one when the interval is over.
Tail(t) ==
    /\ task[t].at = "tail"
    /\ \/ Done(t) /\ UNCHANGED <<sess, beat, budget>>
       \/ beat' = TRUE /\ Spend("beat") /\ Goto(t, "tail") /\ UNCHANGED sess
       \/ /\ task[t].diff = sess.diff /\ Spend("ratchet")
          /\ \E rate \in Rates : Ratchet(t, [Idle EXCEPT !.line = TRUE], rate)
          /\ UNCHANGED beat
    /\ UNCHANGED <<clock, store, world, sock, late, destroys, registered, row, told,
                   ghost>>

-------------------------------------------------------------------------------
(* The row of the worker (client.service.ts, app.service.ts). *)

RowStep ==
    UNCHANGED <<clock, store, world, sess, sock, late, task, destroys, registered, told, ghost>>

\* insertClients, every five seconds.
InsertClients == row = "queued" /\ row' = "live" /\ UNCHANGED <<beat, budget>> /\ RowStep

\* Nobody waits for the error any more: the session goes on without a row.
InsertFails == row = "queued" /\ Spend("fault") /\ row' = "lost" /\ UNCHANGED beat /\ RowStep

\* flushHeartbeats takes deletedAt off the row, whatever set it.
FlushHeartbeats ==
    /\ beat /\ beat' = FALSE
    /\ row' = IF row = "dead" THEN "live" ELSE row
    /\ UNCHANGED budget /\ RowStep

\* Only the rows of sessions that are still open.
KillDeadClients_Faulty ==
    row = "live" /\ sock = "open" /\ row' = "dead" /\ UNCHANGED <<beat, budget>> /\ RowStep

\* killDeadClients, every two minutes: nothing has updated the row for five.
KillDeadClients ==
    /\ row = "live" /\ row' = "dead" /\ UNCHANGED beat /\ RowStep
    /\ IF sock = "open" THEN Spend("kill") ELSE UNCHANGED budget

\* deleteOldClients, a day later.
DeleteOldClients ==
    row = "dead" /\ Spend("purge") /\ row' = "none" /\ UNCHANGED beat /\ RowStep

\* The process starts again: what was in memory is gone, deleteAll marks the rows.
Restart ==
    /\ Spend("restart")
    /\ sock' = "closed" /\ late' = FALSE /\ task' = [t \in Task |-> Idle] /\ destroys' = {}
    /\ sess' = [sess EXCEPT !.listening = FALSE, !.ticking = FALSE, !.auth = None,
                            !.boundary = 0]
    /\ registered' = {} /\ beat' = FALSE
    /\ row' = IF row = "queued" THEN "none" ELSE Buried(row)
    /\ store' = EmptyStore
    /\ UNCHANGED <<clock, world, told, ghost>>

-------------------------------------------------------------------------------
(* The world. *)

Tick ==
    /\ Spend("tick") /\ clock' = clock + 1
    /\ UNCHANGED <<store, world, sess, sock, late, task, destroys, registered, rowvars, told,
                   ghost>>

Move(a, k) ==
    /\ Spend("move") /\ k # membership[a]
    /\ membership' = [membership EXCEPT ![a] = k] /\ epoch' = epoch + 1
    /\ UNCHANGED <<clock, store, port, agent, sess, sock, late, task, destroys, registered,
                   rowvars, told, ghost>>

Resume(t) ==
    \/ InitStratum(t) \/ Announce(t) \/ Listen(t) \/ Authorized(t) \/ Online(t)
    \/ AnswerSuggest(t) \/ Ratcheted(t) \/ Distribution(t) \/ Refresh(t)
    \/ Create(t) \/ Created(t) \/ Awaited(t) \/ Reject(t)
    \/ SubmitBlock(t) \/ BookBlock(t) \/ RecordShare(t) \/ Tail(t)

Message(t) ==
    \/ Subscribe(t) \/ AuthorizeInvalid(t) \/ SubmitEarly(t)
    \/ \E a \in Address : Authorize(t, a)
    \/ \E r \in Rates : Suggest(t, r)
    \/ \E j \in Issued, q \in Quality : Submit(t, j, q)

Timed(t) ==
    \/ \E tip \in {store.tip, store.tip + 1} : Template(t, tip)
    \/ \E r \in Rates : Check(t, r)

Faults(t) == NoDistribution(t) \/ CreateFails(t) \/ RecordFails(t)

Rows ==
    \/ InsertClients \/ InsertFails \/ FlushHeartbeats \/ KillDeadClients
    \/ DeleteOldClients

Next ==
    \/ \E t \in Task : Resume(t) \/ Message(t) \/ Timed(t) \/ Faults(t)
    \/ Close \/ Ended \/ Bury \/ Release \/ Rows \/ Restart \/ Tick
    \/ \E a \in Address : ResetClients(a)
    \/ \E a \in Address, k \in Kinds : Move(a, k)

\* Promises are settled, sockets close, and the intervals run.
Fairness ==
    /\ \A t \in Task : WF_vars(Resume(t))
    /\ WF_vars(Ended) /\ WF_vars(Bury) /\ WF_vars(Release)
    /\ WF_vars(InsertClients) /\ WF_vars(FlushHeartbeats) /\ WF_vars(KillDeadClients)

Spec == Init /\ [][Next]_vars /\ Fairness

-------------------------------------------------------------------------------
(* Properties. *)

Labels == {"idle", "distribution", "welcome", "announce", "listen", "authorized", "online",
           "suggested", "ratchet", "create", "created", "await", "reject", "credited",
           "booking", "counting", "tail"}

\* Every variable has the values its comment names.
TypeOK ==
    /\ clock \in Nat /\ [port |-> port, agent |-> agent] \in [port : {"solo", "pplns"}, agent : {"asic", "cpuminer"}]
    /\ membership \in [Address -> Kinds] /\ epoch \in Nat
    /\ sess.auth \in Address \cup {None} /\ sess.accepted \in Nat
    /\ sess.creating \in {"none", "pending", "done", "failed"}
    /\ sess.diff \in Nat /\ sess.old \in Nat /\ sess.boundary \in 0..store.nextJob
    /\ sock \in {"open", "ended", "closed"} /\ late \in BOOLEAN
    /\ \A t \in Task : task[t].at \in Labels /\ (task[t].at = "idle" => task[t] = Idle)
    /\ destroys \subseteq {"bury", "release"} /\ registered \subseteq Address
    /\ row \in {"none", "queued", "live", "dead", "lost"} /\ beat \in BOOLEAN

\* A share is judged by no more than the miner was asked for when it got the job,
\* if the job was not sent between a change of the difficulty and its
\* announcement, and the difficulty has changed at most once since
\* (effectiveJobDifficulty remembers one change).
FairTarget ==
    \A j \in DOMAIN store.jobs :
        store.jobs[j].clean /\ sess.changes <= store.jobs[j].changes + 1
            => EffectiveJobDifficulty(j) <= store.jobs[j].asked

\* What is recorded with a ledger never exceeds what the hash of the share proves,
\* and of a PPLNS session only what comes after the warm-up.
LedgerIsProven ==
    \A p \in paid : p.diff <= p.q /\ (port = "pplns" => p.n > Warmup)

\* The types, and: vardiff, suggestions and the initial difficulty respect the
\* floor of the PPLNS port (cpuminer's fallback does not), and the ledgers record
\* proven work only.
SessionSound ==
    /\ TypeOK
    /\ port = "pplns" /\ agent # "cpuminer" => sess.diff >= Floor
    /\ LedgerIsProven

\* A block is booked with the scheme its coinbase pays, unless the membership or
\* the authorized address changed after the job was built.
BookedAsBuilt ==
    \A b \in booked : b.moved \/ b.as = b.built

\* The same work is credited again only after a block change has retired its job:
\* the list of hashes is emptied in the turn that retires the jobs.
WorkCreditedOnce ==
    [][\A j \in 1..MaxJobs, q \in Quality :
          credits'[j][q] > credits[j][q] /\ credits[j][q] > 0
            => store.jobs[j].retired # Active]_vars

\* Work on a template that has been retired for longer than the grace time is
\* credited only if its job was registered after the block change: such a job is
\* not stamped (sendNewMiningJob awaits the distribution before addJob).
LateWorkBounded ==
    [][\A j \in DOMAIN store.jobs : \A q \in Quality :
          credits'[j][q] > credits[j][q] /\ ~store.jobs[j].late
            => LET tmpl == store.templates[store.jobs[j].tmpl]
               IN  tmpl.retired = Active \/ clock - tmpl.retired <= Grace]_vars

\* A session whose socket is closed stops listening to templates, stops its timer
\* and is no longer registered under its address.
Released ==
    /\ ~sess.listening /\ ~sess.ticking
    /\ sess.started => sess.auth \notin registered

\* Of a closed session nothing is left: what a handler that was suspended sets up
\* after destroy is torn down again, and the worker's row is shown as online for a
\* while at most: the insert and the heartbeats that come after destroy are undone
\* by killDeadClients.
SessionIsForgotten == <>[](sock = "closed" => Released /\ row # "live")

\* What the session keeps of its job, its target and the ledger agrees with what
\* the miner was told, at every await of every handler.
SessionHolds == SessionSound /\ FairTarget

\* A share is credited once, and late work for as long as the store's grace allows.
WorkCounts == WorkCreditedOnce /\ LateWorkBounded
===============================================================================
