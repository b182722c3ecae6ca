--------------------------- MODULE StratumV2Session ---------------------------
(***************************************************************************)
(* One Stratum V2 mining connection (StratumV2Client.ts) with its channels,*)
(* between the shared job registry, the template distribution service, the *)
(* extranonce manager and the payout services.                             *)
(*                                                                         *)
(* A task is one run of an asynchronous function: the handler of a frame,  *)
(* of a template, of the difficulty timer.  The frames of a connection are *)
(* not handled one after another: the data listener starts each handler    *)
(* and none waits for another, so tasks interleave at every await.  `at'   *)
(* is the await a task is suspended in.  A handler keeps the channel object*)
(* it looked up, so chan holds the state of closed channels too.  What is  *)
(* written after destroy, or to a dead socket, is dropped without an error.*)
(*                                                                         *)
(* Of the miner the model keeps the target it was told and, for each job,  *)
(* the previous block it hashes (the fields told, tip and mined): a job    *)
(* that is not a future one is hashed on the last SetNewPrevHash.  A share *)
(* is the difficulty q its hash meets; hashed on another previous block    *)
(* than the one the pool puts into the header it meets nothing.            *)
(*                                                                         *)
(* Left out: noise and framing, the bytes of coinbases and headers, the    *)
(* answers to messages, statistics, notifications, the worker's row (see   *)
(* StratumV1Session), the second address a connection may name, which is   *)
(* refused, and the set of hashes being emptied when it reaches 10000.     *)
(* Hash rates, and what vardiff suggests, are any of a set.                 *)
(*                                                                         *)
(* An operator whose name ends in _Faulty is a broken variant of the       *)
(* definition below it and is used by nothing.                             *)
(***************************************************************************)
EXTENDS JobStore, Sequences, TLC

CONSTANTS
    Tasks,          \* bound: asynchronous runs at a time
    MaxChannels,    \* bound: channel ids
    MaxPrefix,      \* size of the space of extranonce prefixes
    InitialDiff, Floor, Ceiling,    \* initialDifficulty, minimumDifficulty of the
                    \* PPLNS port, MAX_REASONABLE_DIFFICULTY
    Warmup,         \* ledgerWarmupShares
    Quality, NetDiff,
    MaxTemplates, MaxJobs,  \* bounds
    Cases           \* bounds: port, services, first channels, events of a behaviour, the
                    \* difficulties that hash rates call for and that miners declare
                    \* as their maximum target

VARIABLES
    clock,
    store,      \* the registry of jobs and templates
    tmpls,      \* every template ever published: tip, clearJobs, content
    turned,     \* ghost: turned[tip]: when the tip was replaced
    env,        \* port, whether the template distribution service is there, rates
    jdp,        \* a job declaration connection from this IP exists
    scheme,     \* the payout scheme the address gets now
    conn,       \* the fields of StratumV2Client
    channels,   \* this.channels: the ids of the open channels
    chan,       \* every channel object
    subs,       \* live subscriptions to the templates
    used,       \* usedPrefixes of the extranonce manager
    sock,       \* "open" or "closed"
    task,
    destroys,   \* stages of destroy that are still to run
    budget,     \* events that may still happen
    credits,    \* ghost: how often the work <<channel, job, q>> was credited
    paid        \* ghost: what was recorded with the PPLNS or the group ledger

ghost == <<credits, paid>>
world == <<env, jdp, scheme>>
base == <<clock, store, tmpls, turned>>
vars == <<base, world, conn, channels, chan, subs, used, sock, task, destroys, budget, ghost>>

Task == 1..Tasks
Channel == 1..MaxChannels
Job == 1..MaxJobs
Port == {"solo", "pplns"}
Schemes == {"pplns", "group-solo", "blockparty", "fee", "solo"}

Empty == [x \in {} |-> 0]
With(f, x, v) == [y \in DOMAIN f \cup {x} |-> IF y = x THEN v ELSE f[y]]
Highest(a, b) == IF a >= b THEN a ELSE b
Least(S) == CHOOSE x \in S : \A y \in S : x <= y
Greatest(S) == CHOOSE x \in S : \A y \in S : x >= y

None == [tmpl |-> 0]
Idle == [at |-> "idle", c |-> 0, why |-> "none", tmpl |-> 0, built |-> 0, prev |-> FALSE,
         first |-> FALSE, jd |-> FALSE, route |-> "none", job |-> 0, q |-> 0,
         diff |-> 0, entry |-> None]

Nowhere == -1       \* a future job, or one before any SetNewPrevHash, is hashed on nothing

\* The last five fields are ghosts: the channel was sent a job while another one, or
\* the broadcast of another template, was on its way to it, or a job of a template
\* that was replaced, or it missed one; a SetNewPrevHash named a job that was not its
\* newest; the ids that a pool job and a custom job share; a block change did not
\* retire its extended jobs; its last UpdateChannel was ignored.
NoChannel == [kind |-> "none", jd |-> FALSE, prefix |-> 0, diff |-> 0, max |-> 0,
              jobDiff |-> Empty, roots |-> {}, ext |-> Empty, latest |-> 0, seen |-> {},
              sig |-> <<0, "none">>,
              told |-> 0, asked |-> Empty, tip |-> Nowhere, mined |-> Empty, last |-> 0,
              raced |-> FALSE, misnamed |-> FALSE, shared |-> {}, kept |-> FALSE,
              ignored |-> FALSE]

\* leaky and refused are ghosts: see Orphan and Refuse.
Fresh == [workSel |-> FALSE, diff |-> InitialDiff, primary |-> 0, next |-> 1, prefix |-> 1,
          sub |-> 0, nsub |-> 0, timer |-> FALSE, registered |-> FALSE, creating |-> "none",
          entity |-> FALSE, accepted |-> 0, custom |-> 1, destroyed |-> FALSE,
          leaky |-> FALSE, refused |-> {}]

ASSUME SessionAssumption ==
    /\ Tasks \in Nat /\ MaxChannels \in Nat /\ MaxPrefix \in Nat \ {0}
    /\ Warmup \in Nat /\ Floor \in Nat /\ Ceiling \in Nat /\ Ceiling > Floor
    /\ InitialDiff \in Nat \ {0} /\ InitialDiff >= Floor
    /\ Quality \subseteq Nat
    /\ \A c \in Cases :
        /\ c.port \in Port /\ c.rates \subseteq Nat \ {0} /\ c.limits \subseteq Nat
        /\ c.open \in Seq({"standard", "extended"})
        /\ Len(c.open) <= MaxChannels /\ Len(c.open) <= MaxPrefix

\* The nth job of its channel, as the creation times order them.
ExtJob(tmpl, built, prev, route, n) ==
    [tmpl |-> tmpl, built |-> built, prev |-> prev, made |-> clock, retired |-> Active,
     late |-> prev # store.tip, route |-> route, nth |-> n]

After(ext) == 1 + Greatest({0} \cup {ext[j].nth : j \in DOMAIN ext})

\* The state of channel c, with job c of template 1, when its opening was left
\* alone.
Opened(kind, c, route) ==
    LET job == [tmpl |-> 1, built |-> 1, prev |-> 0, made |-> 0, retired |-> Active,
                late |-> FALSE, route |-> route, nth |-> 1]
    IN  [NoChannel EXCEPT
            !.kind = kind, !.diff = InitialDiff, !.jobDiff = With(Empty, c, InitialDiff),
            !.prefix = IF kind = "extended" THEN c ELSE 0,
            !.roots = IF kind = "standard" THEN {c} ELSE {},
            !.ext = IF kind = "extended" THEN With(Empty, c, job) ELSE Empty,
            !.sig = <<1, route>>, !.told = InitialDiff,
            !.asked = With(Empty, c, {InitialDiff}), !.tip = 0, !.mined = With(Empty, c, 0),
            !.last = c]

Started(n, kinds) ==
    [Fresh EXCEPT !.primary = 1, !.next = n + 1, !.prefix = n + 1, !.sub = 1, !.nsub = 1,
                  !.timer = TRUE, !.registered = TRUE, !.creating = "done", !.entity = TRUE,
                  !.accepted = Warmup]

StoreJob(built, route) ==
    [tmpl |-> built, made |-> clock, retired |-> Active, route |-> route]

\* A behaviour starts after SetupConnection, or in the state after some channels
\* were opened one after another.
Init ==
    /\ clock = 0 /\ jdp = FALSE /\ turned = Empty
    /\ tmpls = << [tip |-> 0, clears |-> FALSE, content |-> 1] >>
    /\ sock = "open" /\ task = [t \in Task |-> Idle] /\ destroys = {}
    /\ credits = Empty /\ paid = {}
    /\ \E k \in Cases :
        /\ env = [port |-> k.port, tdp |-> k.tdp, rates |-> k.rates, limits |-> k.limits]
        /\ budget = k.events
        /\ scheme = IF k.port = "pplns" THEN "pplns" ELSE "solo"
        /\ LET n == Len(k.open)
               first == NewTemplate(EmptyStore, 0, 0)
               job == [tmpl |-> 1, made |-> 0, retired |-> Active, route |-> scheme]
           IN  /\ conn = IF n = 0 THEN Fresh ELSE Started(n, k.open)
               /\ channels = 1..n
               /\ chan = [c \in Channel |->
                            IF c <= n THEN Opened(k.open[c], c, scheme) ELSE NoChannel]
               /\ store = [first EXCEPT !.jobs = [j \in 1..n |-> job], !.nextJob = n + 1]
               /\ subs = IF n = 0 THEN {} ELSE {[id |-> 1, clear |-> k.open[1] = "extended"]}
               /\ used = {c \in 1..n : k.open[c] = "extended"}

Spend(event) == budget[event] > 0 /\ budget' = [budget EXCEPT ![event] = @ - 1]

-------------------------------------------------------------------------------
(* Sockets, tasks, frames. *)

Writable == sock = "open" /\ ~conn.destroyed

Free(t) == task[t] = Idle /\ \A u \in 1..t - 1 : task[u] # Idle
Put(t, record) == task' = [task EXCEPT ![t] = record]
Goto(t, label) == Put(t, [task[t] EXCEPT !.at = label])
Done(t) == Put(t, Idle)

Frame(t, event) == Free(t) /\ sock = "open" /\ ~conn.destroyed /\ Spend(event)

Sending == {"payout", "sent", "prev"}
Newest == Len(tmpls)

\* The socket is closed by the miner or by destroySocket; the close event runs
\* destroy.
CloseSocket == sock' = "closed" /\ destroys' = destroys \cup {"bury"}

Disconnect ==
    /\ sock = "open" /\ Spend("disconnect") /\ CloseSocket
    /\ UNCHANGED <<base, world, conn, channels, chan, subs, used, task, ghost>>

\* An await of a handler is rejected, a write that was under way when the socket was
\* closed or a read of the distribution.  The handler ends, and its frame or its
\* subscription destroys the socket.
Rejected(t) ==
    /\ \/ /\ sock = "closed" /\ task[t].at \in {"success", "sent", "prev", "targets"}
          /\ UNCHANGED <<sock, destroys, budget>>
       \/ /\ task[t].at = "payout" /\ task[t].route \in {"pplns", "group-solo", "blockparty"}
          /\ Spend("fault") /\ CloseSocket
    /\ Done(t)
    /\ UNCHANGED <<base, world, conn, channels, chan, subs, used, ghost>>

\* Ghost: a first channel is still being opened; the subscription that follows is
\* not released.
Orphan == \E t \in Task : task[t].why = "open" /\ task[t].first

\* destroy: the notification and the row's deletion are awaited first.
Bury ==
    /\ "bury" \in destroys
    /\ conn' = [conn EXCEPT !.destroyed = TRUE]
    /\ destroys' = (destroys \ {"bury"}) \cup (IF conn.destroyed THEN {} ELSE {"release"})
    /\ UNCHANGED <<base, world, channels, chan, subs, used, sock, task, budget, ghost>>

Prefixes(ids) == {chan[c].prefix : c \in {d \in ids : chan[d].kind = "extended"}}

Release ==
    /\ "release" \in destroys /\ destroys' = destroys \ {"release"}
    /\ conn' = [conn EXCEPT !.registered = FALSE, !.sub = 0, !.timer = FALSE, !.primary = 0,
                            !.leaky = @ \/ Orphan]
    /\ subs' = {s \in subs : s.id # conn.sub}
    /\ used' = used \ Prefixes(channels)
    /\ channels' = {}
    /\ UNCHANGED <<base, world, chan, sock, task, budget, ghost>>

-------------------------------------------------------------------------------
(* Sending jobs. *)

\* Another send to the channel, or a broadcast that has not reached it, is under way
\* and not for the same template.
Overlaps(t, c, call) ==
    \E u \in Task \ {t} :
        /\ task[u].at \in Sending
        /\ task[u].c = c \/ (task[u].why # "open" /\ task[u].c < c)
        /\ ~(task[u].why = "publish" /\ call.why = "publish" /\ task[u].tmpl = call.tmpl)

\* sendNewMiningJob and sendNewExtendedMiningJobFromTemplate up to the await of the
\* distribution.  Extended jobs are made of the newest template of the template
\* distribution service, if there is one.
StartSend(t, ch, c, call, newest) ==
    [chan |-> [ch EXCEPT ![c].raced = @ \/ call.tmpl # newest \/ Overlaps(t, c, call)],
     call |-> [call EXCEPT
                !.at = "payout", !.c = c, !.route = scheme,
                !.built = IF ch[c].kind = "extended" /\ env.tdp THEN newest ELSE call.tmpl]]

Missed(ch, S) == [c \in Channel |-> [ch[c] EXCEPT !.raced = @ \/ c \in S]]

\* cleanupRetiredExtendedJobs: custom jobs count with the others.
Kept(ext) ==
    {j \in DOMAIN ext : \/ Cardinality({k \in DOMAIN ext : ext[k].nth > ext[j].nth}) < MinRetained
                        \/ ~Spent(ext[j], clock)}

CleanupExt(ch) ==
    [c \in Channel |-> IF c \in channels THEN [ch[c] EXCEPT !.ext = [j \in Kept(@) |-> @[j]]]
                      ELSE ch[c]]

\* Only the primary channel is fed.
Broadcast_Faulty(t, ch, call, after, newest) ==
    IF conn.primary \notin channels \/ after # 0 THEN [chan |-> ch, call |-> Idle]
    ELSE StartSend(t, ch, conn.primary, call, newest)

\* broadcastNewJobToAllChannels from the channel after `after': channels of a job
\* declaration client, also of one that is noticed only now, are left out.
Broadcast(t, ch, call, after, newest) ==
    LET rest == {c \in channels : c > after}
        noticed == [c \in Channel |->
                      IF c \in rest /\ jdp THEN [ch[c] EXCEPT !.jd = TRUE] ELSE ch[c]]
        fed == {c \in rest : ~noticed[c].jd}
    IN  IF conn.workSel /\ after = 0
        THEN [chan |-> CleanupExt(Missed(ch, channels)), call |-> Idle]
        ELSE IF fed = {} THEN [chan |-> CleanupExt(noticed), call |-> Idle]
        ELSE StartSend(t, noticed, Least(fed), call, newest)

\* Extended jobs are never retired.
Cleared_Faulty(ch, clear) ==
    [c \in Channel |->
        IF c \notin channels THEN ch[c]
        ELSE [ch[c] EXCEPT !.seen = {}, !.roots = {}, !.jobDiff = Empty]]

\* What the handler of a template with clearJobs does before it broadcasts.
Cleared(ch, clear) ==
    [c \in Channel |->
        IF c \notin channels THEN [ch[c] EXCEPT !.kept = TRUE]
        ELSE [ch[c] EXCEPT !.seen = {}, !.roots = {}, !.jobDiff = Empty,
                           !.ext = IF clear THEN Retire(@, clock) ELSE @,
                           !.kept = @ \/ ~clear]]

\* The previous subscription is forgotten and stays alive.
Subscribed_Faulty(clear) == subs \cup {[id |-> conn.nsub + 1, clear |-> clear]}

Subscribed(clear) ==
    {s \in subs : s.id # conn.sub} \cup {[id |-> conn.nsub + 1, clear |-> clear]}

\* setupJobSubscriptionAndDifficultyInterval: the new subscription gets the newest
\* template at once, with the clearJobs it was published with.
Setup(t, ch, clear) ==
    LET clears == tmpls[Newest].clears
        replay == Broadcast(t, IF clears THEN Cleared(ch, clear) ELSE ch,
                            [Idle EXCEPT !.why = "replay", !.tmpl = Newest, !.prev = clears],
                            0, Newest)
    IN  /\ subs' = Subscribed(clear)
        /\ conn' = [conn EXCEPT !.sub = conn.nsub + 1, !.nsub = @ + 1, !.timer = TRUE]
        /\ chan' = replay.chan /\ Put(t, replay.call)

\* What follows a send: the end of the opening, or the next channel.
Proceed(t, ch) ==
    IF task[t].why = "open"
    THEN IF task[t].first THEN Setup(t, ch, ch[task[t].c].kind = "extended")
         ELSE chan' = ch /\ Done(t) /\ UNCHANGED <<conn, subs>>
    ELSE LET next == Broadcast(t, ch, task[t], task[t].c, Newest)
         IN  chan' = next.chan /\ Put(t, next.call) /\ UNCHANGED <<conn, subs>>

\* The distribution is there: byte-identical work is suppressed, unless it comes
\* with a SetNewPrevHash.
Payout(t) ==
    LET c == task[t].c
        j == store.nextJob
        sig == <<tmpls[task[t].built].content, task[t].route>>
        written == [chan[c] EXCEPT
                        !.sig = sig,
                        !.asked = IF Writable THEN With(@, j, {chan[c].told}) ELSE @,
                        !.mined = IF Writable
                                  THEN With(@, j, IF task[t].prev THEN Nowhere ELSE chan[c].tip)
                                  ELSE @,
                        !.last = IF Writable THEN j ELSE @,
                        !.shared = @ \cup ({j} \cap DOMAIN chan[c].asked)]
    IN  /\ task[t].at = "payout"
        /\ IF ~task[t].prev /\ chan[c].sig = sig
           THEN Proceed(t, chan) /\ UNCHANGED store
           ELSE /\ j \in Job
                /\ store' = AddJob(store, StoreJob(task[t].built, task[t].route))
                /\ chan' = [chan EXCEPT ![c] = written]
                /\ Put(t, [task[t] EXCEPT !.at = "sent", !.job = j])
                /\ UNCHANGED <<conn, subs>>
        /\ UNCHANGED <<clock, tmpls, turned, world, channels, used, sock, destroys, budget,
                       ghost>>

\* There is nobody to pay: the job is skipped.
NoDistribution(t) ==
    /\ task[t].at = "payout" /\ scheme \in {"pplns", "group-solo", "blockparty"}
    /\ Spend("empty")
    /\ Proceed(t, [chan EXCEPT ![task[t].c].raced = @ \/ task[t].prev])
    /\ UNCHANGED <<base, world, channels, used, sock, destroys, ghost>>

\* The job is recorded with the previous block of the job before it.
PrevHash_Faulty(t) == chan[task[t].c].latest

\* latestExtendedPrevHash is set when a SetNewPrevHash follows, and kept otherwise.
PrevHash(t) ==
    IF task[t].prev THEN tmpls[task[t].built].tip ELSE chan[task[t].c].latest

\* The job is recorded when its frame was written, and a SetNewPrevHash follows it
\* if the job was a future one.
Sent(t) ==
    LET c == task[t].c
        j == task[t].job
        tip == tmpls[task[t].built].tip
        extended == chan[c].kind = "extended"
        named == task[t].prev /\ Writable
        recorded ==
            [chan[c] EXCEPT
                !.jobDiff = With(@, j, chan[c].diff),
                !.roots = IF extended THEN @ ELSE @ \cup {j},
                !.ext = IF extended
                        THEN With(@, j, ExtJob(task[t].tmpl, task[t].built, PrevHash(t), task[t].route,
                                              After(@)))
                        ELSE @,
                !.latest = IF extended THEN PrevHash(t) ELSE @,
                !.tip = IF named THEN tip ELSE @,
                !.mined = IF named THEN With(@, j, tip) ELSE @,
                !.misnamed = @ \/ (named /\ ~chan[c].raced /\ chan[c].last # j)]
        next == [chan EXCEPT ![c] = recorded]
    IN  /\ task[t].at = "sent"
        /\ IF task[t].prev THEN chan' = next /\ Goto(t, "prev") /\ UNCHANGED <<conn, subs>>
           ELSE Proceed(t, next)
        /\ UNCHANGED <<base, world, channels, used, sock, destroys, budget, ghost>>

Prevd(t) ==
    /\ task[t].at = "prev" /\ Proceed(t, chan)
    /\ UNCHANGED <<base, world, channels, used, sock, destroys, budget, ghost>>

\* A template is published: the registry is cleaned up, the distribution service
\* stores it, and every subscription starts its handler, in one turn.
Publish(tip, same) ==
    LET clears == ClearsJobs(store, tip)
        id == Newest + 1
        content == IF same THEN tmpls[Newest].content ELSE id
        free == {t \in Task : task[t] = Idle}
        run == CHOOSE f \in [subs -> free] : \A r, s \in subs : f[r] = f[s] => r = s
        started == IF clears /\ subs # {} THEN Cleared(chan, \E s \in subs : s.clear) ELSE chan
        call == [Idle EXCEPT !.why = "publish", !.tmpl = id, !.prev = clears]
        first == Broadcast(0, started, call, 0, id)
        missed == {c \in channels : subs = {} /\ (chan[c].last # 0 \/
                     \E t \in Task : task[t].c = c /\ task[t].at \in Sending)}
    IN  /\ id <= MaxTemplates /\ (same => tip = store.tip) /\ Spend("template")
        /\ Cardinality(free) >= Cardinality(subs)
        /\ store' = NewTemplate(store, tip, clock)
        /\ tmpls' = Append(tmpls, [tip |-> tip, clears |-> clears, content |-> content])
        /\ turned' = IF clears THEN With(turned, store.tip, clock) ELSE turned
        /\ IF subs = {}
           THEN /\ chan' = [c \in Channel |-> [Missed(chan, missed)[c] EXCEPT !.kept = @ \/ clears]]
                /\ UNCHANGED task
           ELSE /\ chan' = first.chan
                /\ task' = [t \in Task |-> IF \E s \in subs : run[s] = t THEN first.call
                                           ELSE task[t]]
        /\ UNCHANGED <<clock, world, conn, channels, subs, used, sock, destroys, ghost>>

-------------------------------------------------------------------------------
(* Opening, updating and closing channels. *)

\* SetupConnection: the miner says whether it selects its work.
SetupConnection(t, selects) ==
    /\ Frame(t, "setup")
    /\ conn' = [conn EXCEPT !.workSel = selects]
    /\ UNCHANGED <<base, world, channels, chan, subs, used, sock, task, destroys, ghost>>

\* A version or an address that is none: the socket is destroyed.
Unacceptable(t) ==
    /\ Frame(t, "setup") /\ CloseSocket
    /\ UNCHANGED <<base, world, conn, channels, chan, subs, used, task, ghost>>

\* The declared maximum target is the floor of what the miner gets.
Granted_Faulty(rate, limit) == Highest(rate, limit)

\* The difficulty of a hash rate, not below that of the declared maximum target and
\* not below the floor of the port.
Granted(rate, limit) ==
    Highest(Highest(rate, limit), IF env.port = "pplns" THEN Floor ELSE 0)

\* The next prefix of the manager that is not in use.
NextPrefix ==
    LET after(p) == (p + MaxPrefix - conn.prefix) % MaxPrefix
        free == (1..MaxPrefix) \ used
    IN  CHOOSE p \in free : \A o \in free : after(p) <= after(o)

Exhausted == used = 1..MaxPrefix

\* OpenStandardMiningChannel and OpenExtendedMiningChannel.  The first channel
\* registers the connection and makes the row; the success of the others is
\* written at once.
Open(t, kind, rate, limit) ==
    LET c == conn.next
        diff == Granted(rate, limit)
        first == channels = {}
        extended == kind = "extended"
        jd == extended /\ jdp
        opened == [NoChannel EXCEPT
                    !.kind = kind, !.jd = jd, !.diff = diff, !.max = limit,
                    !.prefix = IF extended THEN NextPrefix ELSE 0,
                    !.told = IF first THEN 0 ELSE diff]
    IN  /\ c \in Channel /\ Frame(t, "open") /\ ~(extended /\ Exhausted) /\ diff <= Ceiling
        /\ channels' = channels \cup {c}
        /\ chan' = [chan EXCEPT ![c] = opened]
        /\ used' = IF extended THEN used \cup {NextPrefix} ELSE used
        /\ conn' = [conn EXCEPT
                     !.next = c + 1,
                     !.prefix = IF extended THEN (NextPrefix % MaxPrefix) + 1 ELSE @,
                     !.diff = IF first THEN diff ELSE @,
                     !.primary = IF first THEN c ELSE @,
                     !.registered = @ \/ first,
                     !.creating = IF first /\ @ = "none" THEN "pending" ELSE @]
        /\ Put(t, [Idle EXCEPT !.why = "open", !.c = c, !.first = first, !.jd = jd,
                     !.at = IF ~first THEN "success"
                            ELSE IF conn.creating = "none" THEN "create" ELSE "entity"])
        /\ UNCHANGED <<base, world, subs, sock, destroys, ghost>>

\* An absurd difficulty is refused: the prefix of an extended channel was allocated
\* before the test and stays allocated.
Refuse(t, kind) ==
    /\ Frame(t, "refuse") /\ ~Exhausted
    /\ IF kind = "extended"
       THEN /\ used' = used \cup {NextPrefix}
            /\ conn' = [conn EXCEPT !.prefix = (NextPrefix % MaxPrefix) + 1,
                                    !.refused = @ \cup {NextPrefix}]
       ELSE UNCHANGED <<used, conn>>
    /\ UNCHANGED <<base, world, channels, chan, subs, sock, task, destroys, ghost>>

\* The space of prefixes is exhausted: the handler throws.
NoPrefix(t) ==
    /\ Frame(t, "open") /\ Exhausted /\ CloseSocket
    /\ UNCHANGED <<base, world, conn, channels, chan, subs, used, task, ghost>>

\* ensureEntity: whoever comes first makes the row, and an error leaves the
\* connection without one; the others wait.
Create(t) ==
    /\ task[t].at = "create"
    /\ \/ conn' = [conn EXCEPT !.creating = "done", !.entity = TRUE] /\ UNCHANGED budget
       \/ conn' = [conn EXCEPT !.creating = "done"] /\ Spend("fault")
    /\ Goto(t, "entity")
    /\ UNCHANGED <<base, world, channels, chan, subs, used, sock, destroys, ghost>>

\* A target is written to channel c.
Target(ch, c, diff) ==
    [ch EXCEPT ![c].diff = diff,
               ![c].told = IF Writable THEN diff ELSE @,
               ![c].asked = IF Writable THEN [j \in DOMAIN @ |-> @[j] \cup {diff}] ELSE @]

\* The success of a first channel is written.
Entity(t) ==
    LET c == task[t].c
    IN  /\ task[t].at = "entity" /\ conn.creating = "done"
        /\ chan' = Target(chan, c, chan[c].diff)
        /\ Goto(t, "success")
        /\ UNCHANGED <<base, world, conn, channels, subs, used, sock, destroys, budget, ghost>>

\* The initial job is sent, except to a first extended channel that selects its
\* work; a channel that was closed meanwhile gets none.
Success(t) ==
    LET c == task[t].c
        call == [task[t] EXCEPT !.tmpl = Newest, !.prev = TRUE]
        start == StartSend(t, chan, c, call, Newest)
    IN  /\ task[t].at = "success"
        /\ IF \/ c \notin channels
              \/ /\ chan[c].kind = "extended"
                 /\ chan[c].jd \/ (task[t].first /\ (task[t].jd \/ conn.workSel))
           THEN Proceed(t, chan)
           ELSE chan' = start.chan /\ Put(t, start.call) /\ UNCHANGED <<conn, subs>>
        /\ UNCHANGED <<base, world, channels, used, sock, destroys, budget, ghost>>

\* UpdateChannel
Update(t, c, rate, limit) ==
    LET diff == Granted(rate, limit)
        limited == [chan EXCEPT ![c].max = limit, ![c].ignored = diff > Ceiling]
    IN  /\ c \in channels /\ Frame(t, "update")
        /\ chan' = IF diff > Ceiling \/ diff = chan[c].diff THEN limited
                   ELSE Target(limited, c, diff)
        /\ UNCHANGED <<base, world, conn, channels, subs, used, sock, task, destroys, ghost>>

\* The subscription outlives the last channel.
CloseChannel_Faulty(t, c) ==
    /\ c \in channels /\ Frame(t, "close")
    /\ channels' = channels \ {c} /\ used' = used \ Prefixes({c})
    /\ conn' = [conn EXCEPT !.primary = IF channels' = {} THEN 0 ELSE Least(channels')]
    /\ UNCHANGED <<base, world, chan, subs, sock, task, destroys, ghost>>

\* CloseChannel: with the last channel go the subscription and the timer.
CloseChannel(t, c) ==
    LET left == channels \ {c}
    IN  /\ c \in channels /\ Frame(t, "close")
        /\ channels' = left /\ used' = used \ Prefixes({c})
        /\ subs' = IF left = {} THEN {s \in subs : s.id # conn.sub} ELSE subs
        /\ conn' = [conn EXCEPT
                     !.primary = IF @ # c THEN @ ELSE IF left = {} THEN 0 ELSE Least(left),
                     !.sub = IF left = {} THEN 0 ELSE @,
                     !.timer = @ /\ left # {},
                     !.leaky = @ \/ (left = {} /\ Orphan)]
        /\ UNCHANGED <<base, world, chan, sock, task, destroys, ghost>>

\* SetCustomMiningJob: the ids count up per connection, beside those of the
\* registry in the same map.
SetCustomMiningJob(t, c, tip) ==
    LET j == conn.custom
    IN  /\ c \in channels /\ j \in Job /\ Frame(t, "custom")
        /\ conn' = [conn EXCEPT !.custom = j + 1]
        /\ chan' = [chan EXCEPT ![c].ext = With(@, j, ExtJob(0, 0, tip, "none", After(@))),
                                ![c].mined = With(@, j, tip),
                                ![c].asked = With(@, j, {chan[c].told}),
                                ![c].shared = @ \cup ({j} \cap DOMAIN chan[c].asked)]
        /\ UNCHANGED <<base, world, channels, subs, used, sock, task, destroys, ghost>>

-------------------------------------------------------------------------------
(* Difficulty. *)

\* clampDifficultyToMaxTarget
Clamped(c, diff) == Highest(diff, chan[c].max)

\* The loop over the channels that sends SetTarget: the next one after `after', and
\* what it is told.
Targets(t, ch, call, after) ==
    LET rest == {c \in channels : c > after}
        c == Least(rest)
    IN  IF rest = {} THEN chan' = ch /\ Done(t)
        ELSE /\ chan' = Target(ch, c, Clamped(c, call.diff))
             /\ Put(t, [call EXCEPT !.at = "targets", !.c = c])

\* checkDifficultyAllChannels and checkJdClientDifficulty up to the update of the
\* row; the second one sets every channel before, and ignores the floor.
Ratchet(t, rate, ofJd) ==
    LET diff == IF ofJd \/ env.port # "pplns" THEN rate ELSE Highest(rate, Floor)
        call == [Idle EXCEPT !.why = "ratchet", !.diff = diff, !.at = "row"]
    IN  /\ diff # (IF ofJd THEN chan[conn.primary].diff ELSE conn.diff)
        /\ conn' = [conn EXCEPT !.diff = diff]
        /\ chan' = [c \in Channel |-> IF ofJd /\ c \in channels
                                      THEN [chan[c] EXCEPT !.diff = diff] ELSE chan[c]]
        /\ Put(t, call)

\* The timer.
Check(t, rate) ==
    /\ conn.timer /\ Free(t) /\ Spend("ratchet") /\ Ratchet(t, rate, FALSE)
    /\ UNCHANGED <<base, world, channels, subs, used, sock, destroys, ghost>>

Tell(t) ==
    /\ task[t].at \in {"row", "targets"}
    /\ Targets(t, chan, task[t], task[t].c)
    /\ UNCHANGED <<base, world, conn, channels, subs, used, sock, destroys, budget, ghost>>

-------------------------------------------------------------------------------
(* Shares. *)

\* Shares are judged by the difficulty of the connection.
JudgedBy_Faulty(c, j) == conn.diff

JudgedBy(c, j) == IF j \in DOMAIN chan[c].jobDiff THEN chan[c].jobDiff[j] ELSE chan[c].diff

\* SubmitSharesStandard and SubmitSharesExtended: the channel is looked up.  Miners
\* work on jobs they got.
Submit(t, c, j, q) ==
    /\ c \in channels /\ Frame(t, "submit")
    /\ Put(t, [Idle EXCEPT !.at = "judge", !.why = "share", !.c = c, !.job = j, !.q = q])
    /\ UNCHANGED <<base, world, conn, channels, chan, subs, used, sock, destroys, ghost>>

\* What the pool knows of the job: the template or the extended job.
Known(c, j) ==
    IF chan[c].kind = "extended" THEN j \in DOMAIN chan[c].ext
    ELSE /\ j \in DOMAIN store.jobs /\ store.jobs[j].tmpl \in DOMAIN store.templates
         /\ j \in chan[c].roots

Entry(c, j) == IF chan[c].kind = "extended" THEN chan[c].ext[j] ELSE store.jobs[j]

\* The previous block in the header the pool hashes.
HeaderPrev(c, j) ==
    IF chan[c].kind = "extended" THEN chan[c].ext[j].prev ELSE tmpls[store.jobs[j].tmpl].tip

MeetsTarget(c, j, q) == chan[c].mined[j] = HeaderPrev(c, j) /\ q >= JudgedBy(c, j)

\* The set of hashes is not looked at again.
Duplicate_Faulty(c, j, q) == FALSE

Duplicate(c, j, q) == <<j, q>> \in chan[c].seen

\* From the test for duplicates to the answer, with no await in it; a standard job
\* without a template is removed.
Judge(t) ==
    LET c == task[t].c
        j == task[t].job
        q == task[t].q
        accepted == /\ ~Duplicate(c, j, q) /\ Known(c, j)
                    /\ Classify(Entry(c, j), clock) # "stale-rejected"
                    /\ MeetsTarget(c, j, q)
        homeless == /\ chan[c].kind = "standard" /\ j \in DOMAIN store.jobs
                    /\ Classify(store.jobs[j], clock) # "stale-rejected"
                    /\ store.jobs[j].tmpl \notin DOMAIN store.templates
        work == <<c, j, q>>
    IN  /\ task[t].at = "judge"
        /\ chan' = [chan EXCEPT ![c].seen = @ \cup {<<j, q>>}]
        /\ store' = IF homeless /\ ~Duplicate(c, j, q)
                    THEN [store EXCEPT !.jobs = [k \in DOMAIN @ \ {j} |-> @[k]]]
                    ELSE store
        /\ IF accepted
           THEN /\ Put(t, [task[t] EXCEPT !.at = "credited", !.diff = JudgedBy(c, j),
                                          !.entry = Entry(c, j)])
                /\ credits' = With(credits, work,
                                   IF work \in DOMAIN credits THEN credits[work] + 1 ELSE 1)
           ELSE Done(t) /\ UNCHANGED credits
        /\ UNCHANGED <<clock, tmpls, turned, world, conn, channels, subs, used, sock, destroys,
                       budget, paid>>

\* What the block is rebuilt from - the transactions and the previous block of the
\* template the handler was called for, the coinbase of the one the job was made
\* of - gives the header that was hashed.
Whole(job) ==
    /\ tmpls[job.tmpl].content = tmpls[job.built].content
    /\ tmpls[job.tmpl].tip = job.prev

IsBlock(t) == task[t].q >= NetDiff /\ task[t].entry.tmpl # 0
Accepted(t) == chan[task[t].c].kind = "extended" => Whole(task[t].entry)

\* A possible block goes to bitcoind, which takes none that does not fit together.
\* What booking a taken one does is the payout services'; a connection without a row
\* fails before.
SubmitBlock(t) ==
    /\ task[t].at = "credited" /\ IsBlock(t)
    /\ \/ Goto(t, "counting") /\ UNCHANGED <<sock, destroys>>
       \/ Accepted(t) /\ ~conn.entity /\ Done(t) /\ CloseSocket
    /\ UNCHANGED <<base, world, conn, channels, chan, subs, used, budget, ghost>>

Counting(t) == task[t].at = "counting" \/ (task[t].at = "credited" /\ ~IsBlock(t))

Recorded(t) == [q |-> task[t].q, diff |-> task[t].diff, n |-> conn.accepted + 1]

\* The ledgers.  A connection without a row throws here, and its socket is closed.
RecordShare(t) ==
    /\ Counting(t)
    /\ IF conn.entity
       THEN /\ conn' = [conn EXCEPT !.accepted = @ + 1]
            /\ paid' = IF \/ scheme = "pplns" /\ conn.accepted + 1 > Warmup
                          \/ scheme = "group-solo"
                       THEN paid \cup {Recorded(t)} ELSE paid
            /\ Put(t, [Idle EXCEPT !.at = "tail", !.c = task[t].c, !.q = task[t].q])
            /\ UNCHANGED <<sock, destroys>>
       ELSE Done(t) /\ CloseSocket /\ UNCHANGED <<conn, paid>>
    /\ UNCHANGED <<base, world, channels, chan, subs, used, budget, credits>>

\* Redis fails: the share was answered and is not recorded.
RecordFails(t) ==
    /\ Counting(t) /\ conn.entity /\ Spend("fault")
    /\ conn' = [conn EXCEPT !.accepted = @ + 1] /\ Done(t)
    /\ UNCHANGED <<base, world, channels, chan, subs, used, sock, destroys, ghost>>

\* A job declaration client's difficulty is capped by what the share met, and then
\* rounded to the nearest of 2^k and 3 * 2^k: by less than a fifth when upwards.
Capped(rate, q) == 5 * rate < 6 * q

\* A look at the difficulty when the interval is over: of every channel, or, for a
\* job declaration client, by the primary one.
AfterShare(t) ==
    /\ task[t].at = "tail"
    /\ \/ Done(t) /\ UNCHANGED <<conn, chan, budget>>
       \/ /\ Spend("ratchet")
          /\ \E rate \in env.rates :
                LET ofJd == chan[task[t].c].jd
                IN  /\ ofJd => conn.primary # 0 /\ Capped(rate, task[t].q)
                    /\ Ratchet(t, rate, ofJd)
    /\ UNCHANGED <<base, world, channels, subs, used, sock, destroys, ghost>>

-------------------------------------------------------------------------------
(* The world. *)

Tick ==
    /\ Spend("tick") /\ clock' = clock + 1
    /\ UNCHANGED <<store, tmpls, turned, world, conn, channels, chan, subs, used, sock, task,
                   destroys, ghost>>

\* The membership of the address changes.  The port overrides it.
Move(s) ==
    /\ Spend("move") /\ env.port = "solo" /\ s \notin {scheme, "pplns"}
    /\ scheme' = s
    /\ UNCHANGED <<base, env, jdp, conn, channels, chan, subs, used, sock, task, destroys, ghost>>

\* hasJdpConnectionFromIp
JdpChanges ==
    /\ Spend("jdp") /\ jdp' = ~jdp
    /\ UNCHANGED <<base, env, scheme, conn, channels, chan, subs, used, sock, task,
                   destroys, ghost>>

Resume(t) ==
    \/ Create(t) \/ Entity(t) \/ Success(t) \/ Payout(t) \/ Sent(t) \/ Prevd(t) \/ Tell(t)
    \/ Judge(t) \/ SubmitBlock(t) \/ RecordShare(t) \/ AfterShare(t)

Receive(t) ==
    \/ \E w \in BOOLEAN : SetupConnection(t, w)
    \/ Unacceptable(t) \/ NoPrefix(t)
    \/ \E k \in {"standard", "extended"} :
        Refuse(t, k) \/ \E r \in env.rates, m \in env.limits : Open(t, k, r, m)
    \/ \E c \in Channel :
        \/ CloseChannel(t, c)
        \/ \E r \in env.rates, m \in env.limits : Update(t, c, r, m)
        \/ \E tip \in {store.tip, store.tip - 1} \ {-1} : SetCustomMiningJob(t, c, tip)
        \/ \E j \in DOMAIN chan[c].mined, q \in Quality : Submit(t, c, j, q)

Next ==
    \/ \E t \in Task : Resume(t) \/ Receive(t) \/ NoDistribution(t) \/ RecordFails(t)
                       \/ Rejected(t) \/ \E r \in env.rates : Check(t, r)
    \/ Disconnect \/ Bury \/ Release \/ Tick \/ JdpChanges
    \/ \E s \in Schemes : Move(s)
    \/ \E tip \in {store.tip, store.tip + 1}, same \in BOOLEAN : Publish(tip, same)

\* Promises are settled, and the close event runs destroy.
Fairness == (\A t \in Task : WF_vars(Resume(t))) /\ WF_vars(Bury) /\ WF_vars(Release)

Spec == Init /\ [][Next]_vars /\ Fairness

-------------------------------------------------------------------------------
(* Properties. *)

Labels == {"idle", "create", "entity", "success", "payout", "sent", "prev", "row", "targets",
           "judge", "credited", "counting", "tail"}

TypeOK ==
    /\ clock \in Nat /\ env.port \in Port /\ jdp \in BOOLEAN /\ scheme \in Schemes
    /\ channels \subseteq Channel /\ used \subseteq 1..MaxPrefix
    /\ conn.primary \in channels \cup {0} /\ (channels # {} => conn.primary # 0)
    /\ \A c \in channels : chan[c].kind \in {"standard", "extended"} /\ chan[c].diff \in Nat
    /\ \A t \in Task : task[t].at \in Labels
    /\ sock \in {"open", "closed"} /\ destroys \subseteq {"bury", "release"}

\* The prefixes in use are those of the open extended channels, each with its own,
\* and those of channels that were refused (they are never released).
PrefixesAccounted ==
    LET extended == {c \in channels : chan[c].kind = "extended"}
    IN  /\ used = Prefixes(extended) \cup conn.refused
        /\ \A c, d \in extended : chan[c].prefix = chan[d].prefix => c = d

\* A channel of the connection is, or was, one of a job declaration client.
Declaring == \E d \in Channel : chan[d].jd

\* Work is recorded for what its hash proves at most, after the warm-up on the
\* PPLNS port; and on a connection that is no job declaration client's no channel is
\* below the floor of the port, or below the difficulty of its declared maximum
\* target unless the UpdateChannel that declared it was ignored.
WorkIsProven ==
    /\ \A p \in paid : p.diff <= p.q /\ (env.port = "pplns" => p.n > Warmup)
    /\ \A c \in channels :
        ~Declaring =>
            /\ chan[c].diff >= chan[c].max \/ chan[c].ignored
            /\ env.port = "pplns" => chan[c].diff >= Floor

ChannelsSound == TypeOK /\ PrefixesAccounted /\ WorkIsProven

\* Every job is judged by a difficulty the miner was told between the job's writing
\* and now, or by a lower one on the connection of a job declaration client, unless a
\* difficulty of such a client is on its way, the job was written before the channel's
\* first target, or its id is that of a custom job and of one of the pool's.
JudgedAsTold ==
    ~(Declaring /\ \E t \in Task : task[t].at \in {"row", "targets"}) /\ Writable =>
        \A c \in channels : \A j \in DOMAIN chan[c].asked \ chan[c].shared :
            Known(c, j) /\ 0 \notin chan[c].asked[j] =>
                \E told \in chan[c].asked[j] :
                    JudgedBy(c, j) = told \/ (Declaring /\ JudgedBy(c, j) < told)

\* The header the pool hashes is the miner's, on a channel whose jobs did not
\* overlap and of which none was skipped.
HeadersAgree ==
    \A c \in channels : \A j \in DOMAIN chan[c].mined \ chan[c].shared :
        ~chan[c].raced /\ Known(c, j) /\ chan[c].mined[j] # Nowhere
            => chan[c].mined[j] = HeaderPrev(c, j)

\* A SetNewPrevHash names the job that was written last: a template is dispatched
\* to a channel once, whatever channels were opened and closed before.
NewestIsNamed == \A c \in Channel : ~chan[c].misnamed

\* Without channels there is no subscription and no timer, and after destroy the
\* connection is registered nowhere: unless a first channel was being opened then.
ReleasedWhenEmpty ==
    /\ channels = {} /\ ~conn.leaky /\ ~Orphan => subs = {} /\ ~conn.timer
    /\ conn.destroyed /\ destroys = {} => ~conn.registered

\* The same work is credited again only after a block change has retired its job, or
\* has left the jobs of its extended channel as they were (the connection began with
\* a standard channel, say), or if its id is a custom job's and a pool job's.
WorkCreditedOnce ==
    [][\A w \in DOMAIN credits' :
          w \in DOMAIN credits /\ credits'[w] > credits[w]
            => \/ Entry(w[1], w[2]).retired # Active
               \/ chan[w[1]].kind = "extended" /\ (chan[w[1]].kept \/ w[2] \in chan[w[1]].shared)]_vars

\* Work on a tip that was replaced longer than the grace time ago is credited only if
\* its job was recorded after that block change, or one left the extended jobs as
\* they were.
LateWorkBounded ==
    [][\A w \in DOMAIN credits' :
          (w \notin DOMAIN credits \/ credits'[w] > credits[w])
            => LET prev == HeaderPrev(w[1], w[2])
               IN  \/ prev = store.tip \/ clock - turned[prev] <= Grace
                   \/ chan[w[1]].kind = "extended"
                      /\ (chan[w[1]].ext[w[2]].late \/ chan[w[1]].kept)
                   \/ /\ chan[w[1]].kind = "standard"
                      /\ store.jobs[w[2]].made >= turned[prev]
                      /\ store.jobs[w[2]].retired = Active
                         \/ store.jobs[w[2]].retired > turned[prev]]_vars

\* A miner that stays learns of the new block: the last SetNewPrevHash of every
\* channel the pool feeds is for the current tip in the end.
BlockReachesMiner ==
    <>[](Writable => \A c \in channels :
            ~chan[c].jd /\ ~conn.workSel /\ ~chan[c].raced => chan[c].tip = store.tip)

\* What a block is rebuilt from: the transactions of an extended job's template are
\* those its merkle path was made of.
RebuiltAsHashed ==
    \A c \in channels : \A j \in DOMAIN chan[c].ext :
        LET job == chan[c].ext[j]
        IN  job.tmpl # 0 => tmpls[job.tmpl].content = tmpls[job.built].content

\* Channels, prefixes and targets agree with what the miner was told, its newest job
\* is the one named to it, and an emptied connection holds nothing of the pool's.
SessionHolds == ChannelsSound /\ JudgedAsTold /\ NewestIsNamed /\ ReleasedWhenEmpty

\* A share is credited once, and late work for as long as the store's grace allows.
WorkCounts == WorkCreditedOnce /\ LateWorkBounded
===============================================================================
