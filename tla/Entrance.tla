-------------------------------- MODULE Entrance --------------------------------
(***************************************************************************)
(* The way into the pool and what the pool says of who is inside: the      *)
(* unified ports with their protocol detection, HTTP proxy and fail-ban    *)
(* (ProtocolDetectorService), and for one address the live mode marker     *)
(* (MinerActiveModeService) with the mode the dashboard is shown           *)
(* (MiningModeService).  One remote IP, one socket at a time; every Redis  *)
(* round trip is a step.                                                   *)
(*                                                                         *)
(* A tick is the 30 seconds of the dashboard cache; the other spans keep   *)
(* their order: cache < refresh of the marker < life of the marker.        *)
(***************************************************************************)
EXTENDS Integers, Sequences, FiniteSets

CONSTANTS
    Slot,           \* bound: calls in flight
    MaxFailures,    \* STRATUM_MAX_FAILURES_PER_MINUTE
    Refresh,        \* REFRESH_INTERVAL_MS, in ticks
    Ttl,            \* TTL_SECONDS of the marker, in ticks
    Configs,        \* the environments startPorts may find
    Cases,          \* bound: the calls and faults of a behaviour, each once
    None            \* no value

CacheTtl == 1       \* CACHE_TTL_MS
Chunks   == 2       \* bound: chunks of an HTTP request

ModeName == {"pplns", "blockparty", "group-solo", "solo"}
Mark     == [mode : ModeName, age : 0..Ttl]
Kind     == {"failure", "refresh", "mark", "ask"}
Pc       == {"incr", "expire", "ban", "reset", "scan", "ttl", "merge",
             "set", "bare", "time", "note", "live", "window"}
Call     == [op : Kind \cup {None}, v : ModeName \cup {None}, pc : Pc \cup {None},
             age : 0..Ttl]

ASSUME SpanAssumption == Refresh \in Nat /\ Ttl \in Nat /\ 1 < Refresh /\ Refresh < Ttl
ASSUME ConfigAssumption ==
    Configs # {} /\ \A c \in Configs : {c.start, c.highStart, c.floor} \subseteq Nat
ASSUME NoneAssumption == None \notin Kind \cup Pc \cup ModeName \cup Call \cup Nat

VARIABLES
    config, ports,  \* the environment, and the servers that were started
    redis,          \* the cache manager has a Redis client
    count, timed,   \* the failure counter (Redis key or map entry); it has a TTL
    banned,         \* the ban key
    cached,         \* banCache: "no", "yes", or "lapsed" when its time is over
    conn,           \* the IP's socket
    marker, mAge,   \* Redis: miner:<address>:mode and its age; None never expires
    lastMark,       \* lastMark: the mode last written and its age
    answer,         \* MiningModeService.cache
    party, group,   \* the address's Blockparty status and its group's, as cached
    window,         \* it has shares in the PPLNS window
    task,           \* task[t]: a call in flight
    todo,           \* what is left of the case
    shared,         \* ghost: the mode of the last accepted share, and its age
    shown,          \* ghost: the mode the dashboard was told last
    races           \* ghost: overlaps and faults the properties exempt

bans  == <<count, timed, banned, cached>>
modes == <<marker, mAge, lastMark, shared>>
asks  == <<answer, shown>>
world == <<config, ports, redis, party, group, window>>
vars  == <<bans, modes, asks, world, conn, task, todo, races>>

Idle     == [op |-> None, v |-> None, pc |-> None, age |-> 0]
NoSocket == [st |-> "none", sent |-> 0, got |-> <<>>, up |-> "none", lost |-> {}]
Take(c)  == c \in todo /\ todo' = todo \ {c}
Start(t, op, pc, v) ==
    /\ task[t] = Idle /\ \A s \in Slot : s < t => task[s] # Idle
    /\ task' = [task EXCEPT ![t] = [op |-> op, v |-> v, pc |-> pc, age |-> 0]]
At(t, op, pc) == task[t].op = op /\ task[t].pc = pc
Go(t, pc)     == task' = [task EXCEPT ![t].pc = pc]
End(t)        == task' = [task EXCEPT ![t] = Idle]
InFlight(op)  == \E t \in Slot : task[t].op = op

-------------------------------------------------------------------------------
(* startPorts *)

Server(p, start, mode, floor, suggest) ==
    [port |-> p, start |-> start, mode |-> mode, floor |-> floor, suggest |-> suggest]
Raised_Faulty(start, floor) == start
Raised(start, floor) == IF start < floor THEN floor ELSE start

\* The high-difficulty ports only when their number is free, the PPLNS ones only
\* when PPLNS_PORT is set to a free number; none of the numbers is checked
\* against a server that could not be started.
StartPorts(c) ==
    LET pplns == c.pplns \notin {None, c.solo, c.high}
    IN  {Server(c.solo, c.start, "solo", 0, TRUE)}
        \cup {Server(p, c.highStart, "solo", 0, FALSE) : p \in {c.high} \ {c.solo}}
        \cup {Server(p, Raised(c.start, c.floor), "pplns", c.floor, TRUE) :
                p \in {q \in {c.pplns} : pplns}}
        \cup {Server(p, Raised(c.highStart, c.floor), "pplns", c.floor, FALSE) :
                p \in {q \in {c.pplnsHigh} : pplns} \ {c.solo, c.high, c.pplns}}

\* The case has a call of this kind; what no call of the case looks at starts
\* with one value.
Has(op) == \E c \in todo : c[1] = op

Init ==
    /\ todo \in Cases
    /\ config \in (IF Has("ports") THEN Configs ELSE {CHOOSE c \in Configs : TRUE})
    /\ ports = StartPorts(config)
    /\ redis \in (IF Has("connect") THEN BOOLEAN ELSE {TRUE})
    /\ count = 0 /\ timed = FALSE /\ banned = FALSE /\ cached = "no"
    /\ conn = NoSocket
    /\ marker = None /\ mAge = None /\ lastMark = None /\ shared = None
    /\ answer = None /\ shown = None
    /\ party \in (IF Has("party") THEN {"none", "draft"} ELSE {"none"})
    /\ group \in (IF Has("share") THEN {"none", "active"} ELSE {"none"})
    /\ window = FALSE
    /\ task = [t \in Slot |-> Idle] /\ races = {}

-------------------------------------------------------------------------------
(* Sockets. *)

\* isConnectionBanned: a ban whose time is over leaves the cache here.
Connect ==
    /\ \E i \in 1..3 : Take(<<"connect", i>>)
    /\ conn.st \in {"none", "closed"} /\ conn.up \in {"none", "closed"}
    /\ cached' = IF cached = "lapsed" THEN "no" ELSE cached
    /\ conn' = [NoSocket EXCEPT !.st = IF cached = "yes" THEN "closed" ELSE "waiting"]
    /\ UNCHANGED <<count, timed, banned, modes, asks, world, task, races>>

\* detectProtocol: GET or POST is HTTP, a brace or blank is V1, a TLS hello is
\* turned away, every other byte is V2.
Routed == [http |-> "proxy", brace |-> "v1", blank |-> "v1", tls |-> "closed", binary |-> "v2"]

FirstChunk ==
    /\ conn.st = "waiting"
    /\ \E byte \in DOMAIN Routed :
         conn' = [conn EXCEPT !.st = Routed[byte], !.sent = 1,
                              !.up = IF byte = "http" THEN "connecting" ELSE "none"]
    /\ UNCHANGED <<bans, modes, asks, world, task, todo, races>>

\* 30 seconds of silence, an error, or the client leaves.
Hangup ==
    /\ conn.st \in {"waiting", "v1", "v2", "proxy"}
    /\ conn' = [conn EXCEPT !.st = "closed"]
    /\ UNCHANGED <<bans, modes, asks, world, task, todo, races>>

\* proxyToApi: the first chunk goes out and both directions are piped once the
\* upstream is there.
Forwarded_Faulty == <<>>            \* what detection consumed is not passed on
Forwarded == <<1>>

UpstreamUp ==
    /\ conn.st = "proxy" /\ conn.up = "connecting"
    /\ conn' = [conn EXCEPT !.up = "open", !.got = Forwarded]
    /\ UNCHANGED <<bans, modes, asks, world, task, todo, races>>

\* The one-shot data listener is gone and the socket keeps flowing: a chunk that
\* comes before the pipe is read by nobody.
Chunk ==
    /\ conn.st = "proxy" /\ conn.sent < Chunks
    /\ LET n == conn.sent + 1
       IN  conn' = IF conn.up = "open"
                   THEN [conn EXCEPT !.sent = n, !.got = Append(@, n)]
                   ELSE [conn EXCEPT !.sent = n, !.lost = @ \cup {n}]
    /\ UNCHANGED <<bans, modes, asks, world, task, todo, races>>

\* An error of the connection attempt, or the API closes.
UpstreamDown ==
    /\ conn.up \in {"connecting", "open"}
    /\ conn' = [conn EXCEPT !.up = "closed"]
    /\ UNCHANGED <<bans, modes, asks, world, task, todo, races>>

\* The 'close' and 'error' handlers that take the other end down.
CloseOther_Faulty ==                \* only the client's close is passed on
    /\ conn.st = "closed" /\ conn.up \in {"connecting", "open"}
    /\ conn' = [conn EXCEPT !.up = "closed"]
    /\ UNCHANGED <<bans, modes, asks, world, task, todo, races>>

CloseOther ==
    /\ \/ conn.st = "closed" /\ conn.up \in {"connecting", "open"}
       \/ conn.st = "proxy" /\ conn.up = "closed"
    /\ conn' = [conn EXCEPT !.st = "closed", !.up = "closed"]
    /\ UNCHANGED <<bans, modes, asks, world, task, todo, races>>

-------------------------------------------------------------------------------
(* Fail-ban. *)

\* An address that does not parse, or a handshake that fails: the failure is
\* recorded without waiting and the socket is destroyed.
Misbehave(t) ==
    /\ conn.st \in {"v1", "v2"} /\ redis
    /\ Start(t, "failure", "incr", None)
    /\ conn' = [conn EXCEPT !.st = "closed"]
    /\ UNCHANGED <<bans, modes, asks, world, todo, races>>

\* Without Redis the maps are updated at once.
MisbehaveLocally ==
    /\ conn.st \in {"v1", "v2"} /\ ~redis
    /\ conn' = [conn EXCEPT !.st = "closed"]
    /\ IF count + 1 > MaxFailures
       THEN count' = 0 /\ timed' = FALSE /\ banned' = TRUE /\ cached' = "yes"
       ELSE count' = count + 1 /\ timed' = TRUE /\ UNCHANGED <<banned, cached>>
    /\ UNCHANGED <<modes, asks, world, task, todo, races>>

Count(t) ==
    /\ At(t, "failure", "incr")
    /\ count' = count + 1 /\ timed' = (timed /\ count > 0)
    /\ CASE count + 1 = 1 -> Go(t, "expire")
         [] count + 1 > MaxFailures -> Go(t, "ban")
         [] OTHER -> End(t)
    /\ UNCHANGED <<banned, cached, modes, asks, world, conn, todo, races>>

TimeCounter(t) ==
    /\ At(t, "failure", "expire")
    /\ timed' = (count > 0) /\ End(t)
    /\ UNCHANGED <<count, banned, cached, modes, asks, world, conn, todo, races>>

\* The key is written, then the counter goes, then the cache is told.
Ban(t) ==
    /\ At(t, "failure", "ban")
    /\ banned' = TRUE /\ Go(t, "reset")
    /\ races' = IF InFlight("refresh") THEN races \cup {"ban"} ELSE races
    /\ UNCHANGED <<count, timed, cached, modes, asks, world, conn, todo>>

ResetCounter(t) ==
    /\ At(t, "failure", "reset")
    /\ count' = 0 /\ timed' = FALSE /\ cached' = "yes" /\ End(t)
    /\ races' = IF InFlight("refresh") THEN races \cup {"ban"} ELSE races
    /\ UNCHANGED <<banned, modes, asks, world, conn, todo>>

\* The minute of the counter, the hour of the ban, and DEL failban:ban:<ip>.
WindowOver ==
    /\ timed /\ count' = 0 /\ timed' = FALSE
    /\ UNCHANGED <<banned, cached, modes, asks, world, conn, task, todo, races>>

BanOver ==
    /\ Take(<<"over">>) /\ banned
    /\ banned' = FALSE /\ cached' = IF cached = "yes" THEN "lapsed" ELSE cached
    /\ UNCHANGED <<count, timed, modes, asks, world, conn, task, races>>

Lift ==
    /\ redis /\ Take(<<"lift">>) /\ banned' = FALSE
    /\ UNCHANGED <<count, timed, cached, modes, asks, world, conn, task, races>>

\* _refreshBanCache, every minute: scan, read the TTLs, then merge.
RefreshBans(t) ==
    /\ redis /\ ~InFlight("refresh") /\ (banned \/ cached # "no")
    /\ Start(t, "refresh", "scan", None)
    /\ UNCHANGED <<bans, modes, asks, world, conn, todo, races>>

Dropped_Faulty(c) == c              \* entries are only ever added
Dropped(c) == "no"

\* Keys of other addresses keep the refresh busy after the scan.
ScanBans(t) ==
    /\ At(t, "refresh", "scan")
    /\ Go(t, IF banned THEN "ttl" ELSE "merge")
    /\ UNCHANGED <<bans, modes, asks, world, conn, todo, races>>

ReadTtl(t) ==
    /\ At(t, "refresh", "ttl")
    /\ cached' = IF banned THEN "yes" ELSE cached
    /\ races' = IF banned THEN races \ {"ban"} ELSE races
    /\ End(t)
    /\ UNCHANGED <<count, timed, banned, modes, asks, world, conn, todo>>

MergeBans(t) ==
    /\ At(t, "refresh", "merge")
    /\ cached' = Dropped(cached) /\ End(t)
    /\ UNCHANGED <<count, timed, banned, modes, asks, world, conn, todo, races>>

-------------------------------------------------------------------------------
(* The mode marker. *)

\* The routing of an accepted share: the PPLNS port, a party that is ready or
\* active, an active group, solo.
Mode(mode) ==
    CASE mode = "pplns"     -> "pplns"
      [] party = "active"   -> "blockparty"
      [] group = "active"   -> "group-solo"
      [] OTHER              -> "solo"

Modes == {p.mode : p \in ports}

Marked == IF lastMark = None THEN FALSE ELSE lastMark.age < Refresh
Debounced_Faulty(m) == Marked       \* whatever the mode
Debounced(m) == Marked /\ lastMark.mode = m

Share(t, m) ==
    LET mode == Mode(m)
    IN  /\ shared' = [mode |-> mode, age |-> 0]
        /\ window' = (window \/ m = "pplns")
        /\ races' = IF InFlight("mark") THEN races \cup {"mark"} ELSE races
        /\ IF ~redis \/ Debounced(mode)
           THEN task[t] = Idle /\ UNCHANGED task
           ELSE Start(t, "mark", "set", mode)
        /\ UNCHANGED <<bans, marker, mAge, lastMark, asks, config, ports, redis, party, group, conn>>

ShareOn(t) == \E m \in Modes : Take(<<"share", m>>) /\ Share(t, m)

\* The miner goes on where it is.
KeepMining(t) ==
    /\ shared # None /\ ~InFlight("mark")
    /\ Share(t, IF shared.mode = "pplns" THEN "pplns" ELSE "solo")
    /\ shared' # shared \/ task' # task
    /\ UNCHANGED todo

SetMarker(t) ==
    /\ task[t].op = "mark" /\ task[t].pc \in {"set", "bare"}
    /\ marker' = task[t].v
    /\ IF task[t].pc = "set" THEN mAge' = 0 /\ Go(t, "note") ELSE mAge' = None /\ Go(t, "time")
    /\ UNCHANGED <<bans, lastMark, shared, asks, world, conn, todo, races>>

\* The retry without EX, and its expire.
TimeMarker(t) ==
    /\ At(t, "mark", "time")
    /\ mAge' = IF marker = None THEN None ELSE 0
    /\ Go(t, "note")
    /\ UNCHANGED <<bans, marker, lastMark, shared, asks, world, conn, todo, races>>

NoteMark(t) ==
    /\ At(t, "mark", "note")
    /\ lastMark' = [mode |-> task[t].v, age |-> 0]
    /\ End(t)
    /\ UNCHANGED <<bans, marker, mAge, shared, asks, world, conn, todo, races>>

-------------------------------------------------------------------------------
(* getMode. *)

\* computeMode: a live marker first; one whose party is gone or whose group is no
\* longer active falls through to what the address is part of.
Standing(inWindow) ==
    CASE party # "none"    -> "blockparty"
      [] group = "active"  -> "group-solo"
      [] inWindow          -> "pplns"
      [] OTHER             -> "solo"

Live_Faulty(m) == FALSE             \* only what the address is part of
Live(m) ==
    \/ m \in {"pplns", "solo"}
    \/ m = "blockparty" /\ party # "none"
    \/ m = "group-solo" /\ group = "active"

Told(t, m) ==
    /\ answer' = [mode |-> m, age |-> task[t].age] /\ shown' = m
    /\ End(t)

\* A miss; a cached answer is given while it is fresh.
FreshAnswer == IF answer = None THEN FALSE ELSE answer.age < CacheTtl
Ask(t) ==
    /\ shared # None /\ ~InFlight("ask")
    /\ \/ /\ FreshAnswer
          /\ shown' = answer.mode /\ shown' # shown /\ UNCHANGED task
       \/ /\ ~FreshAnswer
          /\ Start(t, "ask", "live", None) /\ UNCHANGED shown
    /\ UNCHANGED <<bans, modes, answer, world, conn, todo, races>>

ReadLive(t) ==
    /\ At(t, "ask", "live")
    /\ IF redis /\ marker # None /\ Live(marker) THEN Told(t, marker)
       ELSE IF Standing(FALSE) # "solo" THEN Told(t, Standing(FALSE))
       ELSE Go(t, "window") /\ UNCHANGED asks
    /\ UNCHANGED <<bans, modes, world, conn, todo, races>>

ReadWindow(t) ==
    /\ At(t, "ask", "window")
    /\ Told(t, IF window THEN "pplns" ELSE "solo")
    /\ UNCHANGED <<bans, modes, world, conn, todo, races>>

-------------------------------------------------------------------------------
(* Time, membership and faults. *)

Older(r) == IF r = None THEN None ELSE [r EXCEPT !.age = IF @ < Ttl THEN @ + 1 ELSE @]

\* A Redis answer takes less than a tick.  A miner that goes on has a share in
\* every tick; its pauses are calls of the case.
Tick ==
    /\ shared # None
    /\ IF shared.age = 0 THEN UNCHANGED todo ELSE Take(<<"pause">>)
    /\ ~InFlight("mark")
    /\ marker' = IF mAge # None /\ mAge + 1 >= Ttl THEN None ELSE marker
    /\ mAge'   = IF mAge = None \/ mAge + 1 >= Ttl THEN None ELSE mAge + 1
    /\ lastMark' = Older(lastMark) /\ answer' = Older(answer) /\ shared' = Older(shared)
    /\ task' = [t \in Slot |-> IF task[t] = Idle THEN Idle ELSE Older(task[t])]
    /\ UNCHANGED <<bans, shown, world, conn, races>>

\* The party is opened, signed or dissolved, the group gains its second member or
\* loses it, and the last PPLNS share leaves the window.
PartyChanges ==
    /\ \E s \in {"none", "draft", "active"} : Take(<<"party", s>>) /\ party' = s
    /\ UNCHANGED <<bans, modes, asks, config, ports, redis, group, window, conn, task, races>>

GroupChanges ==
    /\ \E s \in {"none", "inactive", "active"} : Take(<<"group", s>>) /\ group' = s
    /\ UNCHANGED <<bans, modes, asks, config, ports, redis, party, window, conn, task, races>>

LeaveWindow ==
    /\ Take(<<"window">>) /\ window' = FALSE
    /\ UNCHANGED <<bans, modes, asks, config, ports, redis, party, group, conn, task, races>>

\* A Redis call is rejected.  The marker is tried once more without EX; every
\* other failure ends the call.
Reject(t) ==
    /\ task[t].pc \in {"incr", "expire", "ban", "reset", "set", "bare", "time", "scan", "ttl", "live"}
    /\ Take(<<"reject">>)
    /\ CASE task[t].pc = "set"  -> Go(t, "bare") /\ UNCHANGED asks
         [] task[t].pc = "live" ->
                IF Standing(FALSE) # "solo" THEN Told(t, Standing(FALSE))
                ELSE Go(t, "window") /\ UNCHANGED asks
         [] OTHER -> End(t) /\ UNCHANGED asks
    /\ races' = races \cup
         (CASE task[t].pc = "expire"           -> {"counter"}
            [] task[t].pc = "reset"            -> {"ban", "counter"}
            [] task[t].pc \in {"bare", "time"} -> {"mark"}
            [] OTHER                           -> {})
    /\ UNCHANGED <<bans, modes, world, conn>>

\* Redis keeps its keys.  The ban cache is loaded before the ports open; a load
\* that is rejected is logged, and they open with an empty one.
Loaded_Faulty(b) == "no"           \* the cache fills up with the first refresh
Loaded(b) == IF b THEN "yes" ELSE "no"

Restart ==
    /\ task' = [t \in Slot |-> Idle] /\ conn' = NoSocket
    /\ lastMark' = None /\ answer' = None
    /\ count'  = (IF redis THEN count ELSE 0) /\ timed' = (redis /\ timed)
    /\ banned' = (redis /\ banned)
    /\ \E refused \in IF redis THEN {{}, {<<"reject">>}} ELSE {{}} :
         LET taken == {<<"restart">>} \cup refused
         IN  /\ taken \subseteq todo /\ todo' = todo \ taken
             /\ cached' = IF refused = {} THEN Loaded(banned') ELSE "no"
             /\ races' = (IF refused = {} THEN races \ {"ban"}
                          ELSE races \cup {x \in {"ban"} : banned'})
                      \cup (IF \E t \in Slot : task[t].pc \in {"expire", "reset"}
                            THEN {"counter"} ELSE {})
                      \cup (IF InFlight("mark") THEN {"mark"} ELSE {})
    /\ UNCHANGED <<marker, mAge, shared, shown, world>>

-------------------------------------------------------------------------------
BanStep(t)  == Count(t) \/ TimeCounter(t) \/ Ban(t) \/ ResetCounter(t) \/ ScanBans(t) \/ ReadTtl(t)
               \/ MergeBans(t)
ModeStep(t) == SetMarker(t) \/ TimeMarker(t) \/ NoteMark(t) \/ ReadLive(t) \/ ReadWindow(t)

Next ==
    \/ Connect \/ FirstChunk \/ Hangup \/ UpstreamUp \/ Chunk \/ UpstreamDown \/ CloseOther
    \/ MisbehaveLocally \/ WindowOver \/ BanOver \/ Lift
    \/ \E t \in Slot :
         \/ Misbehave(t) \/ RefreshBans(t) \/ BanStep(t)
         \/ ShareOn(t) \/ KeepMining(t) \/ Ask(t) \/ ModeStep(t) \/ Reject(t)
    \/ Tick \/ PartyChanges \/ GroupChanges \/ LeaveWindow \/ Restart

\* Redis answers, keys run out, the refresh timer fires, sockets report their
\* close; the miner goes on mining and its dashboard goes on polling.
Fairness ==
    /\ \A t \in Slot : WF_vars(BanStep(t)) /\ WF_vars(ModeStep(t))
    /\ WF_vars(WindowOver) /\ WF_vars(CloseOther) /\ WF_vars(Tick)
    /\ WF_vars(\E t \in Slot : RefreshBans(t))
    /\ WF_vars(\E t \in Slot : KeepMining(t)) /\ WF_vars(\E t \in Slot : Ask(t))

Spec == Init /\ [][Next]_vars /\ Fairness

-------------------------------------------------------------------------------
CallOK(r) ==
    \/ r = Idle
    \/ r.op = "failure" /\ r.pc \in {"incr", "expire", "ban", "reset"}
    \/ r.op = "refresh" /\ r.pc \in {"scan", "ttl", "merge"}
    \/ r.op = "mark"    /\ r.pc \in {"set", "bare", "time", "note"} /\ r.v # None
    \/ r.op = "ask"     /\ r.pc \in {"live", "window"}

TypeOK ==
    /\ config \in Configs /\ ports = StartPorts(config) /\ redis \in BOOLEAN
    /\ count \in Nat /\ timed \in BOOLEAN /\ banned \in BOOLEAN
    /\ cached \in {"no", "yes", "lapsed"}
    /\ conn \in [st : {"none", "waiting", "proxy", "v1", "v2", "closed"}, sent : 0..Chunks,
                 got : Seq(1..Chunks), up : {"none", "connecting", "open", "closed"},
                 lost : SUBSET (1..Chunks)]
    /\ marker \in ModeName \cup {None} /\ mAge \in (0..Ttl) \cup {None}
    /\ {lastMark, answer, shared} \subseteq Mark \cup {None} /\ shown \in ModeName \cup {None}
    /\ party \in {"none", "draft", "active"} /\ group \in {"none", "inactive", "active"}
    /\ window \in BOOLEAN
    /\ task \in [Slot -> Call] /\ \A t \in Slot : CallOK(task[t])
    /\ races \subseteq {"ban", "mark", "counter"}

\* No number is bound twice and no PPLNS port starts a session below its floor.
PortsSound ==
    /\ \A p, q \in ports : p.port = q.port => p = q
    /\ \A p \in ports : p.mode = "pplns" => p.start >= p.floor

\* The API gets the request from its first chunk on; only chunks that overtook
\* the connection to it are missing, and what it gets is in order.
ProxyComplete ==
    conn.up = "open" =>
        /\ \A i, j \in DOMAIN conn.got : i < j => conn.got[i] < conn.got[j]
        /\ {conn.got[i] : i \in DOMAIN conn.got} = (1..conn.sent) \ conn.lost

\* A banned address is refused: the cache that connections look at has every ban
\* of Redis, across failures that overlap, rejected calls and restarts.  Only a ban
\* made while a refresh was under way, one whose failure could not tell the cache, and
\* the bans of a start whose load was rejected wait for the next refresh that gets
\* through ("ban" in races), and after it no ban is missing.
BannedIsRefused ==
    banned /\ "ban" \notin races /\ ~(\E t \in Slot : At(t, "failure", "reset")) =>
        cached = "yes"

EntranceSound == TypeOK /\ PortsSound /\ ProxyComplete /\ BannedIsRefused

\* While the last accepted share is younger than the safety margin the marker
\* names the mode it was credited to: the debounce never lets it run out under a
\* miner that goes on.  Marks that overlap or fail twice are the exception.
MarkerIsLive ==
    redis /\ shared # None /\ "mark" \notin races /\ ~InFlight("mark")
        /\ shared.age < Ttl - Refresh
            => marker = shared.mode

\* Bans, lifted bans and expired ones reach the cache, the counter of failures
\* runs out (a lost EXPIRE is the exception), and when one end of a proxied
\* request closes so does the other.
NothingLingers ==
    <>[](/\ redis => (banned <=> cached = "yes")
         /\ "counter" \notin races => count = 0
         /\ conn.up \in {"connecting", "open"} <=> conn.st = "proxy")

\* Whatever overlapped or was rejected before, the dashboard of a miner that goes
\* on ends up showing the mode its shares are credited to.
ModeSettles == <>[](redis /\ shared # None => shown = shared.mode)
===============================================================================
