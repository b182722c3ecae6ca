--------------------------- MODULE Connections_proofs ---------------------------
(***************************************************************************)
(* Proofs about Entrance beside an encrypted connection, for every set of  *)
(* Redis calls in flight, every environment and every sequence of          *)
(* connections, shares, faults and restarts: MCSpec implies                *)
(* []EntranceHolds.  The run takes two calls and a few events at a time.   *)
(***************************************************************************)
EXTENDS MCConnections, TLAPS

-------------------------------------------------------------------------------
(* The inductive invariant. *)

\* A proxied request: nothing is lost before it starts, everything after its first
\* chunk until the API is there.
ProxyInv ==
    /\ conn.st = "waiting" => conn.lost = {}
    /\ conn.up = "connecting" => conn.sent >= 1 /\ conn.lost = 2..conn.sent
    /\ conn.up = "open" => conn.lost \subseteq 1..conn.sent
    /\ ProxyComplete

\* One refresh runs at a time, and one that will drop the ban has seen that there is
\* none, and none was made since.
BanInv ==
    /\ \A t \in Slot : task[t].op \in {"failure", "refresh"} => redis
    /\ \A s, t \in Slot : task[s].op = "refresh" /\ task[t].op = "refresh" => s = t
    /\ "ban" \notin races => \A t \in Slot : At(t, "refresh", "merge") => ~banned
    /\ BannedIsRefused

\* What the pool remembers to have written is what Redis holds, at the same age, except
\* between the write and its note.
Writing == \E t \in Slot : task[t].op = "mark" /\ task[t].pc \in {"time", "note"}
Noted   == lastMark # None /\ lastMark.age < Ttl /\ ~Writing =>
               marker = lastMark.mode /\ mAge = lastMark.age

\* A mark that is under way is the only one, and is that of the share just accepted.
Marking(t) ==
    task[t].op = "mark" =>
        /\ shared.age = 0 /\ task[t].v = shared.mode
        /\ task[t].pc \in {"time", "note"} => marker = shared.mode
        /\ task[t].pc = "note" => mAge = 0

\* Otherwise the marker names the mode of the last share and is not older than the
\* debounce lets it become.
Alive ==
    redis /\ shared # None /\ ~InFlight("mark") /\ shared.age < Ttl - Refresh =>
        /\ marker = shared.mode
        /\ mAge # None /\ mAge < shared.age + Refresh

MarkInv ==
    "mark" \notin races =>
        /\ \A s, t \in Slot : task[s].op = "mark" /\ task[t].op = "mark" => s = t
        /\ \A t \in Slot : Marking(t)
        /\ Noted /\ Alive

EntryInv == TypeOK /\ PortsSound /\ ProxyInv /\ BanInv /\ MarkInv

-------------------------------------------------------------------------------
(* Calls. *)

LEMMA NoneIsApart ==
    /\ None \notin Kind /\ None \notin Pc /\ None \notin ModeName
    /\ None \notin Call /\ None \notin Nat
BY NoneAssumption

LEMMA IdleIsCall == Idle \in Call /\ Idle.op = None /\ Idle.v = None /\ CallOK(Idle)
BY SpanAssumption DEF Idle, Call, Kind, Pc, CallOK

\* The calls but that of slot t.
Others(t) == \A s \in Slot \ {t} : task'[s] = task[s]

LEMMA StartIs ==
    ASSUME TypeOK, NEW t \in Slot, NEW op, NEW pc, NEW v, Start(t, op, pc, v),
           LET r == [op |-> op, v |-> v, pc |-> pc, age |-> 0] IN r \in Call /\ CallOK(r)
    PROVE  /\ task' \in [Slot -> Call] /\ \A s \in Slot : CallOK(task'[s])
           /\ task[t] = Idle /\ Others(t)
           /\ task'[t] = [op |-> op, v |-> v, pc |-> pc, age |-> 0]
BY DEF TypeOK, Start, Others

LEMMA GoIs ==
    ASSUME TypeOK, NEW t \in Slot, NEW pc, Go(t, pc),
           [task[t] EXCEPT !.pc = pc] \in Call, CallOK([task[t] EXCEPT !.pc = pc])
    PROVE  /\ task' \in [Slot -> Call] /\ \A s \in Slot : CallOK(task'[s])
           /\ Others(t) /\ task'[t] = [task[t] EXCEPT !.pc = pc]
           /\ task'[t].op = task[t].op /\ task'[t].pc = pc /\ task'[t].v = task[t].v
<1>1. task' = [task EXCEPT ![t] = [task[t] EXCEPT !.pc = pc]]
  BY DEF Go
<1>2. task[t] \in Call
  BY DEF TypeOK
<1> QED
  BY <1>1, <1>2 DEF TypeOK, Others, Call

\* The steps a call can go to.
LEMMA Steps ==
    ASSUME NEW r \in Call, CallOK(r), r # Idle
    PROVE  /\ r.op = "failure" => \A pc \in {"incr", "expire", "ban", "reset"} :
                  [r EXCEPT !.pc = pc] \in Call /\ CallOK([r EXCEPT !.pc = pc])
           /\ r.op = "refresh" => \A pc \in {"scan", "ttl", "merge"} :
                  [r EXCEPT !.pc = pc] \in Call /\ CallOK([r EXCEPT !.pc = pc])
           /\ r.op = "mark" => \A pc \in {"set", "bare", "time", "note"} :
                  [r EXCEPT !.pc = pc] \in Call /\ CallOK([r EXCEPT !.pc = pc])
           /\ r.op = "ask" => \A pc \in {"live", "window"} :
                  [r EXCEPT !.pc = pc] \in Call /\ CallOK([r EXCEPT !.pc = pc])
BY NoneIsApart DEF Call, Kind, Pc, CallOK

LEMMA EndIs ==
    ASSUME TypeOK, NEW t \in Slot, End(t)
    PROVE  /\ task' \in [Slot -> Call] /\ \A s \in Slot : CallOK(task'[s])
           /\ Others(t) /\ task'[t] = Idle /\ task'[t].op = None
BY IdleIsCall DEF TypeOK, End, Others

\* What the point a call has got to says of its kind.
LEMMA Kinds ==
    ASSUME TypeOK, NEW t \in Slot
    PROVE  /\ task[t] = Idle \/ task[t].op # None
           /\ task[t].op # None => task[t] # Idle
           /\ task[t].pc \in {"incr", "expire", "ban", "reset"} => task[t].op = "failure"
           /\ task[t].pc \in {"scan", "ttl", "merge"} => task[t].op = "refresh"
           /\ task[t].pc \in {"set", "bare", "time", "note"} => task[t].op = "mark"
           /\ task[t].pc \in {"live", "window"} => task[t].op = "ask"
           /\ task[t].op = "mark" => task[t].v \in ModeName
<1>1. task[t] \in Call /\ CallOK(task[t])
  BY DEF TypeOK
<1> QED
  BY <1>1, NoneIsApart DEF CallOK, Idle, Call, Kind, Pc, ModeName

-------------------------------------------------------------------------------
(* What a step leaves alone. *)

\* The numbers of the servers are distinct and the floors kept in every environment.
LEMMA PortsAreSound == TypeOK => PortsSound
<1> SUFFICES ASSUME TypeOK PROVE PortsSound
  OBVIOUS
<1> PICK c \in Configs : ports = StartPorts(c)
  BY DEF TypeOK
<1>1. c.start \in Nat /\ c.highStart \in Nat /\ c.floor \in Nat
  BY ConfigAssumption
<1>2. Raised(c.start, c.floor) >= c.floor /\ Raised(c.highStart, c.floor) >= c.floor
  BY <1>1 DEF Raised
<1> DEFINE A == Server(c.solo, c.start, "solo", 0, TRUE)
           B == Server(c.high, c.highStart, "solo", 0, FALSE)
           C == Server(c.pplns, Raised(c.start, c.floor), "pplns", c.floor, TRUE)
           D == Server(c.pplnsHigh, Raised(c.highStart, c.floor), "pplns", c.floor, FALSE)
<1>3. \A p \in ports :
         \/ p = A
         \/ p = B /\ c.high # c.solo
         \/ p = C /\ c.pplns \notin {c.solo, c.high}
         \/ p = D /\ c.pplnsHigh \notin {c.solo, c.high, c.pplns}
  <2> SUFFICES ASSUME NEW p \in ports
               PROVE  \/ p = A
                      \/ p = B /\ c.high # c.solo
                      \/ p = C /\ c.pplns \notin {c.solo, c.high}
                      \/ p = D /\ c.pplnsHigh \notin {c.solo, c.high, c.pplns}
    OBVIOUS
  <2>1. CASE p = A
    BY <2>1
  <2>2. CASE \E n \in {c.high} \ {c.solo} : p = Server(n, c.highStart, "solo", 0, FALSE)
    BY <2>2
  <2>3. CASE \E n \in {q \in {c.pplns} : c.pplns \notin {None, c.solo, c.high}} :
               p = Server(n, Raised(c.start, c.floor), "pplns", c.floor, TRUE)
    BY <2>3
  <2>4. CASE \E n \in {q \in {c.pplnsHigh} : c.pplns \notin {None, c.solo, c.high}}
                        \ {c.solo, c.high, c.pplns} :
               p = Server(n, Raised(c.highStart, c.floor), "pplns", c.floor, FALSE)
    BY <2>4
  <2> QED
    BY <2>1, <2>2, <2>3, <2>4 DEF StartPorts
<1>4. /\ A.port = c.solo /\ B.port = c.high /\ C.port = c.pplns /\ D.port = c.pplnsHigh
      /\ A.mode = "solo" /\ B.mode = "solo" /\ C.start >= C.floor /\ D.start >= D.floor
  BY <1>2 DEF Server
<1> HIDE DEF A, B, C, D
<1>5. \A p, q \in ports : p.port = q.port => p = q
  BY <1>3, <1>4
<1>6. \A p \in ports : p.mode = "pplns" => p.start >= p.floor
  BY <1>3, <1>4
<1> QED
  BY <1>5, <1>6 DEF PortsSound

LEMMA BanStays ==
    ASSUME BanInv, redis' = redis, banned' = banned, cached' = cached,
           "ban" \notin races' => "ban" \notin races,
           \A t \in Slot : /\ task'[t].op \in {"failure", "refresh"} => redis
                           /\ task'[t].op = "refresh" => task[t].op = "refresh"
                           /\ At(t, "refresh", "merge")' => At(t, "refresh", "merge")
                           /\ At(t, "failure", "reset") => At(t, "failure", "reset")'
    PROVE  BanInv'
BY DEF BanInv, BannedIsRefused

LEMMA MarkStays ==
    ASSUME MarkInv, redis' = redis, marker' = marker, mAge' = mAge,
           lastMark' = lastMark, shared' = shared,
           "mark" \notin races' => "mark" \notin races,
           \A t \in Slot :
               /\ task'[t].op = "mark" <=> task[t].op = "mark"
               /\ task[t].op = "mark" =>
                    /\ task'[t].v = task[t].v
                    /\ task'[t].pc \in {"time", "note"} <=> task[t].pc \in {"time", "note"}
                    /\ task'[t].pc = "note" => task[t].pc = "note"
    PROVE  MarkInv'
<1> SUFFICES ASSUME "mark" \notin races'
             PROVE  /\ \A s, t \in Slot : task'[s].op = "mark" /\ task'[t].op = "mark" => s = t
                    /\ \A t \in Slot : Marking(t)'
                    /\ Noted' /\ Alive'
  BY DEF MarkInv
<1>1. \A t \in Slot : Marking(t)'
  BY DEF MarkInv, Marking
<1>2. Writing' <=> Writing
  BY DEF Writing
<1>3. InFlight("mark")' <=> InFlight("mark")
  BY DEF InFlight
<1> QED
  BY <1>1, <1>2, <1>3 DEF MarkInv, Noted, Alive

LEMMA ProxyStays == ProxyInv /\ conn' = conn => ProxyInv'
BY DEF ProxyInv, ProxyComplete

\* A step of a socket, whose calls and modes and bans rest.
LEMMA SocketMoves ==
    ASSUME EntryInv, UNCHANGED <<bans, modes, asks, world, task, races>>,
           conn' \in [st : {"none", "waiting", "proxy", "v1", "v2", "closed"}, sent : 0..Chunks,
                      got : Seq(1..Chunks), up : {"none", "connecting", "open", "closed"},
                      lost : SUBSET (1..Chunks)],
           ProxyInv'
    PROVE  EntryInv'
<1> USE DEF EntryInv, bans, modes, asks, world
<1>1. TypeOK'
  BY DEF TypeOK
<1>2. BanInv'
  BY BanStays DEF BanInv, At
<1>3. MarkInv'
  BY MarkStays
<1> QED
  BY <1>1, <1>2, <1>3, PortsAreSound DEF TypeOK, PortsSound

-------------------------------------------------------------------------------
(* Sockets. *)

Socket ==
    [st : {"none", "waiting", "proxy", "v1", "v2", "closed"}, sent : 0..Chunks,
     got : Seq(1..Chunks), up : {"none", "connecting", "open", "closed"},
     lost : SUBSET (1..Chunks)]

\* What the steps of a socket make of it.
Phase == {"none", "waiting", "proxy", "v1", "v2", "closed"}
Api   == {"none", "connecting", "open", "closed"}

Turned(c, x, u) == [c EXCEPT !.st = x, !.sent = 1, !.up = u]
Piped(c, g)     == [c EXCEPT !.up = "open", !.got = g]
Passed(c, n, g) == [c EXCEPT !.sent = n, !.got = g]
Missed(c, n)    == [c EXCEPT !.sent = n, !.lost = @ \cup {n}]

LEMMA TurnedIs ==
    ASSUME NEW c \in Socket, NEW x \in Phase, NEW u \in Api
    PROVE  LET d == Turned(c, x, u)
           IN  d \in Socket /\ d.st = x /\ d.sent = 1 /\ d.up = u /\ d.lost = c.lost
<1>1. 1 \in 0..Chunks
  BY DEF Chunks
<1> QED
  BY ONLY c \in Socket, x \in Phase, u \in Api, <1>1 DEF Socket, Phase, Api, Turned

LEMMA PipedIs ==
    ASSUME NEW c \in Socket, NEW g \in Seq(1..Chunks)
    PROVE  LET d == Piped(c, g)
           IN  /\ d \in Socket /\ d.st = c.st /\ d.sent = c.sent /\ d.up = "open"
               /\ d.got = g /\ d.lost = c.lost
BY DEF Socket, Piped

LEMMA PassedIs ==
    ASSUME NEW c \in Socket, NEW n \in 1..Chunks, NEW g \in Seq(1..Chunks)
    PROVE  LET d == Passed(c, n, g)
           IN  /\ d \in Socket /\ d.st = c.st /\ d.sent = n /\ d.up = c.up
               /\ d.got = g /\ d.lost = c.lost
<1>1. n \in 0..Chunks
  BY DEF Chunks
<1> QED
  BY ONLY c \in Socket, g \in Seq(1..Chunks), <1>1 DEF Socket, Passed

LEMMA MissedIs ==
    ASSUME NEW c \in Socket, NEW n \in 1..Chunks
    PROVE  LET d == Missed(c, n)
           IN  /\ d \in Socket /\ d.st = c.st /\ d.sent = n /\ d.up = c.up
               /\ d.got = c.got /\ d.lost = c.lost \cup {n}
<1>1. n \in 0..Chunks
  BY DEF Chunks
<1>2. c.lost \cup {n} \in SUBSET (1..Chunks)
  BY DEF Socket
<1> QED
  BY ONLY c \in Socket, <1>1, <1>2 DEF Socket, Missed

LEMMA ClosedIs ==
    ASSUME NEW c \in Socket
    PROVE  /\ LET d == [c EXCEPT !.st = "closed"]
              IN  /\ d \in Socket /\ d.st = "closed" /\ d.sent = c.sent /\ d.up = c.up
                  /\ d.got = c.got /\ d.lost = c.lost
           /\ LET d == [c EXCEPT !.up = "closed"]
              IN  /\ d \in Socket /\ d.st = c.st /\ d.up = "closed" /\ d.lost = c.lost
           /\ LET d == [c EXCEPT !.st = "closed", !.up = "closed"]
              IN  d \in Socket /\ d.st = "closed" /\ d.up = "closed"
BY DEF Socket

LEMMA EntryStarts == Init => EntryInv
<1> SUFFICES ASSUME Init PROVE EntryInv
  OBVIOUS
<1> USE DEF Init
<1>1. config \in Configs
  <2>1. (CHOOSE c \in Configs : TRUE) \in Configs
    BY ConfigAssumption
  <2> QED
    BY <2>1
<1>2. conn \in Socket
  BY DEF NoSocket, Socket, Chunks
<1>3. task \in [Slot -> Call] /\ \A t \in Slot : CallOK(task[t]) /\ task[t].op = None
  BY IdleIsCall
<1>4. TypeOK
  BY <1>1, <1>2, <1>3 DEF TypeOK, Socket, ModeName
<1>5. ProxyInv
  BY DEF ProxyInv, ProxyComplete, NoSocket
<1>6. BanInv
  BY <1>3, NoneIsApart DEF BanInv, BannedIsRefused, At, Kind
<1>7. MarkInv
  BY <1>3, NoneIsApart DEF MarkInv, Marking, Noted, Alive, Kind
<1> QED
  BY <1>4, <1>5, <1>6, <1>7, PortsAreSound DEF EntryInv

\* The words of a socket.
LEMMA NoSocketIs ==
    /\ NoSocket \in Socket /\ NoSocket.st = "none" /\ NoSocket.up = "none"
    /\ NoSocket.lost = {} /\ NoSocket.sent = 0
BY DEF NoSocket, Socket, Chunks

LEMMA ConnectKeeps == EntryInv /\ Connect => EntryInv'
<1> SUFFICES ASSUME EntryInv, Connect PROVE EntryInv'
  OBVIOUS
<1> USE DEF EntryInv, modes, asks, world
<1> PICK x \in {"closed", "waiting"} : conn' = [NoSocket EXCEPT !.st = x]
  BY DEF Connect
<1>1. conn' \in Socket /\ conn'.lost = {} /\ conn'.up = "none"
  <2>1. conn' = [st |-> x, sent |-> 0, got |-> <<>>, up |-> "none", lost |-> {}]
    BY DEF NoSocket
  <2>2. 0 \in 0..Chunks /\ <<>> \in Seq(1..Chunks)
    BY DEF Chunks
  <2> QED
    BY ONLY <2>1, <2>2, x \in {"closed", "waiting"} DEF Socket
<1>2. TypeOK'
  BY <1>1 DEF TypeOK, Socket, Connect
<1>3. ProxyInv'
  BY <1>1 DEF ProxyInv, ProxyComplete
<1>4. BanInv'
  BY DEF BanInv, BannedIsRefused, At, Connect
<1>5. MarkInv'
  BY MarkStays DEF Connect
<1> QED
  BY <1>2, <1>3, <1>4, <1>5 DEF TypeOK, PortsSound, Connect

LEMMA SocketsKeep ==
    ASSUME EntryInv,
           FirstChunk \/ Hangup \/ UpstreamUp \/ Chunk \/ UpstreamDown \/ CloseOther
    PROVE  EntryInv'
<1>0. conn \in Socket
  BY DEF EntryInv, TypeOK, Socket
<1>p. ProxyInv
  BY DEF EntryInv
<1>u. UNCHANGED <<bans, modes, asks, world, task, races>>
  BY DEF EntryInv, TypeOK, Socket, FirstChunk, Hangup, UpstreamUp, Chunk, UpstreamDown, CloseOther
<1>m. conn' \in Socket /\ ProxyInv' => EntryInv'
  BY <1>u, SocketMoves DEF Socket
<1>n. conn.sent \in Nat /\ conn.sent <= Chunks /\ conn.got \in Seq(1..Chunks)
  BY <1>0 DEF Socket, Chunks
<1> USE DEF ProxyInv, ProxyComplete
<1>1. CASE FirstChunk
  <2> PICK byte \in DOMAIN Routed :
         conn' = [conn EXCEPT !.st = Routed[byte], !.sent = 1,
                              !.up = IF byte = "http" THEN "connecting" ELSE "none"]
    BY <1>1 DEF FirstChunk
  <2>1. Routed[byte] \in {"proxy", "v1", "v2", "closed"} /\ 1 \in 1..Chunks
    BY DEF Routed, Chunks
  <2> DEFINE u == IF byte = "http" THEN "connecting" ELSE "none"
  <2>2. u \in {"none", "connecting"}
    OBVIOUS
  <2> HIDE DEF u
  <2>3. conn' = Turned(conn, Routed[byte], u)
    BY DEF u, Turned
  <2>4. /\ conn' \in Socket /\ conn'.st # "waiting" /\ conn'.up # "open"
        /\ conn'.sent = 1 /\ conn'.lost = conn.lost
    BY <2>1, <2>2, <2>3, <1>0, TurnedIs DEF Phase, Api
  <2>5. conn.lost = {}
    BY <1>p, <1>1 DEF FirstChunk
  <2>6. 2..1 = {}
    OBVIOUS
  <2> QED
    BY <2>4, <2>5, <2>6, <1>m
<1>2. CASE Hangup
  <2>1. conn' = [conn EXCEPT !.st = "closed"]
    BY <1>2 DEF Hangup
  <2>2. /\ conn' \in Socket /\ conn'.st = "closed" /\ conn'.sent = conn.sent
        /\ conn'.up = conn.up /\ conn'.got = conn.got /\ conn'.lost = conn.lost
    BY <2>1, <1>0, ClosedIs
  <2> QED
    BY <2>2, <1>p, <1>m
<1>3. CASE UpstreamUp
  <2>0. conn' = Piped(conn, <<1>>)
    BY <1>3 DEF UpstreamUp, Forwarded, Piped
  <2>1. <<1>> \in Seq(1..Chunks)
    BY DEF Chunks
  <2>2. /\ conn' \in Socket /\ conn'.st = conn.st /\ conn'.up = "open" /\ conn'.got = <<1>>
        /\ conn'.sent = conn.sent /\ conn'.lost = conn.lost
    BY <2>0, <2>1, <1>0, PipedIs
  <2>3. conn.sent >= 1 /\ conn.lost = 2..conn.sent /\ conn.st # "waiting"
    BY <1>3, <1>p DEF UpstreamUp
  <2>4. (1..conn.sent) \ (2..conn.sent) = {1} /\ 2..conn.sent \subseteq 1..conn.sent
    BY <2>3, <1>n
  <2>5. {<<1>>[i] : i \in DOMAIN <<1>>} = {1}
    OBVIOUS
  <2>6. \A i, j \in DOMAIN <<1>> : ~(i < j)
    OBVIOUS
  <2>7. ProxyInv'
    BY <2>2, <2>3, <2>4, <2>5, <2>6
  <2> QED
    BY <2>2, <2>7, <1>m
<1>4. CASE Chunk
  <2> PICK n \in 1..Chunks : n = conn.sent + 1
    BY <1>4, <1>n DEF Chunk, Chunks
  <2>1. conn.st = "proxy" /\ conn.sent \in Nat
    BY <1>4, <1>n DEF Chunk
  <2>2. CASE conn.up = "open"
    <3> DEFINE g == conn.got
    <3>1. conn' = Passed(conn, n, Append(g, n))
      BY <1>4, <2>2, <1>0 DEF Chunk, Socket, Passed
    <3>2. Append(g, n) \in Seq(1..Chunks)
      BY <2>1, <1>n
    <3>3. {g[i] : i \in DOMAIN g} = (1..conn.sent) \ conn.lost
          /\ \A i, j \in DOMAIN g : i < j => g[i] < g[j]
      BY ONLY <1>p, <2>2 DEF ProxyInv, ProxyComplete
    <3>4. g \in Seq(1..Chunks)
      BY <1>n
    <3>h. conn' \in Socket /\ conn'.st = conn.st /\ conn'.up = "open" /\ conn'.sent = n
          /\ conn'.got = Append(g, n) /\ conn'.lost = conn.lost
      <4> DEFINE h == Append(g, n)
      <4>1. h \in Seq(1..Chunks) /\ conn' = Passed(conn, n, h)
        BY <3>1, <3>2
      <4> HIDE DEF g, h
      <4>2. conn' \in Socket /\ conn'.st = conn.st /\ conn'.up = "open" /\ conn'.sent = n
            /\ conn'.got = h /\ conn'.lost = conn.lost
        BY ONLY <4>1, <2>2, <1>0, n \in 1..Chunks, PassedIs
      <4> QED
        BY <4>2 DEF h
    <3> HIDE DEF g
    <3>5. /\ DOMAIN Append(g, n) = 1..(Len(g) + 1) /\ DOMAIN g = 1..Len(g) /\ Len(g) \in Nat
          /\ Append(g, n)[Len(g) + 1] = n
          /\ \A i \in 1..Len(g) : Append(g, n)[i] = g[i]
      BY <3>4, <2>1
    <3>6. \A i \in DOMAIN g : g[i] \in 1..conn.sent
      BY <3>3
    <3>7. \A i, j \in DOMAIN Append(g, n) : i < j => Append(g, n)[i] < Append(g, n)[j]
      <4> SUFFICES ASSUME NEW i \in DOMAIN Append(g, n), NEW j \in DOMAIN Append(g, n), i < j
                   PROVE  Append(g, n)[i] < Append(g, n)[j]
        OBVIOUS
      <4>1. i \in 1..Len(g) /\ Append(g, n)[i] = g[i] /\ g[i] \in 1..conn.sent
        BY <3>5, <3>6
      <4>2. CASE j = Len(g) + 1
        BY <4>1, <4>2, <3>5, <2>1
      <4>3. CASE j \in 1..Len(g)
        BY <4>1, <4>3, <3>5, <3>3
      <4> QED
        BY <4>2, <4>3, <3>5
    <3>8. {Append(g, n)[i] : i \in DOMAIN Append(g, n)} = {g[i] : i \in DOMAIN g} \cup {n}
      BY <3>5
    <3>9. /\ conn.lost \subseteq 1..conn.sent /\ conn.lost \subseteq 1..n
          /\ ((1..conn.sent) \ conn.lost) \cup {n} = (1..n) \ conn.lost
      <4>1. conn.lost \subseteq 1..conn.sent
        BY <1>p, <2>2
      <4> QED
        BY <4>1, <2>1
    <3>10. ProxyInv'
      <4>1. {Append(g, n)[i] : i \in DOMAIN Append(g, n)} = (1..n) \ conn.lost
        BY <3>3, <3>8, <3>9
      <4> QED
        BY <3>h, <3>7, <3>9, <4>1, <2>1
    <3> QED
      BY <3>h, <3>10, <1>m
  <2>3. CASE conn.up # "open"
    <3>1. conn' = Missed(conn, n)
      BY <1>4, <2>3 DEF Chunk, Missed
    <3>2. /\ conn' \in Socket /\ conn'.st = conn.st /\ conn'.up = conn.up /\ conn'.sent = n
          /\ conn'.lost = conn.lost \cup {n}
      BY <3>1, <1>0, MissedIs
    <3>3. conn.up = "connecting" => conn.sent >= 1 /\ (2..conn.sent) \cup {n} = 2..n
      BY <1>p, <2>1
    <3>4. ProxyInv'
      BY <3>2, <3>3, <1>p, <2>1, <2>3
    <3> QED
      BY <3>2, <3>4, <1>m
  <2> QED
    BY <2>2, <2>3
<1>5. CASE UpstreamDown
  <2>1. conn' = [conn EXCEPT !.up = "closed"]
    BY <1>5 DEF UpstreamDown
  <2>2. /\ conn' \in Socket /\ conn'.st = conn.st /\ conn'.up = "closed"
        /\ conn'.lost = conn.lost
    BY <2>1, <1>0, ClosedIs
  <2> QED
    BY <2>2, <1>p, <1>m
<1>6. CASE CloseOther
  <2>1. conn' = [conn EXCEPT !.st = "closed", !.up = "closed"]
    BY <1>6 DEF CloseOther
  <2>2. conn' \in Socket /\ conn'.st = "closed" /\ conn'.up = "closed"
    BY <2>1, <1>0, ClosedIs
  <2> QED
    BY <2>2, <1>m
<1> QED
  BY <1>1, <1>2, <1>3, <1>4, <1>5, <1>6

-------------------------------------------------------------------------------
(* Failures and bans. *)

\* Where the marks are the same calls as before and nothing they are about has changed.
LEMMA MarksRest ==
    ASSUME MarkInv, NEW t \in Slot, Others(t), task[t].op # "mark", task'[t].op # "mark",
           redis' = redis, modes' = modes, "mark" \notin races' => "mark" \notin races
    PROVE  MarkInv'
<1>1. \A s \in Slot : /\ task'[s].op = "mark" <=> task[s].op = "mark"
                      /\ task[s].op = "mark" => task'[s] = task[s]
  BY DEF Others
<1> QED
  BY <1>1, MarkStays DEF modes

LEMMA MisbehaveKeeps == ASSUME EntryInv, NEW t \in Slot, Misbehave(t) PROVE EntryInv'
<1> USE DEF EntryInv
<1>0. TypeOK /\ task[t] = Idle /\ redis
  BY DEF Misbehave, Start
<1> DEFINE r == [op |-> "failure", v |-> None, pc |-> "incr", age |-> 0]
<1>1. r \in Call /\ CallOK(r)
  BY SpanAssumption DEF Call, CallOK, Kind, Pc
<1>2. Start(t, "failure", "incr", None)
  BY DEF Misbehave
<1>3. task' \in [Slot -> Call] /\ (\A s \in Slot : CallOK(task'[s])) /\ Others(t) /\ task'[t] = r
  BY <1>0, <1>1, <1>2, StartIs
<1>4. conn' = [conn EXCEPT !.st = "closed"] /\ conn \in Socket
  BY DEF Misbehave, TypeOK, Socket
<1>5. /\ conn' \in Socket /\ conn'.st = "closed" /\ conn'.sent = conn.sent
      /\ conn'.up = conn.up /\ conn'.got = conn.got /\ conn'.lost = conn.lost
  BY <1>4, ClosedIs
<1>6. TypeOK'
  BY <1>0, <1>3, <1>5 DEF Misbehave, TypeOK, Socket, bans, modes, asks, world
<1>7. ProxyInv'
  BY <1>5 DEF ProxyInv, ProxyComplete
<1>8. BanInv'
  <2>1. \A s \in Slot : /\ task'[s].op = "refresh" => task[s].op = "refresh"
                        /\ At(s, "refresh", "merge")' => At(s, "refresh", "merge")
                        /\ At(s, "failure", "reset") => At(s, "failure", "reset")'
    BY <1>0, <1>3, IdleIsCall, NoneIsApart DEF At, Others, Kind
  <2> QED
    BY <1>0, <2>1, BanStays DEF Misbehave, bans, world
<1>9. MarkInv'
  BY <1>0, <1>3, IdleIsCall, NoneIsApart, MarksRest DEF Misbehave, world, Kind
<1> QED
  BY <1>6, <1>7, <1>8, <1>9 DEF PortsSound, Misbehave, world

LEMMA LocalKeeps == EntryInv /\ MisbehaveLocally => EntryInv'
<1> SUFFICES ASSUME EntryInv, MisbehaveLocally PROVE EntryInv'
  OBVIOUS
<1> USE DEF EntryInv, modes, asks, world
<1>1. conn' = [conn EXCEPT !.st = "closed"] /\ conn \in Socket
  BY DEF MisbehaveLocally, TypeOK, Socket
<1>2. /\ conn' \in Socket /\ conn'.st = "closed" /\ conn'.sent = conn.sent
      /\ conn'.up = conn.up /\ conn'.got = conn.got /\ conn'.lost = conn.lost
  BY <1>1, ClosedIs
<1>m. /\ count' \in Nat /\ timed' \in BOOLEAN /\ banned' \in BOOLEAN
      /\ cached' \in {"no", "yes", "lapsed"}
  <2>1. CASE count + 1 > MaxFailures
    <3>1. count' = 0 /\ timed' = FALSE /\ banned' = TRUE /\ cached' = "yes"
      BY <2>1 DEF MisbehaveLocally
    <3> QED
      BY <3>1
  <2>2. CASE ~(count + 1 > MaxFailures)
    <3>1. count' = count + 1 /\ timed' = TRUE /\ banned' = banned /\ cached' = cached
      BY <2>2 DEF MisbehaveLocally
    <3> QED
      BY <3>1 DEF TypeOK
  <2> QED
    BY <2>1, <2>2
<1>3. TypeOK'
  BY <1>2, <1>m DEF MisbehaveLocally, TypeOK, Socket
<1>4. ProxyInv'
  BY <1>2 DEF ProxyInv, ProxyComplete
<1>5. BanInv'
  BY DEF MisbehaveLocally, BanInv, BannedIsRefused, At
<1>6. MarkInv'
  BY MarkStays DEF MisbehaveLocally
<1> QED
  BY <1>3, <1>4, <1>5, <1>6 DEF PortsSound, MisbehaveLocally

\* What a step of a failure or of a refresh does with its own call.
LEMMA BanStepIs ==
    ASSUME EntryInv, NEW t \in Slot, BanStep(t)
    PROVE  /\ task[t].op \in {"failure", "refresh"} /\ task'[t].op \in {task[t].op, None}
           /\ task' \in [Slot -> Call] /\ \A s \in Slot : CallOK(task'[s])
           /\ Others(t)
           /\ task'[t].pc = "reset" <=> Ban(t)
           /\ task'[t].pc = "merge" <=> ScanBans(t) /\ ~banned
<1>0. TypeOK
  BY DEF EntryInv
<1>1. task[t] \in Call /\ CallOK(task[t]) /\ task[t].op \in {"failure", "refresh"}
  BY <1>0 DEF TypeOK, BanStep, Count, TimeCounter, Ban, ResetCounter, ScanBans, ReadTtl,
     MergeBans, At
<1>2. task[t] # Idle
  BY <1>1, IdleIsCall, NoneIsApart DEF Kind
<1>3. PICK pc \in {"expire", "ban", "reset", "ttl", "merge", "over"} :
        /\ (pc = "over" /\ End(t)) \/ (pc # "over" /\ Go(t, pc))
        /\ pc \in {"expire", "ban", "reset"} => task[t].op = "failure"
        /\ pc \in {"ttl", "merge"} => task[t].op = "refresh"
        /\ pc = "reset" <=> Ban(t)
        /\ pc = "merge" <=> ScanBans(t) /\ ~banned
  <2>1. CASE Count(t)
    BY <2>1 DEF Count, At, Ban, ScanBans
  <2>2. CASE TimeCounter(t) \/ ResetCounter(t) \/ ReadTtl(t) \/ MergeBans(t)
    BY <2>2 DEF TimeCounter, ResetCounter, ReadTtl, MergeBans, At, Ban, ScanBans
  <2>3. CASE Ban(t)
    BY <2>3 DEF At, Ban, ScanBans
  <2>4. CASE ScanBans(t)
    BY <2>4 DEF At, Ban, ScanBans
  <2> QED
    BY <2>1, <2>2, <2>3, <2>4 DEF BanStep
<1>4. CASE pc = "over"
  BY <1>0, <1>1, <1>3, <1>4, EndIs, IdleIsCall, NoneIsApart DEF Idle, Pc
<1>5. CASE pc # "over"
  <2>1. Go(t, pc) /\ [task[t] EXCEPT !.pc = pc] \in Call /\ CallOK([task[t] EXCEPT !.pc = pc])
    BY <1>1, <1>2, <1>3, <1>5, Steps
  <2>2. /\ task' \in [Slot -> Call] /\ \A s \in Slot : CallOK(task'[s])
        /\ Others(t) /\ task'[t].op = task[t].op /\ task'[t].pc = pc
    BY <1>0, <2>1, GoIs
  <2> QED
    BY <1>1, <1>3, <2>2
<1> QED
  BY <1>4, <1>5

LEMMA BanStepKeeps == ASSUME EntryInv, NEW t \in Slot, BanStep(t) PROVE EntryInv'
<1> USE DEF EntryInv, bans, modes, asks, world
<1>0. BanStep(t) /\ UNCHANGED <<modes, asks, world, conn, todo>>
      /\ ("mark" \notin races' => "mark" \notin races)
      /\ (~ReadTtl(t) => races \subseteq races') /\ races' \subseteq races \cup {"ban"}
  BY DEF BanStep, Count, TimeCounter, Ban, ResetCounter, ScanBans, ReadTtl, MergeBans
<1>1. /\ task[t].op \in {"failure", "refresh"} /\ task'[t].op \in {task[t].op, None}
      /\ task' \in [Slot -> Call] /\ \A s \in Slot : CallOK(task'[s])
      /\ Others(t)
      /\ task'[t].pc = "reset" <=> Ban(t)
      /\ task'[t].pc = "merge" <=> ScanBans(t) /\ ~banned
  BY BanStepIs
<1>2. /\ count' \in Nat /\ timed' \in BOOLEAN /\ banned' \in BOOLEAN
      /\ cached' \in {"no", "yes", "lapsed"}
  <2>1. CASE Count(t)
    BY <2>1 DEF TypeOK, Count
  <2>2. CASE Ban(t)
    <3>1. banned' = TRUE /\ count' = count /\ timed' = timed /\ cached' = cached
      BY <2>2 DEF Ban
    <3> QED
      BY <3>1 DEF TypeOK
  <2>r. CASE ResetCounter(t)
    <3>1. count' = 0 /\ timed' = FALSE /\ cached' = "yes" /\ banned' = banned
      BY <2>r DEF ResetCounter
    <3> QED
      BY <3>1 DEF TypeOK
  <2>t. CASE TimeCounter(t)
    <3>1. timed' = (count > 0) /\ count' = count /\ banned' = banned /\ cached' = cached
      BY <2>t DEF TimeCounter
    <3>2. timed' \in BOOLEAN
      <4>1. CASE count > 0
        BY <3>1, <4>1
      <4>2. CASE ~(count > 0)
        BY <3>1, <4>2
      <4> QED
        BY <4>1, <4>2
    <3> QED
      BY <3>1, <3>2 DEF TypeOK
  <2>3. CASE ScanBans(t) \/ ReadTtl(t) \/ MergeBans(t)
    BY <2>3 DEF TypeOK, ScanBans, ReadTtl, MergeBans, Dropped
  <2> QED
    BY <1>0, <2>1, <2>2, <2>r, <2>t, <2>3 DEF BanStep
<1>3. TypeOK'
  BY <1>0, <1>1, <1>2 DEF TypeOK
<1>4. ProxyInv'
  BY <1>0, ProxyStays
<1>5. MarkInv'
  BY <1>0, <1>1, MarksRest, NoneIsApart DEF Kind
<1>6. redis
  BY <1>1 DEF BanInv
<1>7. \A s \in Slot : task'[s].op \in {"failure", "refresh"} => redis'
  BY <1>0, <1>6
<1>8. BanInv'
  <2>u. \A x, y \in Slot : task'[x].op = "refresh" /\ task'[y].op = "refresh" => x = y
    BY <1>1, NoneIsApart DEF BanInv, Others, Kind
  <2> SUFFICES ASSUME "ban" \notin races'
               PROVE  /\ \A s \in Slot : At(s, "refresh", "merge")' => ~banned'
                      /\ BannedIsRefused'
    BY <1>7, <2>u DEF BanInv, BannedIsRefused
  <2>r. CASE ReadTtl(t) /\ banned
    <3>1. /\ At(t, "refresh", "ttl") /\ cached' = "yes"
      BY <2>r DEF ReadTtl
    <3>2. task'[t].pc # "merge"
      BY <1>1, <2>r, <3>1, NoneIsApart DEF ScanBans, At
    <3>3. \A s \in Slot : ~At(s, "refresh", "merge")'
      BY <1>1, <3>1, <3>2 DEF BanInv, At, Others
    <3> QED
      BY <3>1, <3>3 DEF BannedIsRefused
  <2> SUFFICES ASSUME ~(ReadTtl(t) /\ banned)
               PROVE  /\ \A s \in Slot : At(s, "refresh", "merge")' => ~banned'
                      /\ BannedIsRefused'
    BY <2>r
  <2>0. "ban" \notin races
    BY <1>0 DEF ReadTtl
  <2>1. CASE Ban(t)
    <3>1. ~InFlight("refresh")
      BY <2>1 DEF Ban
    <3>2. \A s \in Slot : ~At(s, "refresh", "merge")'
      BY <3>1, <1>1, NoneIsApart DEF InFlight, At, Others, Kind
    <3>3. At(t, "failure", "reset")'
      BY <1>1, <2>1, NoneIsApart DEF At, Ban, Kind, CallOK, Idle, Pc
    <3> QED
      BY <3>2, <3>3 DEF BannedIsRefused
  <2>2. CASE ResetCounter(t)
    <3>1. ~InFlight("refresh") /\ banned' = banned /\ cached' = "yes"
      BY <2>2 DEF ResetCounter
    <3>2. \A s \in Slot : ~At(s, "refresh", "merge")'
      BY <3>1, <1>1, NoneIsApart DEF InFlight, At, Others, Kind
    <3> QED
      BY <3>1, <3>2 DEF BannedIsRefused
  <2>3. CASE ~Ban(t) /\ ~ResetCounter(t)
    <3>1. banned' = banned
      BY <2>3, <1>0 DEF BanStep, Count, TimeCounter, ScanBans, ReadTtl, MergeBans
    <3>2. \A s \in Slot : At(s, "failure", "reset") => At(s, "failure", "reset")'
      <4>1. ~At(t, "failure", "reset")
        BY <2>3, <1>0 DEF BanStep, Count, TimeCounter, ScanBans, ReadTtl, MergeBans, At
      <4> QED
        BY <4>1, <1>1 DEF At, Others
    <3>3. banned => cached' = cached \/ cached' = "yes"
      <4>1. CASE MergeBans(t)
        BY <4>1, <2>0 DEF BanInv, MergeBans
      <4> QED
        BY <4>1, <2>3, <1>0 DEF BanStep, Count, TimeCounter, ScanBans, ReadTtl
    <3>4. \A s \in Slot : At(s, "refresh", "merge")' => ~banned'
      <4> SUFFICES ASSUME NEW s \in Slot, At(s, "refresh", "merge")' PROVE ~banned
        BY <3>1
      <4>1. CASE s = t
        BY <4>1, <1>1 DEF At
      <4>2. CASE s # t
        BY <4>2, <1>1, <2>0 DEF At, Others, BanInv
      <4> QED
        BY <4>1, <4>2
    <3> QED
      BY <3>1, <3>2, <3>3, <3>4, <2>0 DEF BanInv, BannedIsRefused
  <2> QED
    BY <2>1, <2>2, <2>3
<1> QED
  BY <1>0, <1>3, <1>4, <1>5, <1>8 DEF PortsSound

LEMMA TimesKeep == EntryInv /\ (WindowOver \/ BanOver \/ Lift) => EntryInv'
<1> SUFFICES ASSUME EntryInv, WindowOver \/ BanOver \/ Lift PROVE EntryInv'
  OBVIOUS
<1> USE DEF EntryInv
<1>1. /\ UNCHANGED <<modes, asks, world, conn, task, races>>
      /\ banned' = banned \/ banned' = FALSE
      /\ cached' = cached \/ banned' = FALSE
  BY DEF WindowOver, BanOver, Lift
<1>2. /\ count' \in Nat /\ timed' \in BOOLEAN /\ banned' \in BOOLEAN
      /\ cached' \in {"no", "yes", "lapsed"}
  <2>1. CASE WindowOver
    <3>1. count' = 0 /\ timed' = FALSE /\ banned' = banned /\ cached' = cached
      BY <2>1 DEF WindowOver
    <3> QED
      BY <3>1 DEF TypeOK
  <2>2. CASE BanOver
    <3>1. banned' = FALSE /\ count' = count /\ timed' = timed /\ cached' \in {cached, "lapsed"}
      BY <2>2 DEF BanOver
    <3> QED
      BY <3>1 DEF TypeOK
  <2>3. CASE Lift
    <3>1. banned' = FALSE /\ count' = count /\ timed' = timed /\ cached' = cached
      BY <2>3 DEF Lift
    <3> QED
      BY <3>1 DEF TypeOK
  <2> QED
    BY <2>1, <2>2, <2>3
<1>3. TypeOK'
  BY <1>1, <1>2 DEF TypeOK, modes, asks, world
<1>4. BanInv'
  BY <1>1 DEF BanInv, BannedIsRefused, At, world
<1>5. MarkInv'
  BY <1>1, MarkStays DEF modes, world
<1> QED
  BY <1>1, <1>3, <1>4, <1>5, ProxyStays DEF PortsSound, world

\* A call that is neither of a failure nor about to drop a ban begins.
LEMMA BansRest ==
    ASSUME BanInv, NEW t \in Slot, Others(t),
           task'[t].op \in {"failure", "refresh"} => redis,
           task'[t].op = "refresh" => task[t].op = "refresh",
           ~At(t, "failure", "reset"), ~At(t, "refresh", "merge")',
           redis' = redis, bans' = bans, "ban" \notin races' => "ban" \notin races
    PROVE  BanInv'
<1>1. \A s \in Slot : /\ task'[s].op \in {"failure", "refresh"} => redis
                      /\ task'[s].op = "refresh" => task[s].op = "refresh"
                      /\ At(s, "refresh", "merge")' => At(s, "refresh", "merge")
                      /\ At(s, "failure", "reset") => At(s, "failure", "reset")'
  BY DEF Others, At, BanInv
<1> QED
  BY <1>1, BanStays DEF bans

LEMMA RefreshKeeps == ASSUME EntryInv, NEW t \in Slot, RefreshBans(t) PROVE EntryInv'
<1> USE DEF EntryInv
<1> DEFINE r == [op |-> "refresh", v |-> None, pc |-> "scan", age |-> 0]
<1>1. r \in Call /\ CallOK(r)
  BY SpanAssumption DEF Call, CallOK, Kind, Pc
<1>2. Start(t, "refresh", "scan", None) /\ redis
  BY DEF RefreshBans
<1>3. /\ task' \in [Slot -> Call] /\ \A s \in Slot : CallOK(task'[s])
      /\ task[t] = Idle /\ Others(t) /\ task'[t] = r
  BY <1>1, <1>2, StartIs
<1>4. TypeOK'
  BY <1>3 DEF RefreshBans, TypeOK, bans, modes, asks, world
<1>5. BanInv'
  <2>1. \A s \in Slot : task[s].op # "refresh"
    BY DEF RefreshBans, InFlight
  <2>2. \A x, y \in Slot : task'[x].op = "refresh" /\ task'[y].op = "refresh" => x = y
    BY <1>3, <2>1 DEF Others
  <2>3. \A s \in Slot : /\ ~At(s, "refresh", "merge")'
                        /\ At(s, "failure", "reset") <=> At(s, "failure", "reset")'
                        /\ task'[s].op \in {"failure", "refresh"} => redis
    BY <1>2, <1>3, <2>1, IdleIsCall, NoneIsApart DEF BanInv, At, Others, Kind
  <2> QED
    BY <2>2, <2>3 DEF RefreshBans, BanInv, BannedIsRefused, bans, world
<1>6. MarkInv'
  BY <1>3, IdleIsCall, NoneIsApart, MarksRest DEF RefreshBans, world, Kind
<1> QED
  BY <1>4, <1>5, <1>6, ProxyStays DEF PortsSound, RefreshBans, world

-------------------------------------------------------------------------------
(* What the dashboard asks. *)

LEMMA ModesAreNamed ==
    /\ \A b \in BOOLEAN : Standing(b) \in ModeName
    /\ \A m : Mode(m) \in ModeName
BY DEF Standing, Mode, ModeName

LEMMA ToldIs ==
    ASSUME TypeOK, NEW t \in Slot, NEW m \in ModeName, Told(t, m)
    PROVE  answer' \in Mark /\ shown' \in ModeName /\ End(t)
<1>1. task[t] \in Call
  BY DEF TypeOK
<1>2. task[t].age \in 0..Ttl
  BY <1>1 DEF Call
<1> QED
  BY <1>2 DEF Told, Mark

LEMMA AskKeeps == ASSUME EntryInv, NEW t \in Slot, Ask(t) PROVE EntryInv'
<1> USE DEF EntryInv
<1>1. CASE FreshAnswer /\ shown' = answer.mode /\ UNCHANGED task
  <2>1. answer \in Mark
    BY <1>1 DEF FreshAnswer, TypeOK
  <2>2. shown' \in ModeName
    BY <1>1, <2>1 DEF Mark
  <2>3. TypeOK'
    BY <1>1, <2>2 DEF Ask, TypeOK, bans, modes, world
  <2>4. BanInv'
    BY <1>1, BanStays DEF BanInv, Ask, At, bans, world
  <2>5. MarkInv'
    BY <1>1, MarkStays DEF Ask, modes, world
  <2> QED
    BY <2>3, <2>4, <2>5, ProxyStays DEF PortsSound, Ask, world
<1>2. CASE Start(t, "ask", "live", None) /\ UNCHANGED shown
  <2> DEFINE r == [op |-> "ask", v |-> None, pc |-> "live", age |-> 0]
  <2>1. r \in Call /\ CallOK(r)
    BY SpanAssumption DEF Call, CallOK, Kind, Pc
  <2>2. /\ task' \in [Slot -> Call] /\ \A s \in Slot : CallOK(task'[s])
        /\ task[t] = Idle /\ Others(t) /\ task'[t] = r
    BY <1>2, <2>1, StartIs
  <2>3. TypeOK'
    BY <1>2, <2>2 DEF Ask, TypeOK, bans, modes, world
  <2>4. BanInv'
    BY <2>2, IdleIsCall, NoneIsApart, BansRest DEF Ask, At, world, Kind
  <2>5. MarkInv'
    BY <2>2, IdleIsCall, NoneIsApart, MarksRest DEF Ask, world, Kind
  <2> QED
    BY <2>3, <2>4, <2>5, ProxyStays DEF PortsSound, Ask, world
<1> QED
  BY <1>1, <1>2 DEF Ask

LEMMA ReadsKeep ==
    ASSUME EntryInv, NEW t \in Slot, ReadLive(t) \/ ReadWindow(t) PROVE EntryInv'
<1> USE DEF EntryInv
<1>0. UNCHANGED <<bans, modes, world, conn, todo, races>> /\ task[t].op = "ask"
  BY DEF ReadLive, ReadWindow, At
<1>1. \/ \E m \in ModeName : Told(t, m)
      \/ Go(t, "window") /\ UNCHANGED asks
  <2>1. CASE ReadLive(t)
    <3>1. CASE redis /\ marker # None /\ Live(marker)
      BY <2>1, <3>1 DEF ReadLive, TypeOK
    <3>2. CASE ~(redis /\ marker # None /\ Live(marker))
      BY <2>1, <3>2, ModesAreNamed DEF ReadLive
    <3> QED
      BY <3>1, <3>2
  <2>2. CASE ReadWindow(t)
    BY <2>2 DEF ReadWindow, ModeName
  <2> QED
    BY <2>1, <2>2
<1>2. /\ task' \in [Slot -> Call] /\ \A s \in Slot : CallOK(task'[s])
      /\ Others(t) /\ task'[t].op \in {"ask", None}
      /\ answer' \in Mark \cup {None} /\ shown' \in ModeName \cup {None}
  <2>1. CASE \E m \in ModeName : Told(t, m)
    BY <2>1, ToldIs, EndIs
  <2>2. CASE Go(t, "window") /\ UNCHANGED asks
    <3>1. task[t] \in Call /\ CallOK(task[t]) /\ task[t] # Idle
      BY <1>0, IdleIsCall, NoneIsApart DEF TypeOK, Kind
    <3>2. [task[t] EXCEPT !.pc = "window"] \in Call /\ CallOK([task[t] EXCEPT !.pc = "window"])
      BY <1>0, <3>1, Steps
    <3> QED
      BY <1>0, <2>2, <3>2, GoIs DEF TypeOK, asks
  <2> QED
    BY <1>1, <2>1, <2>2
<1>3. TypeOK'
  BY <1>0, <1>2 DEF TypeOK, bans, modes, world
<1>4. BanInv'
  BY <1>0, <1>2, NoneIsApart, BansRest DEF At, world, Kind
<1>5. MarkInv'
  BY <1>0, <1>2, NoneIsApart, MarksRest DEF world, Kind
<1> QED
  BY <1>0, <1>3, <1>4, <1>5, ProxyStays DEF PortsSound, world

-------------------------------------------------------------------------------
(* The marker. *)

LEMMA DebounceIs ==
    ASSUME TypeOK, Marked
    PROVE  lastMark \in Mark /\ lastMark # None /\ lastMark.age \in Nat /\ lastMark.age < Refresh
<1>1. lastMark # None /\ lastMark.age < Refresh
  BY DEF Marked
<1>2. lastMark \in Mark
  BY <1>1 DEF TypeOK
<1> QED
  BY <1>1, <1>2, SpanAssumption DEF Mark

LEMMA ShareKeeps == ASSUME EntryInv, NEW t \in Slot, NEW m, Share(t, m) PROVE EntryInv'
<1> USE DEF EntryInv
<1> DEFINE r == [op |-> "mark", v |-> Mode(m), pc |-> "set", age |-> 0]
<1>0. /\ UNCHANGED <<bans, marker, mAge, lastMark, asks, config, ports, redis, party, group, conn>>
      /\ shared' = [mode |-> Mode(m), age |-> 0]
      /\ window' = (window \/ m = "pplns")
      /\ races' = IF InFlight("mark") THEN races \cup {"mark"} ELSE races
      /\ IF ~redis \/ Debounced(Mode(m)) THEN task[t] = Idle /\ UNCHANGED task
         ELSE Start(t, "mark", "set", Mode(m))
  BY DEF Share
<1>1. r \in Call /\ CallOK(r)
  BY ModesAreNamed, NoneIsApart, SpanAssumption DEF Call, CallOK, Kind, Pc
<1>2. /\ task' \in [Slot -> Call] /\ \A s \in Slot : CallOK(task'[s])
      /\ task[t] = Idle /\ Others(t)
      /\ \/ task' = task /\ (~redis \/ Debounced(Mode(m)))
         \/ task'[t] = r /\ redis
  <2>1. CASE ~redis \/ Debounced(Mode(m))
    BY <1>0, <2>1 DEF TypeOK, Others
  <2>2. CASE ~(~redis \/ Debounced(Mode(m)))
    <3>1. Start(t, "mark", "set", Mode(m))
      BY <1>0, <2>2
    <3> QED
      BY <1>1, <2>2, <3>1, StartIs
  <2> QED
    BY <2>1, <2>2
<1>3. shared' \in Mark /\ shared'.mode = Mode(m) /\ shared'.age = 0
  BY <1>0, ModesAreNamed, SpanAssumption DEF Mark
<1>4. window' \in BOOLEAN
  <2>1. CASE m = "pplns"
    BY <1>0, <2>1
  <2>2. CASE m # "pplns"
    BY <1>0, <2>2 DEF TypeOK
  <2> QED
    BY <2>1, <2>2
<1>5. TypeOK'
  BY <1>0, <1>2, <1>3, <1>4 DEF TypeOK, bans, asks
<1>6. BanInv'
  BY <1>0, <1>2, IdleIsCall, NoneIsApart, BansRest DEF At, Kind
<1>7. MarkInv'
  <2> SUFFICES ASSUME "mark" \notin races'
               PROVE  /\ \A x, y \in Slot : task'[x].op = "mark" /\ task'[y].op = "mark" => x = y
                      /\ \A s \in Slot : Marking(s)'
                      /\ Noted' /\ Alive'
    BY DEF MarkInv
  <2>1. ~InFlight("mark") /\ "mark" \notin races
    BY <1>0
  <2>2. \A s \in Slot : task[s].op # "mark"
    BY <2>1 DEF InFlight
  <2>3. Noted /\ ~Writing
    BY <2>1, <2>2 DEF MarkInv, Writing
  <2>4. CASE task' = task /\ (~redis \/ Debounced(Mode(m)))
    <3>1. \A s \in Slot : task'[s].op # "mark"
      BY <2>2, <2>4
    <3>2. Noted'
      BY <2>3, <2>4, <1>0 DEF Noted, Writing
    <3>3. ASSUME redis PROVE marker = Mode(m) /\ mAge # None /\ mAge < Refresh
      <4>1. Marked /\ lastMark.mode = Mode(m)
        BY <2>4, <3>3 DEF Debounced
      <4> QED
        BY <4>1, <2>3, DebounceIs, NoneIsApart, SpanAssumption DEF Noted
    <3>4. Alive'
      BY <1>0, <1>3, <3>3, SpanAssumption DEF Alive
    <3> QED
      BY <3>1, <3>2, <3>4 DEF Marking
  <2>5. CASE task'[t] = r
    <3>1. task'[t].op = "mark" /\ task'[t].pc = "set" /\ task'[t].v = Mode(m)
      BY <2>5
    <3>2. \A s \in Slot \ {t} : task'[s].op # "mark"
      BY <1>2, <2>2 DEF Others
    <3>3. InFlight("mark")' /\ ~Writing'
      BY <3>1, <3>2 DEF InFlight, Writing
    <3>4. \A s \in Slot : Marking(s)'
      BY <1>3, <3>1, <3>2 DEF Marking
    <3> QED
      BY <1>0, <2>3, <3>2, <3>3, <3>4 DEF Noted, Alive
  <2> QED
    BY <1>2, <2>4, <2>5
<1> QED
  BY <1>0, <1>5, <1>6, <1>7, ProxyStays DEF PortsSound

\* What a step of a mark does with its call.
LEMMA MarkGoes ==
    ASSUME TypeOK, NEW t \in Slot, NEW pc \in {"set", "bare", "time", "note"},
           task[t].op = "mark", Go(t, pc)
    PROVE  /\ task' \in [Slot -> Call] /\ \A s \in Slot : CallOK(task'[s])
           /\ Others(t) /\ task'[t].op = "mark" /\ task'[t].pc = pc /\ task'[t].v = task[t].v
<1>1. task[t] \in Call /\ CallOK(task[t]) /\ task[t] # Idle
  BY IdleIsCall, NoneIsApart DEF TypeOK, Kind
<1>2. [task[t] EXCEPT !.pc = pc] \in Call /\ CallOK([task[t] EXCEPT !.pc = pc])
  BY <1>1, Steps
<1> QED
  BY <1>2, GoIs

LEMMA SetKeeps == ASSUME EntryInv, NEW t \in Slot, SetMarker(t) PROVE EntryInv'
<1> USE DEF EntryInv
<1>0. /\ UNCHANGED <<bans, lastMark, shared, asks, world, conn, todo, races>>
      /\ task[t].op = "mark" /\ marker' = task[t].v
      /\ \/ task[t].pc = "set" /\ mAge' = 0 /\ Go(t, "note")
         \/ task[t].pc = "bare" /\ mAge' = None /\ Go(t, "time")
  BY DEF SetMarker
<1>1. /\ task' \in [Slot -> Call] /\ \A s \in Slot : CallOK(task'[s])
      /\ Others(t) /\ task'[t].op = "mark" /\ task'[t].v = task[t].v
      /\ \/ task'[t].pc = "note" /\ mAge' = 0
         \/ task'[t].pc = "time" /\ mAge' = None
  BY <1>0, MarkGoes
<1>2. task[t].v \in ModeName
  BY <1>0, Kinds
<1>3. TypeOK'
  BY <1>0, <1>1, <1>2, SpanAssumption DEF TypeOK, bans, asks, world
<1>4. BanInv'
  BY <1>0, <1>1, BansRest DEF At, world
<1>5. MarkInv'
  <2> SUFFICES ASSUME "mark" \notin races'
               PROVE  /\ \A x, y \in Slot : task'[x].op = "mark" /\ task'[y].op = "mark" => x = y
                      /\ \A s \in Slot : Marking(s)'
                      /\ Noted' /\ Alive'
    BY DEF MarkInv
  <2>1. Marking(t) /\ \A s \in Slot \ {t} : task[s].op # "mark"
    BY <1>0 DEF MarkInv
  <2>2. \A s \in Slot \ {t} : task'[s].op # "mark"
    BY <1>1, <2>1 DEF Others
  <2>3. Writing' /\ InFlight("mark")'
    BY <1>1 DEF Writing, InFlight
  <2>4. \A s \in Slot : Marking(s)'
    BY <1>0, <1>1, <2>1, <2>2 DEF Marking
  <2> QED
    BY <2>2, <2>3, <2>4 DEF Noted, Alive
<1> QED
  BY <1>0, <1>3, <1>4, <1>5, ProxyStays DEF PortsSound, world

LEMMA TimeKeeps == ASSUME EntryInv, NEW t \in Slot, TimeMarker(t) PROVE EntryInv'
<1> USE DEF EntryInv
<1>0. /\ UNCHANGED <<bans, marker, lastMark, shared, asks, world, conn, todo, races>>
      /\ task[t].op = "mark" /\ task[t].pc = "time" /\ Go(t, "note")
      /\ mAge' = IF marker = None THEN None ELSE 0
  BY DEF TimeMarker, At
<1>1. /\ task' \in [Slot -> Call] /\ \A s \in Slot : CallOK(task'[s])
      /\ Others(t) /\ task'[t].op = "mark" /\ task'[t].v = task[t].v /\ task'[t].pc = "note"
  BY <1>0, MarkGoes
<1>2. task[t].v \in ModeName
  BY <1>0, Kinds
<1>3. TypeOK'
  BY <1>0, <1>1, SpanAssumption DEF TypeOK, bans, asks, world
<1>4. BanInv'
  BY <1>0, <1>1, BansRest DEF At, world
<1>5. MarkInv'
  <2> SUFFICES ASSUME "mark" \notin races'
               PROVE  /\ \A x, y \in Slot : task'[x].op = "mark" /\ task'[y].op = "mark" => x = y
                      /\ \A s \in Slot : Marking(s)'
                      /\ Noted' /\ Alive'
    BY DEF MarkInv
  <2>1. Marking(t) /\ \A s \in Slot \ {t} : task[s].op # "mark"
    BY <1>0 DEF MarkInv
  <2>2. \A s \in Slot \ {t} : task'[s].op # "mark"
    BY <1>1, <2>1 DEF Others
  <2>3. Writing' /\ InFlight("mark")'
    BY <1>1 DEF Writing, InFlight
  <2>4. marker # None
    BY <1>0, <1>2, <2>1, NoneIsApart DEF Marking
  <2>5. \A s \in Slot : Marking(s)'
    BY <1>0, <1>1, <2>1, <2>2, <2>4 DEF Marking
  <2> QED
    BY <2>2, <2>3, <2>5 DEF Noted, Alive
<1> QED
  BY <1>0, <1>3, <1>4, <1>5, ProxyStays DEF PortsSound, world

LEMMA NoteKeeps == ASSUME EntryInv, NEW t \in Slot, NoteMark(t) PROVE EntryInv'
<1> USE DEF EntryInv
<1>0. /\ UNCHANGED <<bans, marker, mAge, shared, asks, world, conn, todo, races>>
      /\ task[t].op = "mark" /\ task[t].pc = "note" /\ End(t)
      /\ lastMark' = [mode |-> task[t].v, age |-> 0]
  BY DEF NoteMark, At
<1>1. /\ task' \in [Slot -> Call] /\ \A s \in Slot : CallOK(task'[s])
      /\ Others(t) /\ task'[t].op = None
  BY <1>0, EndIs
<1>2. task[t].v \in ModeName
  BY <1>0, Kinds
<1>3. lastMark' \in Mark /\ lastMark'.mode = task[t].v /\ lastMark'.age = 0
  BY <1>0, <1>2, SpanAssumption DEF Mark
<1>4. TypeOK'
  BY <1>0, <1>1, <1>3 DEF TypeOK, bans, asks, world
<1>5. BanInv'
  BY <1>0, <1>1, NoneIsApart, BansRest DEF At, world, Kind
<1>6. MarkInv'
  <2> SUFFICES ASSUME "mark" \notin races'
               PROVE  /\ \A x, y \in Slot : task'[x].op = "mark" /\ task'[y].op = "mark" => x = y
                      /\ \A s \in Slot : Marking(s)'
                      /\ Noted' /\ Alive'
    BY DEF MarkInv
  <2>1. Marking(t) /\ \A s \in Slot \ {t} : task[s].op # "mark"
    BY <1>0 DEF MarkInv
  <2>2. \A s \in Slot : task'[s].op # "mark"
    BY <1>1, <2>1, NoneIsApart DEF Others, Kind
  <2>3. marker = task[t].v /\ marker = shared.mode /\ mAge = 0 /\ shared.age = 0
    BY <1>0, <2>1 DEF Marking
  <2>4. Noted'
    BY <1>0, <1>3, <2>3 DEF Noted
  <2>5. Alive'
    BY <1>0, <2>3, NoneIsApart, SpanAssumption DEF Alive
  <2> QED
    BY <2>2, <2>4, <2>5 DEF Marking
<1> QED
  BY <1>0, <1>4, <1>5, <1>6, ProxyStays DEF PortsSound, world

-------------------------------------------------------------------------------
(* Time, membership and faults. *)

LEMMA OlderIs ==
    /\ \A r \in Mark \cup {None} : Older(r) \in Mark \cup {None}
    /\ \A r \in Mark : r # None =>
          /\ Older(r).mode = r.mode
          /\ Older(r).age = IF r.age < Ttl THEN r.age + 1 ELSE r.age
    /\ Older(None) = None
    /\ \A r \in Call :
          /\ Older(r) \in Call /\ Older(r).op = r.op /\ Older(r).pc = r.pc /\ Older(r).v = r.v
          /\ r.op # None /\ CallOK(r) => CallOK(Older(r))
<1> DEFINE step(a) == IF a < Ttl THEN a + 1 ELSE a
<1>1. \A a \in 0..Ttl : step(a) \in 0..Ttl
  BY SpanAssumption
<1>2. \A r \in Mark \cup Call : r # None => Older(r) = [r EXCEPT !.age = step(@)]
  BY DEF Older
<1> HIDE DEF step
<1>3. ASSUME NEW r \in Mark, r # None
      PROVE  Older(r) \in Mark /\ Older(r).mode = r.mode /\ Older(r).age = step(r.age)
  BY <1>1, <1>2, <1>3 DEF Mark
<1>4. ASSUME NEW r \in Call
      PROVE  /\ Older(r) \in Call /\ Older(r).op = r.op /\ Older(r).pc = r.pc
             /\ Older(r).v = r.v
  <2>1. Older(r) = [r EXCEPT !.age = step(@)]
    BY <1>2, NoneIsApart
  <2> QED
    BY <1>1, <2>1 DEF Call
<1>5. Older(None) = None
  BY DEF Older
<1>6. ASSUME NEW r \in Call, r.op # None, CallOK(r) PROVE CallOK(Older(r))
  BY <1>4, <1>6, IdleIsCall DEF CallOK
<1> QED
  BY <1>3, <1>4, <1>5, <1>6 DEF step

LEMMA TickKeeps == EntryInv /\ Tick => EntryInv'
<1> SUFFICES ASSUME EntryInv, Tick PROVE EntryInv'
  OBVIOUS
<1> USE DEF EntryInv
<1>0. /\ UNCHANGED <<bans, shown, world, conn, races>>
      /\ shared # None /\ ~InFlight("mark")
      /\ marker' = IF mAge # None /\ mAge + 1 >= Ttl THEN None ELSE marker
      /\ mAge' = IF mAge = None \/ mAge + 1 >= Ttl THEN None ELSE mAge + 1
      /\ lastMark' = Older(lastMark) /\ answer' = Older(answer) /\ shared' = Older(shared)
      /\ task' = [t \in Slot |-> IF task[t] = Idle THEN Idle ELSE Older(task[t])]
  BY DEF Tick
<1>1. /\ task' \in [Slot -> Call] /\ \A t \in Slot : CallOK(task'[t])
      /\ \A t \in Slot : task'[t].op = task[t].op /\ task'[t].pc = task[t].pc
  <2> SUFFICES ASSUME NEW t \in Slot
               PROVE  LET r == IF task[t] = Idle THEN Idle ELSE Older(task[t])
                      IN  r \in Call /\ CallOK(r) /\ r.op = task[t].op /\ r.pc = task[t].pc
    BY <1>0
  <2>1. task[t] \in Call /\ CallOK(task[t]) /\ (task[t] # Idle => task[t].op # None)
    BY Kinds DEF TypeOK
  <2> QED
    BY <2>1, OlderIs, IdleIsCall
<1>2. {lastMark, answer, shared} \subseteq Mark \cup {None}
  BY DEF TypeOK
<1>3. {lastMark', answer', shared'} \subseteq Mark \cup {None}
  BY <1>0, <1>2, OlderIs
<1>4. mAge # None => mAge \in Nat /\ mAge <= Ttl
  BY SpanAssumption DEF TypeOK
<1>5. marker' \in ModeName \cup {None} /\ mAge' \in (0..Ttl) \cup {None}
  BY <1>0, <1>4, SpanAssumption DEF TypeOK
<1>6. TypeOK'
  BY <1>0, <1>1, <1>3, <1>5 DEF TypeOK, bans, world
<1>7. BanInv'
  BY <1>0, <1>1, BanStays DEF BanInv, At, bans, world
<1>8. MarkInv'
  <2> SUFFICES ASSUME "mark" \notin races'
               PROVE  /\ \A x, y \in Slot : task'[x].op = "mark" /\ task'[y].op = "mark" => x = y
                      /\ \A s \in Slot : Marking(s)'
                      /\ Noted' /\ Alive'
    BY DEF MarkInv
  <2>1. "mark" \notin races /\ \A s \in Slot : task[s].op # "mark" /\ task'[s].op # "mark"
    BY <1>0, <1>1 DEF InFlight
  <2>2. Noted /\ Alive /\ ~Writing
    BY <2>1 DEF MarkInv, Writing
  <2>3. Noted'
    <3> SUFFICES ASSUME lastMark' # None, lastMark'.age < Ttl
                 PROVE  marker' = lastMark'.mode /\ mAge' = lastMark'.age
      BY DEF Noted
    <3>1. lastMark # None /\ lastMark \in Mark
      BY <1>0, <1>2, OlderIs
    <3>2. lastMark.age \in Nat /\ lastMark.age <= Ttl
      BY <3>1, SpanAssumption DEF Mark
    <3>3. /\ lastMark'.mode = lastMark.mode
          /\ lastMark'.age = IF lastMark.age < Ttl THEN lastMark.age + 1 ELSE lastMark.age
      BY <1>0, <3>1, OlderIs
    <3>4. lastMark.age + 1 < Ttl /\ lastMark'.age = lastMark.age + 1
      BY <3>2, <3>3, SpanAssumption
    <3>5. marker = lastMark.mode /\ mAge = lastMark.age
      BY <2>2, <3>1, <3>2, <3>4, SpanAssumption DEF Noted
    <3> QED
      BY <1>0, <3>2, <3>3, <3>4, <3>5, NoneIsApart, SpanAssumption
  <2>4. Alive'
    <3> SUFFICES ASSUME redis', shared' # None, shared'.age < Ttl - Refresh
                 PROVE  marker' = shared'.mode /\ mAge' # None /\ mAge' < shared'.age + Refresh
      BY DEF Alive
    <3>1. shared \in Mark /\ shared.age \in Nat /\ shared.age <= Ttl
      BY <1>0, <1>2, SpanAssumption DEF Mark
    <3>2. /\ shared'.mode = shared.mode
          /\ shared'.age = IF shared.age < Ttl THEN shared.age + 1 ELSE shared.age
      BY <1>0, <3>1, OlderIs
    <3>3. shared.age + 1 < Ttl - Refresh /\ shared'.age = shared.age + 1
      BY <3>1, <3>2, SpanAssumption
    <3>4. marker = shared.mode /\ mAge # None /\ mAge < shared.age + Refresh
      BY <1>0, <2>2, <3>1, <3>3, SpanAssumption DEF Alive, world
    <3> QED
      BY <1>0, <1>4, <3>1, <3>2, <3>3, <3>4, NoneIsApart, SpanAssumption
  <2> QED
    BY <2>1, <2>3, <2>4 DEF Marking
<1> QED
  BY <1>0, <1>6, <1>7, <1>8, ProxyStays DEF PortsSound, world

LEMMA ChangesKeep == EntryInv /\ (PartyChanges \/ GroupChanges \/ LeaveWindow) => EntryInv'
<1> SUFFICES ASSUME EntryInv, PartyChanges \/ GroupChanges \/ LeaveWindow PROVE EntryInv'
  OBVIOUS
<1> USE DEF EntryInv
<1>1. /\ UNCHANGED <<bans, modes, asks, config, ports, redis, conn, task, races>>
      /\ party' \in {"none", "draft", "active"} /\ group' \in {"none", "inactive", "active"}
      /\ window' \in BOOLEAN
  BY DEF TypeOK, PartyChanges, GroupChanges, LeaveWindow
<1>2. TypeOK'
  BY <1>1 DEF TypeOK, bans, modes, asks
<1>3. BanInv'
  BY <1>1, BanStays DEF BanInv, At, bans
<1>4. MarkInv'
  BY <1>1, MarkStays DEF modes
<1> QED
  BY <1>1, <1>2, <1>3, <1>4, ProxyStays DEF PortsSound

LEMMA RejectKeeps == ASSUME EntryInv, NEW t \in Slot, Reject(t) PROVE EntryInv'
<1> USE DEF EntryInv
<1>0. UNCHANGED <<bans, modes, world, conn>>
  BY DEF Reject
<1>1. CASE task[t].pc = "set"
  <2>1. Go(t, "bare") /\ UNCHANGED asks /\ races' = races
    BY <1>1 DEF Reject
  <2>2. task[t].op = "mark"
    BY <1>1, Kinds
  <2>3. /\ task' \in [Slot -> Call] /\ \A s \in Slot : CallOK(task'[s])
        /\ Others(t) /\ task'[t].op = "mark" /\ task'[t].pc = "bare"
        /\ task'[t].v = task[t].v
    BY <2>1, <2>2, MarkGoes
  <2>4. TypeOK'
    BY <1>0, <2>1, <2>3 DEF TypeOK, bans, modes, asks, world
  <2>5. BanInv'
    BY <1>0, <2>1, <2>2, <2>3, BansRest DEF At, world
  <2>6. MarkInv'
    <3>1. \A s \in Slot :
            /\ task'[s].op = "mark" <=> task[s].op = "mark"
            /\ task[s].op = "mark" =>
                 /\ task'[s].v = task[s].v
                 /\ task'[s].pc \in {"time", "note"} <=> task[s].pc \in {"time", "note"}
                 /\ task'[s].pc = "note" => task[s].pc = "note"
      BY <1>1, <2>2, <2>3 DEF Others
    <3> QED
      BY <1>0, <2>1, <3>1, MarkStays DEF modes, world
  <2> QED
    BY <1>0, <2>4, <2>5, <2>6, ProxyStays DEF PortsSound, world
<1>2. CASE task[t].pc = "live"
  <2>1. /\ \/ \E m \in ModeName : Told(t, m)
           \/ Go(t, "window") /\ UNCHANGED asks
        /\ races' = races
    BY <1>2, ModesAreNamed DEF Reject
  <2>2. task[t].op = "ask"
    BY <1>2, Kinds
  <2>3. /\ task' \in [Slot -> Call] /\ \A s \in Slot : CallOK(task'[s])
        /\ Others(t) /\ task'[t].op \in {"ask", None}
        /\ answer' \in Mark \cup {None} /\ shown' \in ModeName \cup {None}
    <3>1. CASE \E m \in ModeName : Told(t, m)
      BY <3>1, ToldIs, EndIs
    <3>2. CASE Go(t, "window") /\ UNCHANGED asks
      <4>1. task[t] \in Call /\ CallOK(task[t]) /\ task[t] # Idle
        BY <2>2, IdleIsCall, NoneIsApart DEF TypeOK, Kind
      <4>2. [task[t] EXCEPT !.pc = "window"] \in Call
            /\ CallOK([task[t] EXCEPT !.pc = "window"])
        BY <2>2, <4>1, Steps
      <4> QED
        BY <2>2, <3>2, <4>2, GoIs DEF TypeOK, asks
    <3> QED
      BY <2>1, <3>1, <3>2
  <2>4. TypeOK'
    BY <1>0, <2>1, <2>3 DEF TypeOK, bans, modes, world
  <2>5. BanInv'
    BY <1>0, <2>1, <2>2, <2>3, NoneIsApart, BansRest DEF At, world, Kind
  <2>6. MarkInv'
    BY <1>0, <2>1, <2>2, <2>3, NoneIsApart, MarksRest DEF world, Kind
  <2> QED
    BY <1>0, <2>4, <2>5, <2>6, ProxyStays DEF PortsSound, world
<1>3. CASE task[t].pc \notin {"set", "live"}
  <2>1. /\ End(t) /\ UNCHANGED asks
        /\ races \subseteq races' /\ races' \subseteq {"ban", "mark", "counter"}
        /\ task[t].pc = "reset" => "ban" \in races'
        /\ task[t].pc \in {"bare", "time"} => "mark" \in races'
        /\ task[t].pc \in {"incr", "expire", "ban", "reset", "bare", "time", "scan", "ttl"}
    BY <1>3 DEF Reject, TypeOK
  <2>2. /\ task' \in [Slot -> Call] /\ \A s \in Slot : CallOK(task'[s])
        /\ Others(t) /\ task'[t].op = None
    BY <2>1, EndIs
  <2>3. TypeOK'
    BY <1>0, <2>1, <2>2 DEF TypeOK, bans, modes, asks, world
  <2>4. BanInv'
    <3>1. CASE task[t].pc = "reset"
      <4>1. "ban" \in races' /\ redis' = redis
        BY <1>0, <2>1, <3>1 DEF world
      <4>2. /\ \A s \in Slot : task'[s].op \in {"failure", "refresh"} => redis'
            /\ \A x, y \in Slot : task'[x].op = "refresh" /\ task'[y].op = "refresh" => x = y
        BY <2>2, <4>1, NoneIsApart DEF BanInv, Others, Kind
      <4> QED
        BY <4>1, <4>2 DEF BanInv, BannedIsRefused
    <3>2. CASE task[t].pc # "reset"
      BY <1>0, <2>1, <2>2, <3>2, NoneIsApart, BansRest DEF At, world, Kind
    <3> QED
      BY <3>1, <3>2
  <2>5. MarkInv'
    <3>1. CASE task[t].pc \in {"bare", "time"}
      BY <2>1, <3>1 DEF MarkInv
    <3>2. CASE task[t].pc \notin {"bare", "time"}
      <4>1. task[t].op \in {"failure", "refresh"}
        BY <2>1, <3>2, Kinds
      <4> QED
        BY <1>0, <2>1, <2>2, <4>1, NoneIsApart, MarksRest DEF world, Kind
    <3> QED
      BY <3>1, <3>2
  <2> QED
    BY <1>0, <2>3, <2>4, <2>5, ProxyStays DEF PortsSound, world
<1> QED
  BY <1>1, <1>2, <1>3

LEMMA RestartKeeps == EntryInv /\ Restart => EntryInv'
<1> SUFFICES ASSUME EntryInv, Restart PROVE EntryInv'
  OBVIOUS
<1> USE DEF EntryInv
<1>0. /\ UNCHANGED <<marker, mAge, shared, shown, world>>
      /\ task' = [t \in Slot |-> Idle] /\ conn' = NoSocket
      /\ lastMark' = None /\ answer' = None
      /\ banned' = (redis /\ banned)
      /\ cached' = Loaded(banned') \/ (cached' = "no" /\ (banned' => "ban" \in races'))
      /\ races' \subseteq {"ban", "mark", "counter"}
      /\ "mark" \notin races' => "mark" \notin races
      /\ InFlight("mark") => "mark" \in races'
  BY DEF Restart, TypeOK
<1>1. count' \in Nat /\ timed' \in BOOLEAN /\ banned' \in BOOLEAN
  <2>1. CASE redis
    <3>1. count' = count /\ timed' = timed /\ banned' = banned
      BY <2>1 DEF Restart, TypeOK
    <3> QED
      BY <3>1 DEF TypeOK
  <2>2. CASE ~redis
    <3>1. count' = 0 /\ timed' = FALSE /\ banned' = FALSE
      BY <2>2 DEF Restart
    <3> QED
      BY <3>1
  <2> QED
    BY <2>1, <2>2
<1>2. /\ cached' \in {"no", "yes"}
      /\ "ban" \notin races' /\ banned' => cached' = "yes"
  BY <1>0 DEF Loaded
<1>3. /\ task' \in [Slot -> Call]
      /\ \A t \in Slot : CallOK(task'[t]) /\ task'[t].op = None
  BY <1>0, IdleIsCall
<1>4. conn' \in Socket /\ conn'.st = "none" /\ conn'.up = "none"
  BY <1>0, NoSocketIs
<1>5. TypeOK'
  BY <1>0, <1>1, <1>2, <1>3, <1>4 DEF TypeOK, Socket, world
<1>6. ProxyInv'
  BY <1>4 DEF ProxyInv, ProxyComplete
<1>7. BanInv'
  BY <1>2, <1>3, NoneIsApart DEF BanInv, BannedIsRefused, At, Kind
<1>8. MarkInv'
  <2> SUFFICES ASSUME "mark" \notin races'
               PROVE  Noted' /\ Alive' /\ \A s \in Slot : task'[s].op # "mark"
    BY DEF MarkInv, Marking
  <2>1. Alive /\ ~InFlight("mark")
    BY <1>0 DEF MarkInv
  <2>2. Noted' /\ Alive'
    BY <1>0, <2>1 DEF Noted, Alive, world
  <2> QED
    BY <1>3, <2>2, NoneIsApart DEF Kind
<1> QED
  BY <1>0, <1>5, <1>6, <1>7, <1>8 DEF PortsSound, world

-------------------------------------------------------------------------------
(* The invariant of every behaviour. *)

LEMMA EntryMoves == EntryInv /\ [MCNext]_<<vars, stream>> => EntryInv'
<1> SUFFICES ASSUME EntryInv, [MCNext]_<<vars, stream>> PROVE EntryInv'
  OBVIOUS
<1>1. CASE UNCHANGED vars
  <2>1. UNCHANGED <<bans, modes, asks, world, conn, task, races>>
    BY <1>1 DEF vars
  <2>2. TypeOK' /\ PortsSound'
    BY <2>1 DEF EntryInv, TypeOK, PortsSound, bans, modes, asks, world
  <2>3. BanInv'
    BY <2>1, BanStays DEF EntryInv, BanInv, At, bans, world
  <2>4. MarkInv'
    BY <2>1, MarkStays DEF EntryInv, modes, world
  <2> QED
    BY <2>1, <2>2, <2>3, <2>4, ProxyStays DEF EntryInv
<1>2. CASE Next
  <2>1. CASE Connect
    BY <2>1, ConnectKeeps
  <2>2. CASE FirstChunk \/ Hangup \/ UpstreamUp \/ Chunk \/ UpstreamDown \/ CloseOther
    BY <2>2, SocketsKeep
  <2>3. CASE MisbehaveLocally
    BY <2>3, LocalKeeps
  <2>4. CASE WindowOver \/ BanOver \/ Lift
    BY <2>4, TimesKeep
  <2>5. CASE Tick
    BY <2>5, TickKeeps
  <2>6. CASE PartyChanges \/ GroupChanges \/ LeaveWindow
    BY <2>6, ChangesKeep
  <2>7. CASE Restart
    BY <2>7, RestartKeeps
  <2>8. ASSUME NEW t \in Slot,
               \/ Misbehave(t) \/ RefreshBans(t) \/ BanStep(t)
               \/ ShareOn(t) \/ KeepMining(t) \/ Ask(t) \/ ModeStep(t) \/ Reject(t)
        PROVE  EntryInv'
    <3>1. CASE Misbehave(t)
      BY <3>1, MisbehaveKeeps
    <3>2. CASE RefreshBans(t)
      BY <3>2, RefreshKeeps
    <3>3. CASE BanStep(t)
      BY <3>3, BanStepKeeps
    <3>4. CASE ShareOn(t) \/ KeepMining(t)
      BY <3>4, ShareKeeps DEF ShareOn, KeepMining
    <3>5. CASE Ask(t)
      BY <3>5, AskKeeps
    <3>6. CASE ModeStep(t)
      BY <3>6, SetKeeps, TimeKeeps, NoteKeeps, ReadsKeep DEF ModeStep
    <3>7. CASE Reject(t)
      BY <3>7, RejectKeeps
    <3> QED
      BY <2>8, <3>1, <3>2, <3>3, <3>4, <3>5, <3>6, <3>7
  <2> QED
    BY <1>2, <2>1, <2>2, <2>3, <2>4, <2>5, <2>6, <2>7, <2>8 DEF Next
<1> QED
  BY <1>1, <1>2 DEF MCNext

\* A banned address is refused once the cache has had the chance to hear of the ban: a
\* ban made during a refresh or half recorded, and the bans of a start whose load of the
\* cache was rejected, get past it until the next refresh that gets through, and no
\* longer.  The API is sent a proxied request from its first chunk on, no PPLNS port
\* starts below its floor, and while a miner goes on its marker names the mode its shares
\* are credited to: the debounce lets no marker run out.
THEOREM EntranceAlwaysHolds == MCSpec => []EntranceHolds
<1>1. MCInit => EntryInv
  BY EntryStarts DEF MCInit
<1>2. EntryInv /\ [MCNext]_<<vars, stream>> => EntryInv'
  BY EntryMoves
<1>3. EntryInv => EntranceHolds
  <2> SUFFICES ASSUME EntryInv PROVE EntranceHolds
    OBVIOUS
  <2>1. EntranceSound
    BY DEF EntryInv, EntranceSound, ProxyInv, BanInv
  <2>2. MarkerIsLive
    BY DEF EntryInv, MarkInv, Alive, MarkerIsLive
  <2> QED
    BY <2>1, <2>2 DEF EntranceHolds
<1> QED
  BY <1>1, <1>2, <1>3, PTL DEF MCSpec
===============================================================================
