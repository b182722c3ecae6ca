----------------------------- MODULE Sv2Transport -----------------------------
(***************************************************************************)
(* One encrypted SV2 connection, of a mining client (StratumV2Client) or a *)
(* job declarator (JobDeclarationClient): the Noise NX handshake and the   *)
(* cipher states (sv2-noise.ts), frames cut into sealed blocks and put     *)
(* together again from whatever TCP delivers (sv2-frame.ts), and the       *)
(* handlers that are started frame after frame and answer when they are    *)
(* done.                                                                   *)
(*                                                                         *)
(* A byte is a unit <<block, i>>: the i-th part of a block.  Cryptography  *)
(* is symbolic: what was sealed with a key, a nonce and associated data    *)
(* opens with just these.                                                  *)
(***************************************************************************)
EXTENDS Integers, Sequences

CONSTANTS
    MaxChunk,       \* SV2_MAX_PLAINTEXT_CHUNK, in units
    MaxPush,        \* bound: frames the pool sends unasked
    Scripts,        \* bound: the frames the peer sends, [kind, len] each
    None            \* no value

ChunkAssumption == MaxChunk \in Nat \ {0}

HeaderSize == 1     \* SV2_HEADER_SIZE
Mac        == 1     \* SV2_MAC_SIZE
Act1Size   == 2     \* SV2_NOISE_ACT1_SIZE

VARIABLES
    pool,           \* [st, recv, send]: the socket, the reader, the writer
    peer,           \* the same of the client
    up, down,       \* units on their way to the pool and back
    script,         \* frames the peer has not sent yet
    running,        \* handlers that were started, by position in handled
    sent, handled,  \* frames the peer wrote, and those the pool dispatched
    told, heard,    \* frames the pool wrote, and those the peer read
    dropped         \* ghost: the socket was reset with frames still under way

wire   == <<up, down>>
frames == <<sent, handled, told, heard>>
vars   == <<pool, peer, wire, script, running, frames, dropped>>

-------------------------------------------------------------------------------
(* Blocks. *)

Block(key, n, ad, plain, len) ==
    [key |-> key, n |-> n, ad |-> ad, plain |-> plain, len |-> len]
Units(b) == [i \in 1..(b.len + Mac) |-> <<b, i>>]

\* encryptWithAd and decryptWithAd of a cipher with key key at nonce n.
Opens(key, n, ad, units) ==
    LET b == units[1][1]
    IN  units = Units(b) /\ b.key = key /\ b.n = n /\ b.ad = ad

\* plaintextToCiphertextLength
CipherLength_Faulty(len) == len + Mac         \* one MAC for the whole payload
CipherLength(len) ==
    (len \div MaxChunk) * (MaxChunk + Mac)
        + (IF len % MaxChunk > 0 THEN (len % MaxChunk) + Mac ELSE 0)

\* The plaintext length of every block a payload is cut into.
Cuts(len) ==
    [i \in 1..((len + MaxChunk - 1) \div MaxChunk) |->
        IF i * MaxChunk <= len THEN MaxChunk ELSE len % MaxChunk]

Concat(seqs) ==
    LET upto[i \in 0..Len(seqs)] == IF i = 0 THEN <<>> ELSE upto[i - 1] \o seqs[i]
    IN  upto[Len(seqs)]

\* writeFrame: the header is a block of its own, then the payload's.
Writer(key) == [key |-> key, n |-> 0]
Written(w, f) ==
    LET cuts == Cuts(f.len)
    IN  Units(Block(w.key, w.n, <<>>, f, HeaderSize))
          \o Concat([i \in 1..Len(cuts) |->
                Units(Block(w.key, w.n + i, <<>>, <<f, i>>, cuts[i]))])
Wrote(w, f) == [w EXCEPT !.n = @ + 1 + Len(Cuts(f.len))]

-------------------------------------------------------------------------------
(* The reader. *)

\* busy: feed is running; got: the frames it has found so far.
Reader(key) ==
    [key |-> key, n |-> 0, buf |-> <<>>, head |-> None, got |-> <<>>,
     ok |-> TRUE, busy |-> FALSE]
Fed(r, units) == [r EXCEPT !.buf = @ \o units, !.busy = TRUE]
Returned(r)   == [r EXCEPT !.got = <<>>, !.busy = FALSE]
EncryptedHeader == HeaderSize + Mac
Rest(buf, n) == SubSeq(buf, n + 1, Len(buf))

ReadHeader(r) ==
    LET units == SubSeq(r.buf, 1, EncryptedHeader)
    IN  IF Opens(r.key, r.n, <<>>, units)
        THEN [r EXCEPT !.head = units[1][1].plain, !.n = @ + 1,
                       !.buf = Rest(@, EncryptedHeader)]
        ELSE [r EXCEPT !.ok = FALSE]

\* decryptPayloadChunks: block after block, each with the next nonce.
ReadPayload(r) ==
    LET cuts == Cuts(r.head.len)
        from == [i \in 1..Len(cuts) |-> (i - 1) * (MaxChunk + Mac)]
        opened == \A i \in 1..Len(cuts) :
                    Opens(r.key, r.n + i - 1, <<>>,
                          SubSeq(r.buf, from[i] + 1, from[i] + cuts[i] + Mac))
    IN  IF opened
        THEN [r EXCEPT !.got = Append(@, r.head), !.head = None, !.n = @ + Len(cuts),
                       !.buf = Rest(@, CipherLength(r.head.len))]
        ELSE [r EXCEPT !.ok = FALSE]

\* One pass of the loop of feed; it stays where it is when bytes are missing.
Pass(r) ==
    IF ~r.ok THEN r
    ELSE IF r.head = None
         THEN IF Len(r.buf) < EncryptedHeader THEN r ELSE ReadHeader(r)
         ELSE IF Len(r.buf) < CipherLength(r.head.len) THEN r ELSE ReadPayload(r)

\* The loop of feed goes on until a pass finds too few bytes; nothing else of its
\* side runs meanwhile.
More_Faulty(r) == r.got = <<>> /\ Pass(r) # r     \* one frame per chunk
More(r) == Pass(r) # r

-------------------------------------------------------------------------------
(* The handshake: what each side mixes into h and ck. *)

Dh(a, b) == {a, b}
Act1Block == Block(None, 0, <<>>, "e", Act1Size - Mac)

\* processAct1: e, ee, s, es, and the certificate.
H1  == <<"name", "prologue", "e", "">>
Ck1 == <<"name", Dh("e", "server e")>>
Ck2 == <<Ck1, Dh("e", "s")>>
Ephemeral    == Block(None, 0, <<>>, "server e", 1)
SealedStatic == Block(Ck1, 0, Append(H1, "server e"), "s", 1)
SealedCert   == Block(Ck2, 0, H1 \o <<"server e", SealedStatic>>, "certificate", 1)
Act2 == Units(Ephemeral) \o Units(SealedStatic) \o Units(SealedCert)

\* The pool reads with k1 and writes with k2.
Keys_Faulty(ck) == [recv |-> <<ck, 2>>, send |-> <<ck, 1>>]
Keys(ck) == [recv |-> <<ck, 1>>, send |-> <<ck, 2>>]

\* processAct2: the client computes the same from what it is sent.
PeerH1 == <<"name", "prologue", "e", "">>
PeerAct2(units) ==
    LET e    == units[1][1].plain
        h    == Append(PeerH1, e)
        ck   == <<"name", Dh("e", e)>>
        s    == SubSeq(units, 3, 4)
        cert == SubSeq(units, 5, 6)
        ck2  == <<ck, Dh("e", s[1][1].plain)>>
    IN  [ok |-> Opens(ck, 0, h, s) /\ Opens(ck2, 0, Append(h, s[1][1]), cert),
         send |-> <<ck2, 1>>, recv |-> <<ck2, 2>>]

Closed == [st |-> "closed", recv |-> None, send |-> None]

Init ==
    /\ script \in Scripts
    /\ pool = [st |-> "detecting", recv |-> None, send |-> None]
    /\ peer = [st |-> "new", recv |-> Reader(None), send |-> None]
    /\ up = <<>> /\ down = <<>> /\ running = {}
    /\ sent = <<>> /\ handled = <<>> /\ told = <<>> /\ heard = <<>>
    /\ dropped = FALSE

Dial ==
    /\ peer.st = "new" /\ script # <<>>
    /\ peer' = [peer EXCEPT !.st = "act 1"] /\ up' = Units(Act1Block)
    /\ UNCHANGED <<pool, down, script, running, frames, dropped>>

\* destroySocket: what the pool wrote before still goes out, unless the peer's own
\* bytes are unread and the connection is reset.
Destroy ==
    /\ pool' = Closed /\ up' = <<>>
    /\ \/ UNCHANGED <<down, dropped>>
       \/ up # <<>> /\ down' = <<>> /\ dropped' = TRUE

\* performHandshake: the first chunk has to hold the whole of Act 1; there is no
\* waiting for more of it.  Act 2 is written, and the listener for frames is there
\* before anything the client answers can be read.
Accept ==
    /\ pool.st = "detecting" /\ up = Units(Act1Block)
    /\ LET k == Keys(Ck2)
       IN  pool' = [st |-> "open", recv |-> Reader(k.recv), send |-> Writer(k.send)]
    /\ down' = Act2 /\ up' = <<>>
    /\ UNCHANGED <<peer, script, running, frames, dropped>>

\* TCP delivered less than Act 1 at first.
ShortAct1 ==
    /\ pool.st = "detecting" /\ up = Units(Act1Block)
    /\ pool' = Closed /\ up' = <<>>
    /\ UNCHANGED <<peer, down, script, running, frames, dropped>>

\* The client reads Act 2 as it comes, then frames.
PeerReadsAct2 ==
    /\ peer.st = "act 1" /\ down # <<>>
    /\ \E n \in 1..Len(down) :
         LET act2 == peer.recv.buf \o SubSeq(down, 1, n)
             k    == PeerAct2(act2)
         IN  /\ Len(act2) <= Len(Act2) /\ down' = Rest(down, n)
             /\ peer' = IF Len(act2) < Len(Act2) THEN [peer EXCEPT !.recv.buf = act2]
                        ELSE IF k.ok
                        THEN [st |-> "open", recv |-> Reader(k.recv), send |-> Writer(k.send)]
                        ELSE [peer EXCEPT !.st = "confused"]
    /\ UNCHANGED <<pool, up, script, running, frames, dropped>>

PeerReads ==
    /\ peer.st = "open" /\ down # <<>> /\ ~peer.recv.busy
    /\ \E n \in 1..Len(down) :
         /\ peer' = [peer EXCEPT !.recv = Fed(@, SubSeq(down, 1, n))]
         /\ down' = Rest(down, n)
    /\ UNCHANGED <<pool, up, script, running, frames, dropped>>

PeerParses ==
    /\ peer.st = "open" /\ peer.recv.busy
    /\ IF More(peer.recv)
       THEN LET r == Pass(peer.recv)
            IN  /\ peer' = [peer EXCEPT !.recv = r, !.st = IF r.ok THEN @ ELSE "confused"]
                /\ UNCHANGED heard
       ELSE /\ heard' = heard \o peer.recv.got
            /\ peer' = [peer EXCEPT !.recv = Returned(@)]
    /\ UNCHANGED <<pool, wire, script, running, sent, handled, told, dropped>>

-------------------------------------------------------------------------------
(* Frames. *)

Frame(from, i, kind, len) == [from |-> from, i |-> i, kind |-> kind, len |-> len]

PeerSends ==
    /\ peer.st = "open" /\ pool.st = "open" /\ script # <<>>
    /\ LET f == Frame("peer", Len(sent) + 1, Head(script).kind, Head(script).len)
       IN  /\ up' = up \o Written(peer.send, f)
           /\ peer' = [peer EXCEPT !.send = Wrote(@, f)]
           /\ sent' = Append(sent, f)
    /\ script' = Tail(script)
    /\ UNCHANGED <<pool, down, running, handled, told, heard, dropped>>

\* The data listener.
Arrive ==
    /\ pool.st = "open" /\ up # <<>> /\ ~pool.recv.busy
    /\ \E n \in 1..Len(up) :
         /\ pool' = [pool EXCEPT !.recv = Fed(@, SubSeq(up, 1, n))]
         /\ up' = Rest(up, n)
    /\ UNCHANGED <<peer, down, script, running, frames, dropped>>

\* A handler is started for every complete frame, without waiting for the one
\* before.  Bytes that do not open end the connection, and the frames that were
\* complete before them in the same chunk go with it.
Parse ==
    /\ pool.st = "open" /\ pool.recv.busy
    /\ LET r == Pass(pool.recv)
       IN  CASE ~r.ok ->
                  Destroy /\ UNCHANGED <<handled, running>>
             [] r.ok /\ More(pool.recv) ->
                  pool' = [pool EXCEPT !.recv = r] /\ UNCHANGED <<wire, handled, running, dropped>>
             [] OTHER ->
                  /\ pool' = [pool EXCEPT !.recv = Returned(@)]
                  /\ handled' = handled \o pool.recv.got
                  /\ running' = running \cup
                       {i \in Len(handled) + 1..Len(handled') : handled'[i].kind # "other"}
                  /\ UNCHANGED <<wire, dropped>>
    /\ UNCHANGED <<peer, script, sent, told, heard>>

Listening == IF pool.st = "open" THEN ~pool.recv.busy ELSE FALSE

\* sendFrame: sealing and writing happen in one go, so nonces are on the wire in
\* order.
Send(f) ==
    /\ down' = down \o Written(pool.send, f)
    /\ pool' = [pool EXCEPT !.send = Wrote(@, f)]
    /\ told' = Append(told, f)

Reply(i) == Frame("pool", handled[i].i, handled[i].kind, 1)

Answer(i) ==
    /\ i \in running /\ Listening /\ handled[i].kind \in {"ask", "refused"}
    /\ Send(Reply(i))
    /\ running' = IF handled[i].kind = "ask" THEN running \ {i} ELSE running
    /\ handled[i].kind = "ask" \/ ~\E j \in DOMAIN told : told[j] = Reply(i)
    /\ UNCHANGED <<peer, up, script, sent, handled, heard, dropped>>

\* A refused SetupConnection: the error is written, then the socket is destroyed.
HangUp(i) ==
    /\ i \in running /\ Listening /\ handled[i].kind = "refused"
    /\ \E j \in DOMAIN told : told[j] = Reply(i)
    /\ running' = running \ {i} /\ Destroy
    /\ UNCHANGED <<peer, script, frames>>

\* A handler that throws.
Throw(i) ==
    /\ i \in running /\ Listening /\ handled[i].kind = "bad"
    /\ running' = running \ {i} /\ Destroy
    /\ UNCHANGED <<peer, script, frames>>

\* A job or a new target, when the pool has one.
Push ==
    /\ Listening /\ handled # <<>>
    /\ LET pushed == Len(SelectSeq(told, LAMBDA f : f.kind = "job"))
       IN  pushed < MaxPush /\ Send(Frame("pool", pushed + 1, "job", MaxChunk + 1))
    /\ UNCHANGED <<peer, up, script, running, sent, handled, heard, dropped>>

\* What is left of a handler whose socket is gone writes nothing.
GiveUp(i) ==
    /\ i \in running /\ pool.st = "closed"
    /\ running' = running \ {i}
    /\ UNCHANGED <<pool, peer, wire, script, frames, dropped>>

\* Five minutes of silence, an error of the network, or the client is gone.
Lose ==
    /\ Listening /\ pool' = Closed
    /\ up' = <<>> /\ down' = <<>> /\ dropped' = TRUE
    /\ UNCHANGED <<peer, script, running, frames>>

Started == DOMAIN handled
Next ==
    \/ Dial \/ Accept \/ ShortAct1 \/ PeerReadsAct2 \/ PeerReads \/ PeerParses
    \/ PeerSends \/ Arrive \/ Parse \/ Push \/ Lose
    \/ \E i \in Started : Answer(i) \/ HangUp(i) \/ Throw(i) \/ GiveUp(i)

\* TCP delivers, and handlers finish.
Fairness ==
    /\ WF_vars(Arrive) /\ WF_vars(Parse)
    /\ WF_vars(PeerReadsAct2) /\ WF_vars(PeerReads) /\ WF_vars(PeerParses)
    /\ WF_vars(\E i \in Started : Answer(i) \/ HangUp(i) \/ Throw(i))

Spec == Init /\ [][Next]_vars /\ Fairness

-------------------------------------------------------------------------------
IsPrefixOf(s, t) == Len(s) <= Len(t) /\ s = SubSeq(t, 1, Len(s))

\* However TCP cuts the stream, each side gets the other's frames whole, once and
\* in the order they were written: the two sides hold the same keys the same way
\* round, and neither reader ever meets a block it cannot open.
TransportSound ==
    /\ IsPrefixOf(handled, sent) /\ IsPrefixOf(heard, told)
    /\ peer.st # "confused"
    /\ peer.st = "open" /\ Listening =>
         /\ peer.send.key = pool.recv.key /\ peer.recv.key = pool.send.key
         /\ up = <<>> => pool.recv.n = peer.send.n /\ pool.recv.buf = <<>> /\ handled = sent
         /\ down = <<>> /\ ~peer.recv.busy => peer.recv.n = pool.send.n /\ heard = told

\* A request is answered as soon as its bytes and the reply's are delivered, not
\* only when more bytes come; a refusal is heard before the connection ends, unless
\* the connection was reset.
Settled(f) ==
    \/ f.kind \notin {"ask", "refused"}
    \/ \E j \in DOMAIN heard : heard[j].i = f.i /\ heard[j].kind = f.kind
    \/ dropped
    \/ f.kind = "ask" /\ pool.st = "closed"
EveryFrameAnswered ==
    \A i \in 1..3 : i \in DOMAIN sent ~> (i \in DOMAIN sent => Settled(sent[i]))
===============================================================================
