----------------------------- MODULE MCConnections -----------------------------
(***************************************************************************)
(* Everything between a remote address and the first message: instances of *)
(* Entrance (ports, bans, proxy, mode marker) and, beside it, of           *)
(* Sv2Transport (handshake and frames of one connection that was let in).  *)
(* A behaviour is one case of either; the other one rests, since its todo  *)
(* or its script is empty.                                                 *)
(***************************************************************************)
EXTENDS Entrance

CONSTANTS MaxChunk, MaxPush, Scripts
VARIABLES pool, peer, up, down, script, running, sent, handled, told, heard, dropped

stream == <<pool, peer, up, down, script, running, sent, handled, told, heard, dropped>>
Transport == INSTANCE Sv2Transport
ASSUME TransportAssumption == Transport!ChunkAssumption

\* Ports that are distinct, clash or are left out; the floor above one start.
Environments ==
    {[solo |-> 1, high |-> e[1], pplns |-> e[2], pplnsHigh |-> e[3],
      start |-> 1, highStart |-> 3, floor |-> 2] :
        e \in {<<2, 3, 4>>, <<1, 3, 3>>, <<3, 3, 4>>, <<2, 4, 2>>}}

Scenarios ==
    {{},
     {<<"ports">>, <<"connect", 1>>},
     {<<"connect", 1>>, <<"connect", 2>>, <<"connect", 3>>, <<"reject">>},
     {<<"connect", 1>>, <<"connect", 2>>, <<"connect", 3>>, <<"lift">>, <<"restart">>},
     {<<"connect", 1>>, <<"connect", 2>>, <<"connect", 3>>, <<"over">>},
     {<<"connect", 1>>, <<"connect", 2>>, <<"connect", 3>>, <<"reject">>, <<"restart">>},
     {<<"share", "pplns">>, <<"share", "solo">>, <<"group", "inactive">>, <<"window">>},
     {<<"share", "solo">>, <<"party", "active">>, <<"party", "none">>, <<"reject">>},
     {<<"share", "pplns">>, <<"reject">>, <<"restart">>},
     {<<"share", "pplns">>, <<"pause">>, <<"share", "solo">>, <<"restart">>}}

\* Payloads of no, one and two blocks, whole and broken off.
F(kind, len) == [kind |-> kind, len |-> len]
Frames ==
    {<<>>, <<F("ask", 0), F("ask", 3)>>, <<F("other", 2), F("ask", 4)>>,
     <<F("refused", 1), F("ask", 2)>>, <<F("ask", 1), F("bad", 3)>>}

MCInit == Init /\ Transport!Init /\ (todo = {} <=> script # <<>>)
MCNext ==
    \/ Next /\ UNCHANGED stream
    \/ Transport!Next /\ UNCHANGED vars

MCSpec == MCInit /\ [][MCNext]_<<vars, stream>> /\ Fairness /\ Transport!Fairness

-------------------------------------------------------------------------------
\* The ports, the bans and the proxy are sound, and the mode marker of a miner that
\* goes on names the mode its shares are credited to, across refreshes, rejected
\* Redis calls and restarts.
EntranceHolds == EntranceSound /\ MarkerIsLive

\* Bans, counters and half-closed proxies pass, and the dashboard ends up with the
\* miner's own mode.
EntranceSettles == NothingLingers /\ ModeSettles

\* However TCP cuts the streams of an SV2 connection, each side gets the other's
\* frames whole, once and in order, and opens every block.
TransportSound == Transport!TransportSound

\* A request on an SV2 connection is answered once its bytes have arrived, and a
\* refusal is heard before the connection ends.
EveryFrameAnswered == Transport!EveryFrameAnswered
===============================================================================
