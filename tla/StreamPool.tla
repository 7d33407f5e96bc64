----------------------------- MODULE StreamPool -----------------------------
(***************************************************************************)
(* The socket layer: the socket table and the pool of streams that         *)
(* WebserverDriver.c and Socket.c share, the calls of the application, and *)
(* what an arriving TCP segment or UDP datagram does to the pool.          *)
(*                                                                         *)
(* Streams are opened by incoming messages, handed out by accept, moved    *)
(* through the TCP states by TCPprocessor and taken back by closeStream.   *)
(* Sequence numbers, windows and outgoing segments are the subject of      *)
(* TcpStream: here the outcome of a comparison of sequence numbers is left *)
(* open, and a receive buffer holds up to STREAM_RX_SIZE units of data,    *)
(* each known by the host that sent it.  send() leaves all of this         *)
(* unchanged.                                                              *)
(***************************************************************************)
EXTENDS Integers, Sequences, LowestIndex

CONSTANTS
    MAX_SOCKETS,
    MAX_STREAMS,
    STREAM_RX_SIZE, \* units of data a receive buffer holds
    Remotes,        \* address and port of the hosts that talk to us
    NoRemote,       \* the remote of a stream that was never used
    Ports,          \* local ports
    EPHEMERAL,      \* 32876, the local port of connected sockets
    Calls,          \* what the application does besides serving: some of
                    \* "connect", "closeSocket", "rebind"
    OTHER_SOCKETS   \* bound on the sockets of an application that does so

ASSUME SocketAssumption ==
    /\ MAX_SOCKETS \in Nat \ {0}
    /\ MAX_STREAMS \in Nat \ {0}
    /\ STREAM_RX_SIZE \in Nat \ {0}
    /\ NoRemote \notin Remotes
    /\ Calls \subseteq {"connect", "closeSocket", "rebind"}
    /\ OTHER_SOCKETS \in Nat

VARIABLES
    sockets,    \* the socket table
    streams,    \* the pool of streams
    held,       \* the stream descriptors the application has and has not closed
    serving     \* history: the application has only made the calls of a server

vars == <<sockets, streams, held, serving>>

SocketIds == 0 .. MAX_SOCKETS - 1
StreamIds == 0 .. MAX_STREAMS - 1
Protocols == {"TCP", "UDP"}

TCPstate == {"UDP_MODE", "CLOSED", "LISTEN", "SYN_SENT", "SYN_RECEIVED", "ESTABLISHED",
             "CLOSE_WAIT", "LAST_ACK", "FIN_WAIT_1", "FIN_WAIT_2", "CLOSING", "TIME_WAIT"}

\* A message as the pool sees it: with the flags of a TCP header and with data
\* or not.  (A datagram has some flags too when its bytes are read as one.)
Kinds == {[flags |-> {"SYN"}, data |-> FALSE], [flags |-> {"ACK"}, data |-> FALSE],
          [flags |-> {"RST"}, data |-> FALSE], [flags |-> {"ACK", "PSH"}, data |-> TRUE]}
         \cup [flags : {{"ACK", "FIN"}}, data : BOOLEAN]
Messages == [protocol : Protocols, from : Remotes, port : Ports, kind : Kinds]

Stream == [inUse : BOOLEAN, accepted : BOOLEAN, state : TCPstate, parent : SocketIds,
           remote : Remotes \cup {NoRemote}, rx : Seq(Remotes)]
Socket == [port : Ports \cup {0, EPHEMERAL}, protocol : Protocols \cup {"none"},
           inUse : BOOLEAN, listening : BOOLEAN]

TypeInv ==
    /\ sockets \in [SocketIds -> Socket]
    /\ streams \in [StreamIds -> Stream]
    /\ held \subseteq StreamIds
    /\ serving \in BOOLEAN
    /\ \A i \in StreamIds : Len(streams[i].rx) <= STREAM_RX_SIZE

Init ==
    /\ sockets = [k \in SocketIds |-> [port |-> 0, protocol |-> "none",
                                       inUse |-> FALSE, listening |-> FALSE]]
    /\ streams = [i \in StreamIds |->
                    [inUse |-> FALSE, accepted |-> FALSE, state |-> "UDP_MODE", parent |-> 0,
                     remote |-> NoRemote, rx |-> <<>>]]
    /\ held = {}
    /\ serving = TRUE

FreeStreams == {i \in StreamIds : ~streams[i].inUse}

-----------------------------------------------------------------------------
(* Arriving messages.  Each operator gives the records a stream may have   *)
(* after the message; comparisons of sequence numbers are the parameters   *)
(* inOrder (the segment starts where the received data ends) and acksFin   *)
(* (tx.tail > tx.next: our FIN was acknowledged).                          *)

\* Mutant: the free space is taken to be one unit more than it is.
StoredPastEnd(r, g, wanted) ==
    IF wanted /\ Len(r.rx) <= STREAM_RX_SIZE
    THEN [r EXCEPT !.rx = Append(@, g.from)]
    ELSE r

\* The stream with a wanted payload stored, if there is room for it.
Stored(r, g, wanted) ==
    IF wanted /\ Len(r.rx) < STREAM_RX_SIZE
    THEN [r EXCEPT !.rx = Append(@, g.from)]
    ELSE r

InListen(r, g) ==
    IF "SYN" \in g.kind.flags THEN [r EXCEPT !.state = "SYN_RECEIVED"] ELSE r

InSynReceived(r, g) ==
    IF g.kind.flags = {"ACK"} THEN [r EXCEPT !.state = "ESTABLISHED"]
    ELSE IF "RST" \in g.kind.flags THEN [r EXCEPT !.state = "LISTEN"] ELSE r

AfterFin(state, acksFin) ==
    IF state = "ESTABLISHED" THEN "CLOSE_WAIT"
    ELSE IF state = "FIN_WAIT_1" /\ ~acksFin THEN "CLOSING" ELSE "TIME_WAIT"

\* ESTABLISHED, FIN_WAIT_1, FIN_WAIT_2: the states that take data.  A FIN counts
\* if it comes right after the data stored, so not in the segment of that data.
Receiving(r, g, inOrder, acksFin) ==
    LET s == Stored(r, g, g.kind.data /\ inOrder) IN
    IF "RST" \in g.kind.flags THEN [r EXCEPT !.state = "CLOSED"]
    ELSE IF "FIN" \in g.kind.flags /\ inOrder /\ s = r
    THEN [s EXCEPT !.state = AfterFin(r.state, acksFin)]
    ELSE IF r.state = "FIN_WAIT_1" /\ acksFin THEN [s EXCEPT !.state = "FIN_WAIT_2"]
    ELSE s

\* LAST_ACK and CLOSING: waiting for the ACK of our FIN.
AwaitingAck(r, g, acksFin) ==
    IF "RST" \in g.kind.flags \/ ("ACK" \in g.kind.flags /\ acksFin /\ r.state = "LAST_ACK")
    THEN [r EXCEPT !.state = "CLOSED", !.inUse = FALSE]
    ELSE IF "ACK" \in g.kind.flags /\ acksFin THEN [r EXCEPT !.state = "TIME_WAIT"] ELSE r

\* Mutant: a reset frees the stream of an open connection.
TCPprocessorFreesOnReset(r, g, inOrder, acksFin) ==
    CASE r.state = "LISTEN" -> InListen(r, g)
      [] r.state = "SYN_RECEIVED" -> InSynReceived(r, g)
      [] OTHER -> IF "RST" \in g.kind.flags THEN [r EXCEPT !.state = "CLOSED", !.inUse = FALSE]
                  ELSE Receiving(r, g, inOrder, acksFin)

TCPprocessor(r, g, inOrder, acksFin) ==
    CASE r.state = "CLOSED" -> r
      [] r.state = "LISTEN" -> InListen(r, g)
      [] r.state = "SYN_RECEIVED" -> InSynReceived(r, g)
      [] r.state \in {"ESTABLISHED", "FIN_WAIT_1", "FIN_WAIT_2"} ->
           Receiving(r, g, inOrder, acksFin)
      [] r.state \in {"LAST_ACK", "CLOSING"} -> AwaitingAck(r, g, acksFin)
      [] OTHER -> IF "RST" \in g.kind.flags THEN [r EXCEPT !.state = "CLOSED"] ELSE r

\* A UDP datagram is kept if it fits, and lost otherwise.
writeRX(r, g, inOrder, acksFin) ==
    IF r.state = "UDP_MODE" THEN Stored(r, g, TRUE)
    ELSE TCPprocessor(r, g, inOrder, acksFin)

\* Mutant: only streams that were accepted are looked at.
MatchingAccepted(g) ==
    {i \in StreamIds : /\ streams[i].inUse /\ streams[i].accepted
                       /\ sockets[streams[i].parent].protocol = g.protocol
                       /\ streams[i].remote = g.from}

\* Mutant: the addresses of the two ends are not compared.
MatchingAnyRemote(g) ==
    {i \in StreamIds : /\ streams[i].inUse
                       /\ sockets[streams[i].parent].protocol = g.protocol}

\* "See if there is already a stream for this client."
Matching(g) ==
    {i \in StreamIds : /\ streams[i].inUse
                       /\ sockets[streams[i].parent].protocol = g.protocol
                       /\ streams[i].remote = g.from}

Listening(g) ==
    {k \in SocketIds : /\ sockets[k].inUse /\ sockets[k].listening
                       /\ sockets[k].protocol = g.protocol /\ sockets[k].port = g.port}

\* Mutant: the receive buffer keeps what the last owner left in it.
OpenedDirty(i, k, g) ==
    [streams[i] EXCEPT !.inUse = TRUE, !.accepted = FALSE, !.parent = k, !.remote = g.from,
                       !.state = IF sockets[k].protocol = "UDP" THEN "UDP_MODE" ELSE "LISTEN"]

\* Mutant: a stream starts in LISTEN whatever its protocol.
OpenedListening(i, k, g) ==
    [inUse |-> TRUE, accepted |-> FALSE, parent |-> k, remote |-> g.from, rx |-> <<>>,
     state |-> "LISTEN"]

\* The stream a listening socket k opens in slot i of the pool for message g.
Opened(i, k, g) ==
    [inUse |-> TRUE, accepted |-> FALSE, parent |-> k, remote |-> g.from, rx |-> <<>>,
     state |-> IF sockets[k].protocol = "UDP" THEN "UDP_MODE" ELSE "LISTEN"]

\* The streams in use for which it matters whether a segment acknowledges a FIN.
FinSent == {i \in StreamIds : streams[i].inUse /\
                               streams[i].state \in {"FIN_WAIT_1", "CLOSING", "LAST_ACK"}}

\* The message goes to the stream of its sender, else to a new stream of a
\* listening socket if one is free; otherwise it is dropped.
incomingMessage(g) ==
    /\ \E inOrder \in BOOLEAN, acksFin \in BOOLEAN :
         /\ inOrder => g.kind.data \/ "FIN" \in g.kind.flags
         /\ acksFin => "ACK" \in g.kind.flags /\ FinSent # {}
         /\ IF Matching(g) # {}
            THEN LET i == Lowest(Matching(g)) IN
                 streams' = [streams EXCEPT ![i] = writeRX(@, g, inOrder, acksFin)]
            ELSE IF Listening(g) # {} /\ FreeStreams # {}
            THEN LET i == Lowest(FreeStreams) IN
                 streams' = [streams EXCEPT ![i] =
                               writeRX(Opened(i, Lowest(Listening(g)), g), g, inOrder, acksFin)]
            ELSE UNCHANGED streams
    /\ UNCHANGED <<sockets, held, serving>>

\* handleTCPtimers: the end of TIME_WAIT.  (Its other branch transmits.)
TimeWaitOver(i) ==
    /\ streams[i].inUse
    /\ streams[i].state = "TIME_WAIT"
    /\ streams' = [streams EXCEPT ![i].state = "CLOSED", ![i].inUse = FALSE]
    /\ UNCHANGED <<sockets, held, serving>>

-----------------------------------------------------------------------------
(* Calls of the application.                                               *)

FreeSockets == {k \in SocketIds : ~sockets[k].inUse}

\* An application that does more than serve has few sockets (a bound).
FewSockets == \A k \in SocketIds : sockets[k].inUse => k < OTHER_SOCKETS

socket(protocol) ==
    /\ FreeSockets # {}
    /\ serving \/ Lowest(FreeSockets) < OTHER_SOCKETS
    /\ sockets' = [sockets EXCEPT ![Lowest(FreeSockets)] =
                     [port |-> 0, protocol |-> protocol, inUse |-> TRUE, listening |-> FALSE]]
    /\ UNCHANGED <<streams, held, serving>>

bindlisten(k, port) ==
    /\ sockets[k].inUse
    /\ sockets[k].listening => "rebind" \in Calls /\ FewSockets
    /\ serving' = (serving /\ ~sockets[k].listening)
    /\ sockets' = [sockets EXCEPT ![k].listening = TRUE, ![k].port = port]
    /\ UNCHANGED <<streams, held>>

\* The port is assigned even when no stream is left; a TCP stream is given no
\* state ("TCP active open not currently supported") and keeps the last one.
connect(k, remote) ==
    /\ "connect" \in Calls /\ FewSockets
    /\ serving' = FALSE
    /\ sockets[k].inUse /\ ~sockets[k].listening
    /\ sockets' = [sockets EXCEPT ![k].port = EPHEMERAL]
    /\ IF FreeStreams # {}
       THEN LET i == Lowest(FreeStreams) IN
            /\ streams' = [streams EXCEPT ![i] =
                 [inUse |-> TRUE, accepted |-> TRUE, parent |-> k, remote |-> remote,
                  rx |-> <<>>,
                  state |-> IF sockets[k].protocol = "TCP" THEN @.state ELSE "UDP_MODE"]]
            /\ held' = held \cup {i}
       ELSE UNCHANGED <<streams, held>>

Pending(k) ==
    {i \in StreamIds : streams[i].inUse /\ ~streams[i].accepted /\ streams[i].parent = k}

\* accept returns the first stream of the socket that was not returned before,
\* in whatever state its handshake is.
accept(k) ==
    /\ sockets[k].inUse /\ sockets[k].listening
    /\ Pending(k) # {}
    /\ LET i == Lowest(Pending(k)) IN
         /\ streams' = [streams EXCEPT ![i].accepted = TRUE]
         /\ held' = held \cup {i}
    /\ UNCHANGED <<sockets, serving>>

\* What recv returns: "data", "none" (-1) or "eof" (0).
recvResult(i) ==
    IF ~(streams[i].inUse /\ streams[i].accepted) THEN "none"
    ELSE IF streams[i].rx # <<>> THEN "data"
    ELSE IF streams[i].state \in {"UDP_MODE", "ESTABLISHED", "FIN_WAIT_1", "FIN_WAIT_2"}
    THEN "none" ELSE "eof"

\* recv takes one datagram, or as much data as the buffer of the caller holds.
Taken(r, buflen) ==
    IF r.state = "UDP_MODE" THEN 1
    ELSE IF buflen < Len(r.rx) THEN buflen ELSE Len(r.rx)

recv(i, buflen) ==
    /\ i \in held
    /\ recvResult(i) = "data"
    /\ streams' = [streams EXCEPT ![i].rx = SubSeq(@, Taken(streams[i], buflen) + 1, Len(@))]
    /\ UNCHANGED <<sockets, held, serving>>

\* The state TCPclose leaves: only the first two send a FIN.
Closed(state) ==
    CASE state = "ESTABLISHED" -> "FIN_WAIT_1"
      [] state = "CLOSE_WAIT" -> "LAST_ACK"
      [] state = "UDP_MODE" -> "UDP_MODE"
      [] OTHER -> "CLOSED"

closeStream(i) ==
    /\ i \in held
    /\ streams' = [streams EXCEPT ![i].state = Closed(@), ![i].inUse = FALSE]
    /\ held' = held \ {i}
    /\ UNCHANGED <<sockets, serving>>

closeSocket(k) ==
    /\ "closeSocket" \in Calls /\ FewSockets
    /\ serving' = FALSE
    /\ sockets' = [sockets EXCEPT ![k].inUse = FALSE]
    /\ UNCHANGED <<streams, held>>

-----------------------------------------------------------------------------

Next ==
    \/ \E g \in Messages : incomingMessage(g)
    \/ \E i \in StreamIds : TimeWaitOver(i)
    \/ \E protocol \in Protocols : socket(protocol)
    \/ \E k \in SocketIds, port \in Ports : bindlisten(k, port)
    \/ \E k \in SocketIds, remote \in Remotes : connect(k, remote)
    \/ \E k \in SocketIds : accept(k) \/ closeSocket(k)
    \/ \E i \in StreamIds, buflen \in 1 .. STREAM_RX_SIZE : recv(i, buflen)
    \/ \E i \in StreamIds : closeStream(i)

Spec == Init /\ [][Next]_vars

-----------------------------------------------------------------------------

\* One client, one stream: in a server incomingMessage's two searches never leave
\* two streams in use for the same host, port and protocol, so no segment can go
\* to the wrong one of two copies.
UniqueStream ==
    serving => \A i, j \in StreamIds :
        /\ streams[i].inUse /\ streams[j].inUse
        /\ streams[i].remote = streams[j].remote
        /\ sockets[streams[i].parent].protocol = sockets[streams[j].parent].protocol
        => i = j

\* A server's descriptors are exactly the accepted streams: none is freed under
\* its owner by a segment, and none is left without an owner.
HandlesExact ==
    serving => held = {i \in StreamIds : streams[i].inUse /\ streams[i].accepted}

\* A stream in use holds data of its own remote only, however often its slot
\* was used before by others and whatever the application called.
NoCrossTalk ==
    \A i \in StreamIds : streams[i].inUse =>
        \A n \in 1 .. Len(streams[i].rx) : streams[i].rx[n] = streams[i].remote

\* In a server a stream is in UDP_MODE exactly when its socket is a UDP socket: no
\* segment is ever read as a datagram nor a datagram as a segment.
ModeMatchesSocket ==
    serving => \A i \in StreamIds : streams[i].inUse =>
        (streams[i].state = "UDP_MODE" <=> sockets[streams[i].parent].protocol = "UDP")

=============================================================================
