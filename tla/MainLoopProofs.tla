--------------------------- MODULE MainLoopProofs ---------------------------
(***************************************************************************)
(* The socket layer for every number of sockets, streams and clients: the  *)
(* types and the separation of clients' data whatever the application      *)
(* calls, and the ownership of streams for as long as an application only  *)
(* serves.  Then the main loop for every number of places: it only serves, *)
(* so all of that holds of it, and it loses no descriptor.                 *)
(***************************************************************************)
EXTENDS MainLoop, NumberProofs, SequenceTheorems, FiniteSetTheorems


\* The searches of the tables end at an entry that fits.
LEMMA FirstFound ==
  /\ FreeStreams # {} => Lowest(FreeStreams) \in FreeStreams
  /\ FreeSockets # {} => Lowest(FreeSockets) \in FreeSockets
  /\ \A g \in Messages : Matching(g) # {} => Lowest(Matching(g)) \in Matching(g)
  /\ \A g \in Messages : Listening(g) # {} => Lowest(Listening(g)) \in Listening(g)
  /\ \A k \in SocketIds : Pending(k) # {} => Lowest(Pending(k)) \in Pending(k)
<1>1. StreamIds \subseteq Nat /\ SocketIds \subseteq Nat
  BY SocketAssumption DEF StreamIds, SocketIds
<1>2. FreeStreams \subseteq Nat /\ FreeSockets \subseteq Nat
  BY <1>1 DEF FreeStreams, FreeSockets
<1>3. ASSUME NEW g PROVE Matching(g) \subseteq Nat /\ Listening(g) \subseteq Nat
  BY <1>1 DEF Matching, Listening
<1>4. ASSUME NEW k PROVE Pending(k) \subseteq Nat
  BY <1>1 DEF Pending
<1> QED
  BY <1>2, <1>3, <1>4, LowestIsFirst

Fits(r) == Len(r.rx) <= STREAM_RX_SIZE

\* The states between the FIN closeStream sends and the end of the connection.
Teardown == {"FIN_WAIT_1", "FIN_WAIT_2", "CLOSING", "LAST_ACK", "TIME_WAIT"}

\* What a message may do to a stream: the identity stays, at most one unit of
\* the sender's data is added, and no new owner is needed.
KeepsIdentity(r, s, g) ==
    /\ s.accepted = r.accepted
    /\ s.parent = r.parent
    /\ s.remote = r.remote
    /\ s.rx = r.rx \/ s.rx = Append(r.rx, g.from)

\* A stream of which only the state changes stays well typed and keeps its owner,
\* its remote and its data: what most branches of TCPprocessor do.
LEMMA StateChangeKeeps ==
  ASSUME NEW r \in Stream, Fits(r), NEW state \in TCPstate, NEW g,
         NEW s, s = [r EXCEPT !.state = state]
  PROVE  /\ s \in Stream /\ Fits(s) /\ KeepsIdentity(r, s, g)
         /\ s.inUse = r.inUse /\ s.state = state
BY DEF Stream, Fits, KeepsIdentity

\* Storing a payload adds at most one unit of the sender and nothing else.
LEMMA StoredKeeps ==
  ASSUME NEW r \in Stream, Fits(r), NEW g \in Messages, NEW s,
         \/ s = r
         \/ Len(r.rx) < STREAM_RX_SIZE /\ s = [r EXCEPT !.rx = Append(r.rx, g.from)]
  PROVE  /\ s \in Stream /\ Fits(s) /\ KeepsIdentity(r, s, g)
         /\ s.inUse = r.inUse /\ s.state = r.state
<1>1. g.from \in Remotes
  BY DEF Messages
<1>2. CASE Len(r.rx) < STREAM_RX_SIZE /\ s = [r EXCEPT !.rx = Append(r.rx, g.from)]
  <2> DEFINE x == Append(r.rx, g.from)
  <2>1. x \in Seq(Remotes) /\ Len(x) = Len(r.rx) + 1 /\ Len(r.rx) \in Nat
    BY <1>1 DEF Stream
  <2>2. s = [r EXCEPT !.rx = x]
    BY <1>2
  <2> HIDE DEF x
  <2>3. /\ s \in Stream /\ s.rx = x
        /\ s.inUse = r.inUse /\ s.accepted = r.accepted /\ s.state = r.state
        /\ s.parent = r.parent /\ s.remote = r.remote
    BY <2>1, <2>2 DEF Stream
  <2>4. Fits(s)
    <3>1. Len(s.rx) = Len(r.rx) + 1
      BY <2>1, <2>3
    <3> QED
      BY <1>2, <2>1, <3>1, SocketAssumption DEF Fits
  <2> QED
    BY <2>3, <2>4 DEF KeepsIdentity, x
<1>3. CASE s = r
  BY <1>3 DEF KeepsIdentity
<1> QED
  BY <1>2, <1>3

\* The same when a payload is stored first: the branches for a segment that
\* brings data and moves the connection on.
LEMMA StateOfStored ==
  ASSUME NEW r \in Stream, NEW s \in Stream, Fits(s), NEW g, KeepsIdentity(r, s, g),
         s.inUse = r.inUse, NEW state \in TCPstate,
         NEW w, w = [s EXCEPT !.state = state]
  PROVE  /\ w \in Stream /\ Fits(w) /\ KeepsIdentity(r, w, g)
         /\ w.inUse = r.inUse /\ w.state = state
BY DEF Stream, Fits, KeepsIdentity

\* What a message can do to the stream it is given to, in any TCP state.
LEMMA WriteKeeps ==
  ASSUME NEW r \in Stream, Fits(r), NEW g \in Messages,
         NEW inOrder \in BOOLEAN, NEW acksFin \in BOOLEAN,
         NEW w, w = writeRX(r, g, inOrder, acksFin)
  PROVE  /\ w \in Stream /\ Fits(w) /\ KeepsIdentity(r, w, g)
         /\ w.inUse => r.inUse
         /\ w.state = "UDP_MODE" <=> r.state = "UDP_MODE"
         /\ r.state \notin Teardown => w.inUse = r.inUse /\ w.state \notin Teardown
<1>1. CASE r.state = "UDP_MODE"
  <2>1. \/ w = r
        \/ Len(r.rx) < STREAM_RX_SIZE /\ w = [r EXCEPT !.rx = Append(r.rx, g.from)]
    BY <1>1 DEF writeRX, Stored
  <2>2. /\ w \in Stream /\ Fits(w) /\ KeepsIdentity(r, w, g)
        /\ w.inUse = r.inUse /\ w.state = r.state
    BY <2>1, StoredKeeps
  <2> QED
    BY <1>1, <2>2 DEF Teardown
<1>2. CASE r.state \in {"ESTABLISHED", "FIN_WAIT_1", "FIN_WAIT_2"}
  <2> DEFINE s == Stored(r, g, g.kind.data /\ inOrder)
  <2>1. /\ s \in Stream /\ Fits(s) /\ KeepsIdentity(r, s, g)
        /\ s.inUse = r.inUse /\ s.state = r.state
    <3>1. \/ s = r
          \/ Len(r.rx) < STREAM_RX_SIZE /\ s = [r EXCEPT !.rx = Append(r.rx, g.from)]
      BY DEF Stored
    <3> HIDE DEF s
    <3> QED
      BY <3>1, StoredKeeps
  <2>2. w = Receiving(r, g, inOrder, acksFin)
    BY <1>2 DEF writeRX, TCPprocessor
  <2>3. \/ w = [r EXCEPT !.state = "CLOSED"]
        \/ w = [s EXCEPT !.state = AfterFin(r.state, acksFin)]
        \/ r.state = "FIN_WAIT_1" /\ w = [s EXCEPT !.state = "FIN_WAIT_2"]
        \/ w = s
    BY <2>2 DEF Receiving
  <2>4. /\ AfterFin(r.state, acksFin) \in TCPstate \ {"UDP_MODE"}
        /\ r.state \notin Teardown => AfterFin(r.state, acksFin) \notin Teardown
    BY <1>2 DEF AfterFin, TCPstate, Teardown
  <2> HIDE DEF s
  <2>5. /\ w \in Stream /\ Fits(w) /\ KeepsIdentity(r, w, g) /\ w.inUse = r.inUse
        /\ \/ w.state \in {"CLOSED", AfterFin(r.state, acksFin), r.state}
           \/ r.state = "FIN_WAIT_1" /\ w.state = "FIN_WAIT_2"
    <3>1. "CLOSED" \in TCPstate /\ "FIN_WAIT_2" \in TCPstate
      BY DEF TCPstate
    <3>2. CASE w = [r EXCEPT !.state = "CLOSED"]
      BY <3>1, <3>2, StateChangeKeeps
    <3>3. CASE w = [s EXCEPT !.state = AfterFin(r.state, acksFin)]
      BY <2>1, <2>4, <3>3, StateOfStored
    <3>4. CASE r.state = "FIN_WAIT_1" /\ w = [s EXCEPT !.state = "FIN_WAIT_2"]
      BY <2>1, <3>1, <3>4, StateOfStored
    <3>5. CASE w = s
      BY <2>1, <3>5
    <3> QED
      BY <2>3, <3>2, <3>3, <3>4, <3>5
  <2> QED
    BY <1>2, <2>4, <2>5 DEF Teardown
<1>3. CASE r.state \in {"LAST_ACK", "CLOSING"}
  <2>1. w = AwaitingAck(r, g, acksFin)
    BY <1>3 DEF writeRX, TCPprocessor
  <2>2. CASE w = [r EXCEPT !.state = "CLOSED", !.inUse = FALSE]
    BY <1>3, <2>2 DEF Stream, Fits, KeepsIdentity, TCPstate, Teardown
  <2>3. CASE w = [r EXCEPT !.state = "TIME_WAIT"] \/ w = r
    BY <1>3, <2>3 DEF Stream, Fits, KeepsIdentity, TCPstate, Teardown
  <2> QED
    BY <2>1, <2>2, <2>3 DEF AwaitingAck
<1>4. CASE r.state \in {"CLOSED", "LISTEN", "SYN_RECEIVED", "SYN_SENT", "CLOSE_WAIT", "TIME_WAIT"}
  <2>1. w = TCPprocessor(r, g, inOrder, acksFin)
    BY <1>4 DEF writeRX
  <2>2. \/ w = r
        \/ \E state \in {"CLOSED", "LISTEN", "SYN_RECEIVED", "ESTABLISHED"} :
               w = [r EXCEPT !.state = state]
    BY <1>4, <2>1 DEF TCPprocessor, InListen, InSynReceived
  <2>3. CASE w = r
    BY <1>4, <2>3 DEF KeepsIdentity, Teardown
  <2>4. CASE \E state \in {"CLOSED", "LISTEN", "SYN_RECEIVED", "ESTABLISHED"} :
               w = [r EXCEPT !.state = state]
    <3>1. PICK state \in {"CLOSED", "LISTEN", "SYN_RECEIVED", "ESTABLISHED"} :
               w = [r EXCEPT !.state = state]
      BY <2>4
    <3>2. state \in TCPstate \ {"UDP_MODE"} /\ state \notin Teardown
      BY DEF TCPstate, Teardown
    <3>3. /\ w \in Stream /\ Fits(w) /\ KeepsIdentity(r, w, g)
          /\ w.inUse = r.inUse /\ w.state = state
      BY <3>1, <3>2, StateChangeKeeps
    <3> QED
      BY <1>4, <3>2, <3>3
  <2> QED
    BY <2>2, <2>3, <2>4
<1> QED
  BY <1>1, <1>2, <1>3, <1>4 DEF Stream, TCPstate

\* An arriving message changes at most one stream: the one of its sender, or a
\* free slot that a listening socket opens for it.
MessageChanges(g, i, r, w) ==
    /\ streams' = [streams EXCEPT ![i] = w]
    /\ r \in Stream /\ Fits(r)
    /\ w \in Stream /\ Fits(w) /\ KeepsIdentity(r, w, g)
    /\ w.inUse => r.inUse
    /\ w.state = "UDP_MODE" <=> r.state = "UDP_MODE"
    /\ r.state \notin Teardown => w.inUse = r.inUse /\ w.state \notin Teardown
    /\ \/ i \in Matching(g) /\ r = streams[i]
       \/ /\ Matching(g) = {} /\ i \in FreeStreams
          /\ \E k \in Listening(g) : r = Opened(i, k, g)

\* The stream incomingMessage opens for a listening socket is well typed.
LEMMA OpenedIsStream ==
  ASSUME NEW i, NEW g \in Messages, NEW k \in Listening(g)
  PROVE  Opened(i, k, g) \in Stream /\ Fits(Opened(i, k, g))
<1>1. k \in SocketIds /\ g.from \in Remotes
  BY DEF Listening, Messages
<1>2. Opened(i, k, g) \in Stream
  <2>1. <<>> \in Seq(Remotes)
    OBVIOUS
  <2> QED
    BY <1>1, <2>1 DEF Opened, Stream, TCPstate
<1>3. Len(Opened(i, k, g).rx) = 0
  BY DEF Opened
<1> QED
  BY <1>2, <1>3, SocketAssumption DEF Fits

\* incomingMessage changes one stream at most, in one of two ways: the stream of
\* the sender, or a free one that it opens first (MessageChanges).
LEMMA MessageStep ==
  ASSUME TypeInv, NEW g \in Messages, incomingMessage(g)
  PROVE  /\ UNCHANGED <<sockets, held, serving>>
         /\ \/ UNCHANGED streams
            \/ \E i \in StreamIds : \E r, w : MessageChanges(g, i, r, w)
<1>1. UNCHANGED <<sockets, held, serving>>
  BY DEF incomingMessage
<1>2. PICK inOrder \in BOOLEAN, acksFin \in BOOLEAN :
        IF Matching(g) # {}
        THEN streams' = [streams EXCEPT ![Lowest(Matching(g))] =
                           writeRX(@, g, inOrder, acksFin)]
        ELSE IF Listening(g) # {} /\ FreeStreams # {}
        THEN streams' = [streams EXCEPT ![Lowest(FreeStreams)] =
                 writeRX(Opened(Lowest(FreeStreams), Lowest(Listening(g)), g), g, inOrder, acksFin)]
        ELSE UNCHANGED streams
  BY DEF incomingMessage
<1>3. CASE Matching(g) # {}
  <2> DEFINE i == Lowest(Matching(g))
             w == writeRX(streams[i], g, inOrder, acksFin)
  <2>1. i \in Matching(g) /\ i \in StreamIds
    BY <1>3, FirstFound DEF Matching
  <2>2. streams[i] \in Stream /\ Fits(streams[i])
    BY <2>1 DEF TypeInv, Fits
  <2>3. streams' = [streams EXCEPT ![i] = w]
    BY <1>2, <1>3
  <2>4. /\ w \in Stream /\ Fits(w) /\ KeepsIdentity(streams[i], w, g)
        /\ w.inUse => streams[i].inUse
        /\ w.state = "UDP_MODE" <=> streams[i].state = "UDP_MODE"
        /\ streams[i].state \notin Teardown =>
             w.inUse = streams[i].inUse /\ w.state \notin Teardown
    BY <2>2, WriteKeeps
  <2> HIDE DEF w
  <2>5. MessageChanges(g, i, streams[i], w)
    BY <2>1, <2>2, <2>3, <2>4 DEF MessageChanges
  <2> QED
    BY <1>1, <2>1, <2>5
<1>4. CASE Matching(g) = {} /\ Listening(g) # {} /\ FreeStreams # {}
  <2> DEFINE i == Lowest(FreeStreams)
             k == Lowest(Listening(g))
             r == Opened(i, k, g)
             w == writeRX(r, g, inOrder, acksFin)
  <2>1. i \in FreeStreams /\ i \in StreamIds /\ k \in Listening(g)
    BY <1>4, FirstFound DEF FreeStreams
  <2>2. r \in Stream /\ Fits(r)
    BY <2>1, OpenedIsStream
  <2>3. streams' = [streams EXCEPT ![i] = w]
    BY <1>2, <1>4
  <2>4. /\ w \in Stream /\ Fits(w) /\ KeepsIdentity(r, w, g)
        /\ w.inUse => r.inUse
        /\ w.state = "UDP_MODE" <=> r.state = "UDP_MODE"
        /\ r.state \notin Teardown => w.inUse = r.inUse /\ w.state \notin Teardown
    <3> HIDE DEF r
    <3> QED
      BY <2>2, WriteKeeps
  <2>5. \E n \in Listening(g) : r = Opened(i, n, g)
    BY <2>1
  <2> HIDE DEF w, r, i, k
  <2>6. MessageChanges(g, i, r, w)
    BY <1>4, <2>1, <2>2, <2>3, <2>4, <2>5 DEF MessageChanges
  <2> QED
    BY <1>1, <2>1, <2>6
<1> QED
  BY <1>1, <1>2, <1>3, <1>4

\* recv leaves a suffix of the data it found.
LEMMA RecvStep ==
  ASSUME TypeInv, NEW i \in StreamIds, NEW buflen \in 1 .. STREAM_RX_SIZE, recv(i, buflen)
  PROVE  \E x \in Seq(Remotes) :
           /\ Len(x) <= Len(streams[i].rx)
           /\ \A n \in 1 .. Len(x) : \E m \in 1 .. Len(streams[i].rx) : x[n] = streams[i].rx[m]
           /\ streams' = [streams EXCEPT ![i] = [streams[i] EXCEPT !.rx = x]]
<1> DEFINE q == streams[i].rx
           t == Taken(streams[i], buflen)
           x == SubSeq(q, t + 1, Len(q))
<1>1. q \in Seq(Remotes) /\ q # <<>>
  BY DEF TypeInv, Stream, recv, recvResult
<1>2. Len(q) \in Nat /\ Len(q) > 0
  BY <1>1
<1>3. t \in 1 .. Len(q)
  BY <1>2, SocketAssumption DEF Taken
<1>4. streams' = [streams EXCEPT ![i] = [streams[i] EXCEPT !.rx = x]]
  BY DEF recv, TypeInv
<1> HIDE DEF q, t
<1>5. /\ x \in Seq(Remotes) /\ Len(x) = Len(q) - t
      /\ \A n \in 1 .. Len(x) : n + t \in 1 .. Len(q) /\ x[n] = q[n + t]
  BY <1>1, <1>2, <1>3
<1> HIDE DEF x
<1>6. Len(x) <= Len(q)
  BY <1>2, <1>3, <1>5
<1>7. \A n \in 1 .. Len(x) : \E m \in 1 .. Len(q) : x[n] = q[m]
  <2> TAKE n \in 1 .. Len(x)
  <2>1. n + t \in 1 .. Len(q) /\ x[n] = q[n + t]
    BY <1>5
  <2> QED
    BY <2>1
<1> QED
  BY <1>4, <1>5, <1>6, <1>7 DEF q

-----------------------------------------------------------------------------

\* The empty tables have their types.
LEMMA TypeInit ==
  ASSUME Init
  PROVE  TypeInv
<1>1. <<>> \in Seq(Remotes) /\ Len(<<>>) = 0
  OBVIOUS
<1>2. 0 \in SocketIds
  BY SocketAssumption DEF SocketIds
<1> QED
  BY <1>1, <1>2, SocketAssumption DEF Init, TypeInv, Stream, Socket, TCPstate

\* Every operation keeps the types, and no receive buffer past its end.
LEMMA TypeStep ==
  ASSUME TypeInv, [Next]_vars
  PROVE  TypeInv'
<1>1. ASSUME NEW g \in Messages, incomingMessage(g) PROVE TypeInv'
  <2>1. CASE UNCHANGED streams
    BY <1>1, <2>1, MessageStep DEF TypeInv
  <2>2. CASE \E i \in StreamIds : \E r, w : MessageChanges(g, i, r, w)
    BY <1>1, <2>2, MessageStep DEF TypeInv, MessageChanges, Fits
  <2> QED
    BY <1>1, <2>1, <2>2, MessageStep
<1>2. ASSUME NEW i \in StreamIds, TimeWaitOver(i) PROVE TypeInv'
  <2> DEFINE w == [streams[i] EXCEPT !.state = "CLOSED", !.inUse = FALSE]
  <2>1. w \in Stream /\ w.rx = streams[i].rx
    BY DEF TypeInv, Stream, TCPstate
  <2>2. streams' = [streams EXCEPT ![i] = w] /\ UNCHANGED <<sockets, held, serving>>
    BY <1>2 DEF TimeWaitOver, TypeInv
  <2> HIDE DEF w
  <2> QED
    BY <2>1, <2>2 DEF TypeInv
<1>3. ASSUME NEW protocol \in Protocols, socket(protocol) PROVE TypeInv'
  BY <1>3, FirstFound DEF TypeInv, socket, FreeSockets, Socket
<1>4. ASSUME NEW k \in SocketIds, NEW port \in Ports, bindlisten(k, port) PROVE TypeInv'
  BY <1>4 DEF TypeInv, bindlisten, Socket
<1>5. ASSUME NEW k \in SocketIds, NEW remote \in Remotes, connect(k, remote) PROVE TypeInv'
  <2>1. sockets' \in [SocketIds -> Socket]
    BY <1>5 DEF TypeInv, connect, Socket
  <2>2. CASE FreeStreams = {}
    BY <1>5, <2>1, <2>2 DEF TypeInv, connect
  <2>3. CASE FreeStreams # {}
    <3> DEFINE i == Lowest(FreeStreams)
               w == [inUse |-> TRUE, accepted |-> TRUE, parent |-> k, remote |-> remote,
                     rx |-> <<>>,
                     state |-> IF sockets[k].protocol = "TCP" THEN streams[i].state
                                                             ELSE "UDP_MODE"]
    <3>1. i \in StreamIds
      BY <2>3, FirstFound DEF FreeStreams
    <3>2. streams[i].state \in TCPstate
      BY <3>1 DEF TypeInv, Stream
    <3>3. <<>> \in Seq(Remotes) /\ Len(<<>>) = 0
      OBVIOUS
    <3>4. w \in Stream /\ Len(w.rx) = 0
      BY <3>2, <3>3 DEF Stream, TCPstate
    <3>5. streams' = [streams EXCEPT ![i] = w] /\ held' = held \cup {i} /\ serving' = FALSE
      BY <1>5, <2>3 DEF connect
    <3> HIDE DEF w, i
    <3> QED
      <4>1. streams' \in [StreamIds -> Stream]
        BY <3>1, <3>4, <3>5 DEF TypeInv
      <4>2. held' \subseteq StreamIds /\ serving' \in BOOLEAN
        BY <3>1, <3>5 DEF TypeInv
      <4>3. \A n \in StreamIds : Len(streams'[n].rx) <= STREAM_RX_SIZE
        BY <3>1, <3>4, <3>5, SocketAssumption DEF TypeInv
      <4> QED
        BY <2>1, <4>1, <4>2, <4>3 DEF TypeInv
  <2> QED
    BY <2>2, <2>3
<1>6. ASSUME NEW k \in SocketIds, accept(k) PROVE TypeInv'
  <2> DEFINE i == Lowest(Pending(k))
             w == [streams[i] EXCEPT !.accepted = TRUE]
  <2>1. i \in StreamIds
    BY <1>6, FirstFound DEF accept, Pending
  <2>2. w \in Stream /\ w.rx = streams[i].rx
    BY <2>1 DEF TypeInv, Stream
  <2>3. /\ streams' = [streams EXCEPT ![i] = w]
        /\ held' = held \cup {i} /\ UNCHANGED <<sockets, serving>>
    BY <1>6 DEF accept
  <2> HIDE DEF w, i
  <2> QED
    BY <2>1, <2>2, <2>3 DEF TypeInv
<1>7. ASSUME NEW k \in SocketIds, closeSocket(k) PROVE TypeInv'
  BY <1>7 DEF TypeInv, closeSocket, Socket
<1>8. ASSUME NEW i \in StreamIds, NEW buflen \in 1 .. STREAM_RX_SIZE, recv(i, buflen)
      PROVE  TypeInv'
  <2>1. PICK x \in Seq(Remotes) :
          /\ Len(x) <= Len(streams[i].rx)
          /\ streams' = [streams EXCEPT ![i] = [streams[i] EXCEPT !.rx = x]]
    BY <1>8, RecvStep
  <2>2. streams[i] \in Stream /\ Len(streams[i].rx) <= STREAM_RX_SIZE
    BY DEF TypeInv
  <2>3. /\ [streams[i] EXCEPT !.rx = x] \in Stream
        /\ [streams[i] EXCEPT !.rx = x].rx = x
    BY <2>2 DEF Stream
  <2>4. Len(x) \in Nat /\ Len(streams[i].rx) \in Nat
    BY <2>2 DEF Stream
  <2>5. Len(x) <= STREAM_RX_SIZE
    BY <2>1, <2>2, <2>4, SocketAssumption
  <2> QED
    BY <1>8, <2>1, <2>3, <2>5 DEF TypeInv, recv
<1>9. ASSUME NEW i \in StreamIds, closeStream(i) PROVE TypeInv'
  <2> DEFINE w == [streams[i] EXCEPT !.state = Closed(streams[i].state), !.inUse = FALSE]
  <2>1. streams[i] \in Stream
    BY DEF TypeInv
  <2>2. Closed(streams[i].state) \in TCPstate
    BY <2>1 DEF Closed, TCPstate, Stream
  <2>3. w \in Stream /\ w.rx = streams[i].rx
    BY <2>1, <2>2 DEF Stream
  <2>4. streams' = [streams EXCEPT ![i] = w] /\ UNCHANGED <<sockets, serving>> /\ held' = held \ {i}
    BY <1>9 DEF closeStream, TypeInv
  <2> HIDE DEF w
  <2> QED
    BY <2>3, <2>4 DEF TypeInv
<1>10. CASE UNCHANGED vars
  BY <1>10 DEF vars, TypeInv
<1> QED
  BY <1>1, <1>2, <1>3, <1>4, <1>5, <1>6, <1>7, <1>8, <1>9, <1>10 DEF Next

\* Whatever the application calls, the tables keep their types and no receive
\* buffer is written past its end.
THEOREM TypeCorrect == Spec => []TypeInv
<1>1. Init => TypeInv
  BY TypeInit
<1>2. TypeInv /\ [Next]_vars => TypeInv'
  BY TypeStep
<1> QED
  BY <1>1, <1>2, PTL DEF Spec

-----------------------------------------------------------------------------

\* Whatever the application calls, a stream in use holds data of its own
\* remote only: a slot is emptied before its next owner's data goes in.
THEOREM ClientsSeparated == Spec => []NoCrossTalk
<1>1. Init => NoCrossTalk
  BY DEF Init, NoCrossTalk
<1>2. TypeInv /\ NoCrossTalk /\ [Next]_vars => NoCrossTalk'
  <2> SUFFICES ASSUME TypeInv, NoCrossTalk, [Next]_vars,
                      NEW j \in StreamIds, streams'[j].inUse, NEW n \in 1 .. Len(streams'[j].rx)
               PROVE  streams'[j].rx[n] = streams'[j].remote
    BY DEF NoCrossTalk
  <2> USE DEF TypeInv
  <2>0. ASSUME streams'[j].rx = streams[j].rx, streams'[j].remote = streams[j].remote,
               streams[j].inUse
        PROVE  streams'[j].rx[n] = streams'[j].remote
    BY <2>0 DEF NoCrossTalk
  <2>1. ASSUME NEW g \in Messages, incomingMessage(g)
        PROVE  streams'[j].rx[n] = streams'[j].remote
    <3>1. CASE UNCHANGED streams
      BY <2>0, <3>1
    <3>2. CASE \E i \in StreamIds : \E r, w : MessageChanges(g, i, r, w)
      <4>0. PICK i \in StreamIds : \E r, w : MessageChanges(g, i, r, w)
        BY <3>2
      <4>1. PICK r, w : MessageChanges(g, i, r, w)
        BY <4>0
      <4>2. CASE i # j
        BY <2>0, <4>1, <4>2 DEF MessageChanges
      <4>3. CASE i = j
        <5>1. /\ streams'[j] = w /\ w.remote = r.remote /\ r \in Stream
              /\ w.rx = r.rx \/ w.rx = Append(r.rx, g.from)
              /\ w.inUse => r.inUse
          BY <4>1, <4>3 DEF MessageChanges, KeepsIdentity
        <5>2. /\ r.remote = g.from
              /\ \A m \in 1 .. Len(r.rx) : r.rx[m] = r.remote
          <6>1. CASE i \in Matching(g) /\ r = streams[i]
            BY <4>3, <6>1 DEF NoCrossTalk, Matching
          <6>2. CASE \E k \in Listening(g) : r = Opened(i, k, g)
            <7>1. r.remote = g.from /\ Len(r.rx) = 0
              BY <6>2 DEF Opened
            <7> QED
              BY <7>1
          <6> QED
            BY <4>1, <6>1, <6>2 DEF MessageChanges
        <5>3. r.rx \in Seq(Remotes)
          BY <5>1 DEF Stream
        <5>4. CASE w.rx = r.rx
          BY <5>1, <5>2, <5>4
        <5>5. CASE w.rx = Append(r.rx, g.from)
          <6>1. Len(w.rx) = Len(r.rx) + 1
            BY <5>3, <5>5
          <6>2. CASE n = Len(r.rx) + 1
            <7>1. w.rx[n] = g.from
              BY <5>3, <5>5, <6>2
            <7> QED
              BY <5>1, <5>2, <7>1
          <6>3. CASE n # Len(r.rx) + 1
            <7>1. n \in 1 .. Len(r.rx)
              BY <5>1, <5>3, <6>1, <6>3
            <7>2. w.rx[n] = r.rx[n]
              BY <5>3, <5>5, <7>1
            <7> QED
              BY <5>1, <5>2, <7>1, <7>2
          <6> QED
            BY <6>2, <6>3
        <5> QED
          BY <5>1, <5>4, <5>5
      <4> QED
        BY <4>2, <4>3
    <3> QED
      BY <2>1, <3>1, <3>2, MessageStep
  <2>2. ASSUME NEW i \in StreamIds, TimeWaitOver(i)
        PROVE  streams'[j].rx[n] = streams'[j].remote
    BY <2>0, <2>2 DEF TimeWaitOver, Stream
  <2>3. ASSUME UNCHANGED streams
        PROVE  streams'[j].rx[n] = streams'[j].remote
    BY <2>0, <2>3
  <2>4. ASSUME NEW k \in SocketIds, NEW remote \in Remotes, connect(k, remote)
        PROVE  streams'[j].rx[n] = streams'[j].remote
    <3>1. CASE streams' = streams
      BY <2>3, <3>1
    <3>2. CASE FreeStreams # {}
      <4>1. Lowest(FreeStreams) \in StreamIds
        BY <3>2, FirstFound DEF FreeStreams
      <4>2. CASE j = Lowest(FreeStreams)
        <5>1. streams'[j].rx = <<>>
          BY <2>4, <3>2, <4>1, <4>2 DEF connect
        <5> QED
          BY <5>1
      <4>3. CASE j # Lowest(FreeStreams)
        <5>1. streams'[j] = streams[j]
          BY <2>4, <3>2, <4>1, <4>3 DEF connect
        <5> QED
          BY <2>0, <5>1
      <4> QED
        BY <4>2, <4>3
    <3> QED
      BY <2>4, <3>1, <3>2 DEF connect
  <2>5. ASSUME NEW k \in SocketIds, accept(k)
        PROVE  streams'[j].rx[n] = streams'[j].remote
    <3>1. /\ streams'[j].rx = streams[j].rx /\ streams'[j].remote = streams[j].remote
          /\ streams'[j].inUse = streams[j].inUse
      BY <2>5 DEF accept, Stream
    <3> QED
      BY <2>0, <3>1
  <2>6. ASSUME NEW i \in StreamIds, NEW buflen \in 1 .. STREAM_RX_SIZE, recv(i, buflen)
        PROVE  streams'[j].rx[n] = streams'[j].remote
    <3>1. CASE i # j
      BY <2>0, <2>6, <3>1 DEF recv
    <3>2. CASE i = j
      <4>1. PICK x \in Seq(Remotes) :
              /\ \A m \in 1 .. Len(x) : \E l \in 1 .. Len(streams[i].rx) : x[m] = streams[i].rx[l]
              /\ streams' = [streams EXCEPT ![i] = [streams[i] EXCEPT !.rx = x]]
        BY <2>6, RecvStep
      <4>2. /\ streams'[j].rx = x /\ streams'[j].remote = streams[j].remote
            /\ streams[j].inUse
        BY <2>6, <3>2, <4>1 DEF Stream, recv, recvResult
      <4> QED
        BY <3>2, <4>1, <4>2 DEF NoCrossTalk
    <3> QED
      BY <3>1, <3>2
  <2>7. ASSUME NEW i \in StreamIds, closeStream(i)
        PROVE  streams'[j].rx[n] = streams'[j].remote
    <3>1. /\ streams'[j].rx = streams[j].rx /\ streams'[j].remote = streams[j].remote
          /\ streams'[j].inUse => streams[j].inUse
      BY <2>7 DEF closeStream, Stream
    <3> QED
      BY <2>0, <3>1
  <2> QED
    BY <2>1, <2>2, <2>3, <2>4, <2>5, <2>6, <2>7 DEF Next, vars, socket, bindlisten, closeSocket
<1> QED
  BY <1>1, <1>2, TypeCorrect, PTL DEF Spec

-----------------------------------------------------------------------------
(* An application that only serves, as main.c does: it calls socket,       *)
(* bindlisten once per socket, accept, recv, send and closeStream.  What   *)
(* makes its invariants inductive is that the parent of a stream is in use *)
(* and listening: no such socket is closed or bound again, so the parent   *)
(* stays the socket that opened the stream.                                *)

\* What holds of one stream in use.  It is never in a state of the closing
\* handshake, since closeStream frees it in the call that sends its FIN.
Serves(r) ==
    /\ r.state \notin Teardown
    /\ r.state = "UDP_MODE" <=> sockets[r.parent].protocol = "UDP"
    /\ sockets[r.parent].inUse /\ sockets[r.parent].listening

StreamsServe == \A i \in StreamIds : streams[i].inUse => Serves(streams[i])

SameClient(r, s) ==
    r.remote = s.remote /\ sockets[r.parent].protocol = sockets[s.parent].protocol

ServerInv ==
    /\ held = {i \in StreamIds : streams[i].inUse /\ streams[i].accepted}
    /\ StreamsServe
    /\ \A i, j \in StreamIds :
         streams[i].inUse /\ streams[j].inUse /\ SameClient(streams[i], streams[j]) => i = j

\* A step that changes one stream and keeps what is known of it, and gives the
\* application its descriptor or takes it back.
LEMMA OneStreamChanged ==
  ASSUME TypeInv, ServerInv, UNCHANGED sockets, NEW i \in StreamIds, NEW w,
         streams' = [streams EXCEPT ![i] = w],
         held' = IF w.inUse /\ w.accepted THEN held \cup {i} ELSE held \ {i},
         w.inUse => Serves(w),
         w.inUse => \A j \in StreamIds \ {i} : streams[j].inUse => ~SameClient(w, streams[j])
  PROVE  ServerInv'
<1>1. ASSUME NEW j \in StreamIds PROVE streams'[j] = IF j = i THEN w ELSE streams[j]
  BY DEF TypeInv
<1>2. held' = {j \in StreamIds : streams'[j].inUse /\ streams'[j].accepted}
  BY <1>1 DEF ServerInv, StreamsServe
<1>3. ASSUME NEW j \in StreamIds, streams'[j].inUse PROVE Serves(streams[j])' 
  <2>1. Serves(streams'[j])
    BY <1>1, <1>3 DEF ServerInv, StreamsServe
  <2> QED
    BY <2>1 DEF Serves
<1>4. ASSUME NEW j \in StreamIds, NEW l \in StreamIds, streams'[j].inUse, streams'[l].inUse,
             SameClient(streams[j], streams[l])'
      PROVE  j = l
  <2>1. SameClient(streams'[j], streams'[l]) /\ SameClient(streams'[l], streams'[j])
    BY <1>4 DEF SameClient
  <2> QED
    BY <1>1, <1>4, <2>1 DEF ServerInv, StreamsServe
<1> QED
  BY <1>2, <1>3, <1>4 DEF ServerInv, StreamsServe

\* A step that changes only a socket no stream in use belongs to.
LEMMA OneSocketChanged ==
  ASSUME TypeInv, ServerInv, UNCHANGED <<streams, held>>, NEW k \in SocketIds, NEW x,
         sockets' = [sockets EXCEPT ![k] = x],
         ~sockets[k].inUse \/ ~sockets[k].listening
  PROVE  ServerInv'
<1>1. ASSUME NEW j \in StreamIds, streams[j].inUse
      PROVE  sockets'[streams[j].parent] = sockets[streams[j].parent]
  BY <1>1 DEF TypeInv, ServerInv, StreamsServe, Serves
<1>2. ASSUME NEW j \in StreamIds, streams[j].inUse PROVE Serves(streams[j])'
  BY <1>1, <1>2 DEF ServerInv, StreamsServe, Serves
<1>3. ASSUME NEW j \in StreamIds, NEW l \in StreamIds, streams[j].inUse, streams[l].inUse,
             SameClient(streams[j], streams[l])'
      PROVE  j = l
  BY <1>1, <1>3 DEF ServerInv, StreamsServe, SameClient
<1>4. held' = {j \in StreamIds : streams'[j].inUse /\ streams'[j].accepted}
  BY DEF ServerInv, StreamsServe
<1> QED
  BY <1>2, <1>3, <1>4 DEF ServerInv, StreamsServe

\* The induction step of the server's invariant.
LEMMA ServerStep ==
  ASSUME TypeInv, ServerInv, [Next]_vars, serving'
  PROVE  ServerInv'
<1>1. ASSUME NEW g \in Messages, incomingMessage(g) PROVE ServerInv'
  <2>1. UNCHANGED <<sockets, held, serving>>
    BY <1>1, MessageStep
  <2>2. CASE UNCHANGED streams
    BY <2>1, <2>2
       DEF ServerInv, StreamsServe, Serves, SameClient
  <2>3. ASSUME NEW i \in StreamIds, NEW r, NEW w, MessageChanges(g, i, r, w)
        PROVE  ServerInv'
    <3>1. /\ streams' = [streams EXCEPT ![i] = w]
          /\ w.accepted = r.accepted /\ w.parent = r.parent /\ w.remote = r.remote
          /\ w.state = "UDP_MODE" <=> r.state = "UDP_MODE"
          /\ r.state \notin Teardown => w.inUse = r.inUse /\ w.state \notin Teardown
      BY <2>3 DEF MessageChanges, KeepsIdentity
    <3>2. CASE i \in Matching(g) /\ r = streams[i]
      <4>1. r.inUse /\ Serves(r)
        BY <3>2 DEF ServerInv, StreamsServe, Matching
      <4>2. w.inUse /\ Serves(w)
        BY <3>1, <4>1 DEF Serves
      <4>3. ASSUME NEW j \in StreamIds \ {i}, streams[j].inUse, SameClient(w, streams[j])
            PROVE  FALSE
        <5>1. SameClient(r, streams[j])
          BY <3>1, <4>3 DEF SameClient
        <5> QED
          BY <3>2, <4>1, <4>3, <5>1 DEF ServerInv, StreamsServe
      <4>4. held' = IF w.inUse /\ w.accepted THEN held \cup {i} ELSE held \ {i}
        BY <2>1, <3>1, <3>2, <4>1, <4>2 DEF ServerInv, StreamsServe
      <4> QED
        BY <2>1, <3>1, <4>2, <4>3, <4>4, OneStreamChanged
    <3>3. ASSUME Matching(g) = {}, i \in FreeStreams, NEW k \in Listening(g), r = Opened(i, k, g)
          PROVE  ServerInv'
      <4>1. /\ r.inUse /\ ~r.accepted /\ r.parent = k /\ r.remote = g.from
            /\ r.state = IF sockets[k].protocol = "UDP" THEN "UDP_MODE" ELSE "LISTEN"
        BY <3>3 DEF Opened
      <4>2. /\ sockets[k].inUse /\ sockets[k].listening
            /\ sockets[k].port = g.port /\ sockets[k].protocol = g.protocol
        BY DEF Listening
      <4>3. r.state \notin Teardown /\ (r.state = "UDP_MODE" <=> sockets[k].protocol = "UDP")
        BY <4>1 DEF Teardown
      <4>4. w.inUse /\ ~w.accepted /\ Serves(w)
        BY <3>1, <4>1, <4>2, <4>3 DEF Serves
      <4>5. ASSUME NEW j \in StreamIds, streams[j].inUse, SameClient(w, streams[j])
            PROVE  FALSE
        <5>1. j \in Matching(g)
          BY <3>1, <4>1, <4>2, <4>5 DEF SameClient, Matching
        <5> QED
          BY <3>3, <5>1
      <4>6. held' = IF w.inUse /\ w.accepted THEN held \cup {i} ELSE held \ {i}
        BY <2>1, <3>3, <4>4 DEF ServerInv, StreamsServe, FreeStreams
      <4> QED
        BY <2>1, <3>1, <4>4, <4>5, <4>6, OneStreamChanged
    <3> QED
      BY <2>3, <3>2, <3>3 DEF MessageChanges
  <2> QED
    BY <1>1, <2>2, <2>3, MessageStep
<1>2. ASSUME NEW i \in StreamIds, TimeWaitOver(i) PROVE ServerInv'
  BY <1>2 DEF TimeWaitOver, ServerInv, StreamsServe, Serves, Teardown
<1>3. ASSUME NEW protocol \in Protocols, socket(protocol) PROVE ServerInv'
  <2> DEFINE k == Lowest(FreeSockets)
             x == [port |-> 0, protocol |-> protocol, inUse |-> TRUE, listening |-> FALSE]
  <2>1. k \in SocketIds /\ ~sockets[k].inUse
    BY <1>3, FirstFound DEF socket, FreeSockets
  <2>2. sockets' = [sockets EXCEPT ![k] = x] /\ UNCHANGED <<streams, held>>
    BY <1>3 DEF socket
  <2> HIDE DEF k, x
  <2> QED
    BY <2>1, <2>2, OneSocketChanged
<1>4. ASSUME NEW k \in SocketIds, NEW port \in Ports, bindlisten(k, port) PROVE ServerInv'
  <2> DEFINE x == [sockets[k] EXCEPT !.listening = TRUE, !.port = port]
  <2>1. ~sockets[k].listening
    BY <1>4 DEF bindlisten
  <2>2. sockets' = [sockets EXCEPT ![k] = x] /\ UNCHANGED <<streams, held>>
    BY <1>4 DEF bindlisten, TypeInv
  <2> HIDE DEF x
  <2> QED
    BY <2>1, <2>2, OneSocketChanged
<1>5. ASSUME NEW k \in SocketIds, accept(k) PROVE ServerInv'
  <2> DEFINE i == Lowest(Pending(k))
             w == [streams[i] EXCEPT !.accepted = TRUE]
  <2>1. i \in StreamIds /\ streams[i].inUse
    BY <1>5, FirstFound DEF accept, Pending
  <2>2. /\ streams' = [streams EXCEPT ![i] = w]
        /\ held' = held \cup {i} /\ UNCHANGED sockets
    BY <1>5 DEF accept
  <2>3. /\ w.inUse /\ w.accepted /\ w.state = streams[i].state /\ w.parent = streams[i].parent
        /\ w.remote = streams[i].remote
    BY <2>1 DEF TypeInv, Stream
  <2> HIDE DEF w, i
  <2>4. Serves(w)
    BY <2>1, <2>3 DEF ServerInv, StreamsServe, Serves
  <2>5. ASSUME NEW j \in StreamIds \ {i}, streams[j].inUse, SameClient(w, streams[j])
        PROVE  FALSE
    <3>1. SameClient(streams[i], streams[j])
      BY <2>3, <2>5 DEF SameClient
    <3> QED
      BY <2>1, <2>5, <3>1 DEF ServerInv, StreamsServe
  <2> QED
    BY <2>1, <2>2, <2>3, <2>4, <2>5, OneStreamChanged
<1>6. ASSUME NEW i \in StreamIds, NEW buflen \in 1 .. STREAM_RX_SIZE, recv(i, buflen)
      PROVE  ServerInv'
  <2>1. PICK x \in Seq(Remotes) :
          streams' = [streams EXCEPT ![i] = [streams[i] EXCEPT !.rx = x]]
    BY <1>6, RecvStep
  <2> DEFINE w == [streams[i] EXCEPT !.rx = x]
  <2>2. /\ streams[i].inUse /\ streams[i].accepted /\ i \in held
        /\ UNCHANGED <<sockets, held, serving>>
    BY <1>6 DEF recv, recvResult
  <2>3. /\ w.inUse /\ w.accepted /\ w.state = streams[i].state /\ w.parent = streams[i].parent
        /\ w.remote = streams[i].remote
    BY <2>2 DEF TypeInv, Stream
  <2>4. streams' = [streams EXCEPT ![i] = w]
    BY <2>1
  <2> HIDE DEF w
  <2>5. Serves(w)
    BY <2>2, <2>3 DEF ServerInv, StreamsServe, Serves
  <2>6. ASSUME NEW j \in StreamIds \ {i}, streams[j].inUse, SameClient(w, streams[j])
        PROVE  FALSE
    <3>1. SameClient(streams[i], streams[j])
      BY <2>3, <2>6 DEF SameClient
    <3> QED
      BY <2>2, <2>6, <3>1 DEF ServerInv, StreamsServe
  <2> QED
    BY <2>2, <2>3, <2>4, <2>5, <2>6, OneStreamChanged
<1>7. ASSUME NEW i \in StreamIds, closeStream(i) PROVE ServerInv'
  <2> DEFINE w == [streams[i] EXCEPT !.state = Closed(streams[i].state), !.inUse = FALSE]
  <2>1. streams' = [streams EXCEPT ![i] = w] /\ UNCHANGED sockets /\ held' = held \ {i}
    BY <1>7 DEF closeStream, TypeInv
  <2>2. ~w.inUse
    BY DEF TypeInv, Stream
  <2> HIDE DEF w
  <2> QED
    BY <2>1, <2>2, OneStreamChanged
<1>8. CASE UNCHANGED vars
  BY <1>8 DEF vars, ServerInv, StreamsServe, Serves, SameClient
<1>9. ~\E k \in SocketIds, remote \in Remotes : connect(k, remote)
  BY DEF connect
<1>10. ~\E k \in SocketIds : closeSocket(k)
  BY DEF closeSocket
<1> QED
  BY <1>1, <1>2, <1>3, <1>4, <1>5, <1>6, <1>7, <1>8, <1>9, <1>10 DEF Next

\* An application that serves has always served.
LEMMA ServingBefore ==
  ASSUME [Next]_vars, serving'
  PROVE  serving
BY DEF Next, vars, incomingMessage, TimeWaitOver, socket, bindlisten, connect, accept,
       closeSocket, recv, closeStream

\* What the three theorems below share.
LEMMA ServerInvariant == Spec => [](serving => ServerInv)
<1>1. Init => ServerInv
  BY DEF Init, ServerInv, StreamsServe
<1>2. TypeInv /\ (serving => ServerInv) /\ [Next]_vars => (serving => ServerInv)'
  BY ServerStep, ServingBefore
<1> QED
  BY <1>1, <1>2, TypeCorrect, PTL DEF Spec

\* The descriptors a server keeps are exactly the accepted streams: no segment
\* frees a stream under its owner and no slot is left without one.
THEOREM DescriptorsExact == Spec => []HandlesExact
<1>1. (serving => ServerInv) => HandlesExact
  BY DEF ServerInv, HandlesExact
<1> QED
  BY <1>1, ServerInvariant, PTL

\* In a server a client's segments have one stream to go to.
THEOREM OneStreamPerClient == Spec => []UniqueStream
<1>1. (serving => ServerInv) => UniqueStream
  BY DEF ServerInv, UniqueStream, SameClient
<1> QED
  BY <1>1, ServerInvariant, PTL

\* In a server no segment is read as a datagram and no datagram as a segment.
THEOREM ModesMatch == Spec => []ModeMatchesSocket
<1>1. (serving => ServerInv) => ModeMatchesSocket
  BY DEF ServerInv, StreamsServe, Serves, ModeMatchesSocket
<1> QED
  BY <1>1, ServerInvariant, PTL

-----------------------------------------------------------------------------
(* The main loop.                                                          *)


\* A step of the loop is a step of the pool or leaves the pool alone.
LEMMA LoopStepIsPoolStep ==
  ASSUME TypeInv, [LoopNext]_allvars
  PROVE  [Next]_vars
<1>1. 0 \in SocketIds
  BY SocketAssumption DEF SocketIds
<1>2. CASE packetHandler
  BY <1>2 DEF packetHandler, Next
<1>3. CASE DHCPready \/ packetsDone \/ Nothing \/ LoopEnd
  BY <1>3 DEF DHCPready, packetsDone, Nothing, LoopEnd
<1>4. CASE OpenSocket
  BY <1>4 DEF OpenSocket, Next, Protocols
<1>5. CASE BindSocket
  BY <1>1, <1>5, LoopAssumption DEF BindSocket, Next
<1>6. CASE acceptClient
  BY <1>1, <1>6 DEF acceptClient, Next
<1>7. CASE Received
  <2>1. clients[next] \in StreamIds
    BY <1>7 DEF Received, recv, TypeInv
  <2> QED
    BY <1>7, <2>1, LoopAssumption DEF Received, Next
<1>8. CASE Reply \/ Ended
  <2>1. closeStream(clients[next])
    BY <1>8 DEF Reply, Ended, dropClient
  <2>2. clients[next] \in StreamIds
    BY <2>1 DEF closeStream, TypeInv
  <2> QED
    BY <2>1, <2>2 DEF Next
<1>9. CASE UNCHANGED allvars
  BY <1>9 DEF allvars
<1> QED
  BY <1>2, <1>3, <1>4, <1>5, <1>6, <1>7, <1>8, <1>9 DEF LoopNext, MainStep

\* The main loop uses the socket layer as StreamPool specifies it, so what is
\* proved of StreamPool holds of the server.
LEMMA UsesPool == LoopSpec => Spec
<1>1. LoopInit => Init /\ TypeInv
  BY TypeInit DEF LoopInit
<1>2. TypeInv /\ [LoopNext]_allvars => [Next]_vars
  BY LoopStepIsPoolStep
<1>3. TypeInv /\ [Next]_vars => TypeInv'
  BY TypeStep
<1> QED
  BY <1>1, <1>2, <1>3, PTL DEF LoopSpec, Spec

\* The main loop only serves: it binds its socket once, and makes none of the
\* other calls.
LEMMA MainServes == LoopSpec => []serving
<1>1. LoopInit => serving
  BY DEF LoopInit, Init
<1>2. serving /\ [LoopNext]_allvars => serving'
  BY LoopAssumption
     DEF LoopNext, MainStep, allvars, vars, packetHandler, incomingMessage, DHCPready,
         OpenSocket, socket, BindSocket, bindlisten, packetsDone, acceptClient, accept,
         Nothing, Received, recv, Reply, Ended, dropClient, closeStream, LoopEnd
<1> QED
  BY <1>1, <1>2, PTL DEF LoopSpec

-----------------------------------------------------------------------------

LoopInv ==
    /\ LoopTypeInv
    /\ pc = "reply" => next \in Places
    /\ NoneLost

\* Since the held streams are fewer than the places, addClient finds one.
LEMMA PlaceLeft ==
  ASSUME TypeInv, LoopInv, NEW i \in StreamIds \ held
  PROVE  FreePlaces # {}
<1> SUFFICES ASSUME \A n \in Places : clients[n] # Free PROVE FALSE
  BY DEF FreePlaces
<1> DEFINE T == StreamIds \ {i}
<1>1. clients \in [Places -> T]
  BY DEF LoopInv, LoopTypeInv, NoneLost, TypeInv
<1>2. IsFiniteSet(StreamIds) /\ Cardinality(StreamIds) = MAX_STREAMS
  BY FS_Interval, SocketAssumption DEF StreamIds
<1>3. IsFiniteSet(Places) /\ Cardinality(Places) = MAX_CLIENTS
  <2>1. MAX_CLIENTS - 1 \in Int /\ ~(0 > MAX_CLIENTS - 1)
    BY SocketAssumption, LoopAssumption
  <2> QED
    BY <2>1, FS_Interval, LoopAssumption DEF Places
<1>4. IsFiniteSet(T) /\ Cardinality(T) = MAX_STREAMS - 1
  BY <1>2, FS_RemoveElement
<1>5. Cardinality(T) < Cardinality(Places)
  BY <1>3, <1>4, SocketAssumption, LoopAssumption
<1> HIDE DEF T
<1>6. \E m, n \in Places : m # n /\ clients[m] = clients[n]
  BY <1>1, <1>3, <1>4, <1>5, FS_PigeonHole
<1> QED
  BY <1>6 DEF LoopInv, NoneLost

\* addClient takes a place that is empty.
LEMMA FirstPlace ==
  ASSUME FreePlaces # {}
  PROVE  Lowest(FreePlaces) \in Places /\ clients[Lowest(FreePlaces)] = Free
<1>1. FreePlaces \subseteq Nat
  BY LoopAssumption DEF FreePlaces, Places
<1> QED
  BY <1>1, LowestIsFirst DEF FreePlaces

\* The induction step: accept is the only step that adds a descriptor, and
\* dropClient the only one that takes one away.
LEMMA LoopInvStep ==
  ASSUME TypeInv, serving, HandlesExact, LoopInv, [LoopNext]_allvars
  PROVE  LoopInv'
<1> USE DEF LoopInv
<1>1. ASSUME UNCHANGED <<held, clients>>,
             pc' \in {"dhcp", "socket", "bind", "packets", "accept", "clients", "reply"},
             next' \in 0 .. MAX_CLIENTS, pc' = "reply" => next' \in Places
      PROVE  LoopInv'
  BY <1>1 DEF LoopTypeInv, NoneLost
<1>2. CASE packetHandler
  <2>1. UNCHANGED held
    BY <1>2 DEF packetHandler, incomingMessage
  <2> QED
    BY <1>1, <1>2, <2>1 DEF packetHandler, loop, LoopTypeInv
<1>3. CASE DHCPready \/ packetsDone \/ OpenSocket \/ BindSocket
  <2>1. UNCHANGED <<held, clients, next>> /\ pc' \in {"socket", "bind", "packets", "accept"}
    BY <1>3 DEF DHCPready, packetsDone, OpenSocket, BindSocket, goto, vars, socket, bindlisten
  <2> QED
    BY <1>1, <2>1 DEF LoopTypeInv
<1>4. CASE acceptClient
  <2>1. pc' = "clients" /\ next' = 0 /\ 0 \in 0 .. MAX_CLIENTS
    BY <1>4, LoopAssumption DEF acceptClient
  <2>2. CASE Pending(0) = {}
    BY <1>1, <1>4, <2>1, <2>2 DEF acceptClient, vars
  <2>3. CASE Pending(0) # {}
    <3> DEFINE i == Lowest(Pending(0))
               n == Lowest(FreePlaces)
    <3>1. i \in StreamIds \ held
      <4>1. 0 \in SocketIds
        BY SocketAssumption DEF SocketIds
      <4>2. i \in Pending(0)
        BY <2>3, <4>1, FirstFound
      <4> QED
        BY <4>2 DEF Pending, HandlesExact
    <3>2. held' = held \cup {i}
      BY <1>4, <2>3 DEF acceptClient, accept
    <3>3. FreePlaces # {}
      BY <3>1, PlaceLeft
    <3>4. n \in Places /\ clients[n] = Free
      BY <3>3, FirstPlace
    <3>5. clients' = [clients EXCEPT ![n] = i]
      BY <1>4, <2>3, <3>3 DEF acceptClient, addClient
    <3> HIDE DEF i, n
    <3>6. clients' \in [Places -> StreamIds \cup {Free}]
      BY <3>1, <3>4, <3>5 DEF LoopTypeInv
    <3>7. i # Free
      BY <3>1, SocketAssumption DEF StreamIds, Free
    <3>8. \A m \in Places : clients'[m] = IF m = n THEN i ELSE clients[m]
      BY <3>4, <3>5 DEF LoopTypeInv
    <3>9. \A m \in Places : clients[m] # i
      BY <3>1, <3>7 DEF NoneLost
    <3>10. held' = {clients'[m] : m \in Places} \ {Free}
      BY <3>2, <3>4, <3>7, <3>8 DEF NoneLost
    <3>11. \A l, m \in Places : clients'[l] = clients'[m] /\ clients'[l] # Free => l = m
      BY <3>8, <3>9 DEF NoneLost
    <3> QED
      BY <2>1, <3>6, <3>10, <3>11 DEF LoopTypeInv, NoneLost
  <2> QED
    BY <2>2, <2>3
<1>5. CASE Nothing
  <2>1. UNCHANGED <<held, pc, clients>> /\ next' = next + 1 /\ next < MAX_CLIENTS /\ pc = "clients"
    BY <1>5 DEF Nothing, AtClient, vars
  <2>2. next' \in 0 .. MAX_CLIENTS
    BY <2>1, LoopAssumption DEF LoopTypeInv
  <2> QED
    BY <1>1, <2>1, <2>2
<1>6. CASE Received
  <2>1. /\ UNCHANGED <<held, clients>> /\ next < MAX_CLIENTS
        /\ \/ pc' = "reply" /\ next' = next
           \/ pc' = "clients" /\ next' = next + 1
    BY <1>6 DEF Received, AtClient, recv
  <2>2. next \in Places /\ next + 1 \in 0 .. MAX_CLIENTS
    BY <2>1, LoopAssumption DEF LoopTypeInv, Places
  <2> QED
    BY <1>1, <2>1, <2>2 DEF LoopTypeInv
<1>7. CASE Reply \/ Ended
  <2>1. next \in Places
    BY <1>7, LoopAssumption DEF Reply, Ended, AtClient, LoopTypeInv, Places
  <2> DEFINE d == clients[next]
  <2>2. /\ d \in held /\ held' = held \ {d}
        /\ clients' = [clients EXCEPT ![next] = Free]
        /\ pc' = "clients" /\ next' = next + 1
    BY <1>7 DEF Reply, Ended, dropClient, closeStream
  <2>3. d # Free
    BY <2>2 DEF NoneLost
  <2>4. \A m \in Places : clients'[m] = IF m = next THEN Free ELSE clients[m]
    BY <2>1, <2>2 DEF LoopTypeInv
  <2>5. \A m \in Places : m # next => clients[m] # d
    BY <2>1, <2>3 DEF NoneLost
  <2>6. next + 1 \in 0 .. MAX_CLIENTS
    BY <2>1, LoopAssumption DEF Places
  <2>7. clients' \in [Places -> StreamIds \cup {Free}]
    BY <2>2 DEF LoopTypeInv
  <2> HIDE DEF d
  <2>8. held' = {clients'[m] : m \in Places} \ {Free}
    BY <2>1, <2>2, <2>4, <2>5 DEF NoneLost, d
  <2>9. \A l, m \in Places : clients'[l] = clients'[m] /\ clients'[l] # Free => l = m
    BY <2>4 DEF NoneLost
  <2> QED
    BY <2>2, <2>6, <2>7, <2>8, <2>9 DEF LoopTypeInv, NoneLost
<1>8. CASE LoopEnd
  BY <1>1, <1>8, LoopAssumption DEF LoopEnd, vars
<1>9. CASE UNCHANGED allvars
  BY <1>1, <1>9 DEF allvars, vars, loop, LoopTypeInv
<1> QED
  BY <1>2, <1>3, <1>4, <1>5, <1>6, <1>7, <1>8, <1>9 DEF LoopNext, MainStep

\* What the loop's theorems rest on.
LEMMA LoopInvariant == LoopSpec => [](TypeInv /\ serving /\ HandlesExact /\ LoopInv)
<1>1. LoopInit => LoopInv
  BY LoopAssumption DEF LoopInit, Init, LoopInv, LoopTypeInv, NoneLost, Places
<1>2. TypeInv /\ serving /\ HandlesExact /\ LoopInv /\ [LoopNext]_allvars => LoopInv'
  BY LoopInvStep
<1>3. Spec => []TypeInv /\ []HandlesExact
  BY TypeCorrect, DescriptorsExact, PTL
<1> QED
  BY <1>1, <1>2, <1>3, UsesPool, MainServes, PTL DEF LoopSpec

\* main.c has a place for every stream, so addClient never drops a descriptor
\* and no accepted stream is lost.
THEOREM DescriptorsKept == LoopSpec => []NoneLost
<1>1. LoopInv => NoneLost
  BY DEF LoopInv
<1> QED
  BY <1>1, LoopInvariant, PTL

=============================================================================
