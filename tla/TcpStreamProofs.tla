-------------------------- MODULE TcpStreamProofs --------------------------
(***************************************************************************)
(* Proofs about TcpStream, for rings and windows of any size.              *)
(***************************************************************************)
EXTENDS TcpStream, NumberProofs, SequenceTheorems

-----------------------------------------------------------------------------
(* The rings.                                                              *)

Ring(size) == [0 .. size - 1 -> Nat]

\* Where a position lies in a ring.
Place(p, size) == p % size

\* Two of at most S bytes are written to different places.
LEMMA OnePlaceEach ==
  ASSUME NEW S \in Nat \ {0}, NEW first \in Nat, NEW len \in Nat, len <= S,
         NEW j \in 1 .. len, NEW k \in 1 .. len, (first + j - 1) % S = (first + k - 1) % S
  PROVE  j = k
<1> DEFINE a == first + j - 1  b == first + k - 1
<1>1. /\ a \in Nat /\ b \in Nat
      /\ a < b + S /\ b < a + S
      /\ a = b => j = k
  BY SMT
<1>2. a % S = b % S
  OBVIOUS
<1> HIDE DEF a, b
<1>3. ~(a < b)
  BY <1>1, <1>2, PlacesDiffer
<1>4. ~(b < a)
  BY <1>1, <1>2, PlacesDiffer
<1>. QED  BY <1>1, <1>3, <1>4, SMT

\* What Put writes is found again at its positions.
LEMMA PutWrites ==
  ASSUME NEW S \in Nat \ {0}, NEW first \in Nat, NEW buf \in Ring(S), NEW data \in Seq(Nat), Len(data) <= S,
         NEW k \in 1 .. Len(data)
  PROVE  Put(buf, S, first, data)[(first + k - 1) % S] = data[k]
<1> DEFINE n == (first + k - 1) % S
           at == {j \in 1 .. Len(data) : (first + j - 1) % S = n}
<1>1. n \in 0 .. S - 1
  <2>1. first + k - 1 \in Nat
    BY SMT
  <2>. QED  BY <2>1, PlaceInRing
<1>2. at = {k}
  <2>1. ASSUME NEW j \in at PROVE j = k
    BY OnePlaceEach, LenProperties
  <2>2. k \in at
    OBVIOUS
  <2>. QED  BY <2>1, <2>2, Zenon
<1>3. Put(buf, S, first, data)[n] =
        IF at = {} THEN buf[n] ELSE data[CHOOSE j \in at : \A l \in at : l <= j]
  BY <1>1 DEF Put
<1> HIDE DEF at
<1>4. (CHOOSE j \in at : \A l \in at : l <= j) = k
  <2>1. \A l \in {k} : l <= k
    BY SMT
  <2>. QED  BY <1>2, <2>1
<1>. QED  BY <1>2, <1>3, <1>4 DEF n

\* It leaves alone what lies less than a ring behind the end of what it writes.
LEMMA PutKeeps ==
  ASSUME NEW S \in Nat \ {0}, NEW first \in Nat, NEW buf \in Ring(S), NEW data \in Seq(Nat),
         NEW p \in Nat, p < first, first + Len(data) <= p + S
  PROVE  Put(buf, S, first, data)[Place(p, S)] = buf[Place(p, S)]
<1> DEFINE at == {j \in 1 .. Len(data) : (first + j - 1) % S = p % S}
<1>1. p % S \in 0 .. S - 1
  BY PlaceInRing
<1>2. at = {}
  <2>1. ASSUME NEW j \in 1 .. Len(data) PROVE (first + j - 1) % S # p % S
    <3> DEFINE b == first + j - 1
    <3>1. b \in Nat /\ p < b /\ b < p + S
      BY LenProperties, SMT
    <3> HIDE DEF b
    <3>2. p % S # b % S
      BY <3>1, PlacesDiffer
    <3>. QED  BY <3>2 DEF b
  <2>. QED  BY <2>1, Zenon
<1>. QED  BY <1>1, <1>2 DEF Put, Place

\* A ring stays a ring of numbers.
LEMMA PutType ==
  ASSUME NEW S \in Nat \ {0}, NEW first \in Nat, NEW buf \in Ring(S),
         NEW data \in Seq(Nat), Len(data) <= S
  PROVE  Put(buf, S, first, data) \in Ring(S)
<1> SUFFICES ASSUME NEW n \in 0 .. S - 1 PROVE Put(buf, S, first, data)[n] \in Nat
  BY DEF Put, Ring
<1> DEFINE at == {j \in 1 .. Len(data) : (first + j - 1) % S = n}
<1>1. Put(buf, S, first, data)[n] =
        IF at = {} THEN buf[n] ELSE data[CHOOSE j \in at : \A l \in at : l <= j]
  BY DEF Put
<1>2. CASE at = {}
  BY <1>1, <1>2 DEF Ring
<1>3. CASE at # {}
  <2>1. PICK k \in at : TRUE
    BY <1>3
  <2>2. Put(buf, S, first, data)[(first + k - 1) % S] = data[k]
    BY PutWrites
  <2>. QED  BY <2>2, ElementOfSeq
<1>. QED  BY <1>2, <1>3

-----------------------------------------------------------------------------
(* What arrives.                                                           *)

Unread == {p \in Nat : rx.tail <= p /\ p < rx.head}

\* As long as the stream is a connection, the ring holds the bytes not read yet
\* at their places, and those before them were read.
ReceiveInv ==
    state # "UDP_MODE" =>
        /\ rx \in [head : Nat, tail : Nat, buf : Ring(STREAM_RX_SIZE)]
        /\ rx.tail <= rx.head /\ rx.head <= rx.tail + STREAM_RX_SIZE
        /\ rx.head <= PEER_BYTES
        /\ \A p \in Unread : rx.buf[p % STREAM_RX_SIZE] = p + 1
        /\ read \in Seq(Nat) /\ Len(read) = rx.tail
        /\ \A n \in 1 .. Len(read) : read[n] = n
        /\ FinFits => EndAfterAll

\* A payload is a sequence of numbers.
LEMMA PayloadType ==
  ASSUME NEW seq \in Nat, NEW len \in Nat
  PROVE  /\ Payload(seq, len) \in Seq(Nat)
         /\ Len(Payload(seq, len)) = len
         /\ \A k \in 1 .. len : Payload(seq, len)[k] = seq + k
<1>1. \A k \in 1 .. len : seq + k \in Nat
  BY SMT
<1>. QED  BY <1>1, SeqDef DEF Payload

LEMMA ReceiveInit == Init => ReceiveInv
<1> SUFFICES ASSUME Init, state # "UDP_MODE" PROVE ReceiveInv
  BY DEF ReceiveInv
<1>1. /\ rx \in [head : Nat, tail : Nat, buf : Ring(STREAM_RX_SIZE)]
      /\ rx.head = 0 /\ rx.tail = 0
  BY DEF Init, Ring
<1>2. Unread = {}
  BY <1>1, SMT DEF Unread
<1>3. read \in Seq(Nat) /\ Len(read) = 0
  BY EmptySeq DEF Init
<1>4. state # "CLOSE_WAIT"
  BY DEF Init
<1>. QED
  BY <1>1, <1>2, <1>3, <1>4, StreamAssumption, SMT DEF ReceiveInv, EndAfterAll

\* Writing contiguous bytes that fit keeps the ring in order.
LEMMA RingFilled ==
  ASSUME NEW S \in Nat \ {0}, NEW r \in [head : Nat, tail : Nat, buf : Ring(S)], NEW len \in Nat,
         r.tail <= r.head, r.head + len <= r.tail + S,
         \A p \in Nat : r.tail <= p /\ p < r.head => r.buf[p % S] = p + 1
  PROVE  \A p \in Nat : r.tail <= p /\ p < r.head + len =>
            Put(r.buf, S, r.head, Payload(r.head, len))[p % S] = p + 1
<1> SUFFICES ASSUME NEW p \in Nat, r.tail <= p, p < r.head + len
             PROVE  Put(r.buf, S, r.head, Payload(r.head, len))[p % S] = p + 1
  OBVIOUS
<1> DEFINE data == Payload(r.head, len)
<1>1. r.head \in Nat /\ r.tail \in Nat /\ r.buf \in Ring(S)
  OBVIOUS
<1>2. data \in Seq(Nat) /\ Len(data) = len /\ \A k \in 1 .. len : data[k] = r.head + k
  BY <1>1, PayloadType
<1> HIDE DEF data
<1>3. CASE p < r.head
  <2>1. r.head + Len(data) <= p + S
    BY <1>1, <1>2, SMT
  <2> DEFINE head == r.head  buf == r.buf
  <2>2. head \in Nat /\ buf \in Ring(S) /\ p < head /\ head + Len(data) <= p + S
    BY <1>1, <1>3, <2>1
  <2> HIDE DEF head, buf
  <2>3. Put(buf, S, head, data)[Place(p, S)] = buf[Place(p, S)]
    BY <1>2, <2>2, PutKeeps
  <2>. QED  BY <1>3, <2>3 DEF data, Place, head, buf
<1>4. CASE r.head <= p
  <2> DEFINE k == p - r.head + 1
  <2>1. k \in 1 .. len /\ r.head + k - 1 = p /\ r.head + k = p + 1 /\ Len(data) <= S
    BY <1>1, <1>2, <1>4, SMT
  <2> HIDE DEF k
  <2>2. k \in 1 .. Len(data)
    BY <1>2, <2>1
  <2>3. Put(r.buf, S, r.head, data)[(r.head + k - 1) % S] = data[k]
    BY <1>1, <1>2, <2>1, <2>2, PutWrites
  <2>. QED  BY <1>2, <2>1, <2>3 DEF data
<1>. QED  BY <1>1, <1>3, <1>4, SMT

\* The record of a ring with a new end and new contents.
LEMMA RecordFilled ==
  ASSUME NEW S, NEW r \in [head : Nat, tail : Nat, buf : Ring(S)],
         NEW h \in Nat, NEW b \in Ring(S), NEW s, s = [r EXCEPT !.head = h, !.buf = b]
  PROVE  /\ s \in [head : Nat, tail : Nat, buf : Ring(S)]
         /\ s.head = h /\ s.tail = r.tail /\ s.buf = b
OBVIOUS

LEMMA ReceiveProcessor ==
  ASSUME ReceiveInv, NEW seq \in 0 .. PEER_BYTES, NEW len \in 0 .. STREAM_RX_SIZE + 1,
         NEW n \in 1 .. Len(acks), Arrives(seq, len, n)
  PROVE  ReceiveInv'
<1> DEFINE S == STREAM_RX_SIZE
<1>1. S \in Nat \ {0} /\ PEER_BYTES \in Nat
  BY StreamAssumption
<1>2. PICK fin \in BOOLEAN :
         /\ fin => /\ Closes /\ seq + len = PEER_BYTES
                   /\ FinFits => seq + len <= rx.tail + STREAM_RX_SIZE
         /\ TCPprocessor(seq, len, fin, acks[n])
  BY DEF Arrives
<1>3. state = "ESTABLISHED" /\ seq + len <= PEER_BYTES /\ read' = read
  BY <1>2 DEF Arrives, TCPprocessor, user
<1>4. /\ rx \in [head : Nat, tail : Nat, buf : Ring(S)]
      /\ rx.tail <= rx.head /\ rx.head <= rx.tail + S
      /\ rx.head <= PEER_BYTES
      /\ \A p \in Unread : rx.buf[p % S] = p + 1
      /\ read \in Seq(Nat) /\ Len(read) = rx.tail
      /\ \A k \in 1 .. Len(read) : read[k] = k
  BY <1>3 DEF ReceiveInv
<1>5. CASE ~Fits(seq, len)
  <2>1. rx' = rx
    BY <1>2, <1>5 DEF TCPprocessor
  <2>2. FinFits => EndAfterAll'
    <3> SUFFICES ASSUME FinFits, state' = "CLOSE_WAIT" PROVE rx.head = PEER_BYTES
      BY <2>1 DEF EndAfterAll
    <3>1. fin /\ seq = rx.head
      BY <1>2, <1>3, <2>1 DEF TCPprocessor, FinHere
    <3>2. seq + len <= rx.tail + S /\ seq + len = PEER_BYTES
      BY <1>2, <3>1
    <3>3. ~(S - (rx.head - rx.tail) >= len /\ len > 0)
      BY <1>5, <3>1 DEF Fits, RXroom
    <3>. QED  BY <1>1, <1>4, <3>1, <3>2, <3>3, SMT
  <2>. QED  BY <1>3, <1>4, <2>1, <2>2 DEF ReceiveInv, Unread
<1>6. CASE Fits(seq, len)
  <2> DEFINE data == Payload(seq, len)
  <2>1. len > 0 /\ seq = rx.head /\ S - (rx.head - rx.tail) >= len
    BY <1>6 DEF Fits, RXroom
  <2>2. rx' = [rx EXCEPT !.head = @ + len, !.buf = Put(@, S, rx.head, data)]
    BY <1>2, <1>6 DEF TCPprocessor
  <2>3. seq \in Nat /\ len \in Nat /\ len <= S /\ rx.head + len <= rx.tail + S
    BY <1>1, <1>4, <2>1, SMT
  <2>4. data \in Seq(Nat) /\ Len(data) = len
    BY <2>3, PayloadType
  <2>5. Put(rx.buf, S, rx.head, data) \in Ring(S)
    BY <1>1, <1>4, <2>3, <2>4, PutType
  <2> HIDE DEF data
  <2>6. /\ rx' \in [head : Nat, tail : Nat, buf : Ring(S)]
        /\ rx'.head = rx.head + len /\ rx'.tail = rx.tail
        /\ rx'.buf = Put(rx.buf, S, rx.head, data)
    <3>1. rx.head + len \in Nat /\ rx \in [head : Nat, tail : Nat, buf : Ring(S)]
      BY <1>4, <2>3, SMT
    <3>. QED  BY <2>2, <2>5, <3>1, RecordFilled
  <2>7. \A p \in Unread' : rx'.buf[p % S] = p + 1
    <3>1. \A q \in Nat : rx.tail <= q /\ q < rx.head => rx.buf[q % S] = q + 1
      BY <1>4 DEF Unread
    <3>2. rx.tail \in Nat /\ rx.head \in Nat /\ rx.tail <= rx.head
          /\ rx \in [head : Nat, tail : Nat, buf : Ring(S)]
      BY <1>4
    <3>3. \A p \in Nat : rx.tail <= p /\ p < rx.head + len =>
             Put(rx.buf, S, rx.head, Payload(rx.head, len))[p % S] = p + 1
      BY <1>1, <2>3, <3>1, <3>2, RingFilled
    <3>. QED  BY <2>1, <2>6, <3>3 DEF Unread, data
  <2>8. state' # "CLOSE_WAIT"
    <3>1. seq # rx.head + len
      BY <1>4, <2>1, <2>3, SMT
    <3>. QED  BY <1>2, <1>3, <2>6, <3>1 DEF TCPprocessor, FinHere
  <2>9. rx'.tail <= rx'.head /\ rx'.head <= rx'.tail + S /\ rx'.head <= PEER_BYTES
    BY <1>1, <1>3, <1>4, <2>1, <2>3, <2>6, SMT
  <2>. QED
    BY <1>3, <1>4, <2>6, <2>7, <2>8, <2>9 DEF ReceiveInv, EndAfterAll
<1>. QED  BY <1>5, <1>6

\* What recv takes from the ring is what comes next.
LEMMA BytesInOrder ==
  ASSUME NEW S \in Nat \ {0}, NEW buf \in Ring(S), NEW first \in Nat, NEW len \in Nat,
         \A p \in Nat : first <= p /\ p < first + len => buf[p % S] = p + 1
  PROVE  Bytes(buf, S, first, len) = Payload(first, len)
<1> SUFFICES ASSUME NEW n \in 1 .. len PROVE buf[(first + n - 1) % S] = first + n
  BY DEF Bytes, Payload
<1> DEFINE p == first + n - 1
<1>1. p \in Nat /\ first <= p /\ p < first + len /\ p + 1 = first + n
  BY SMT
<1> HIDE DEF p
<1>2. buf[p % S] = p + 1
  BY <1>1
<1>. QED  BY <1>1, <1>2 DEF p

\* What is appended in order leaves a sequence in order.
LEMMA OrderExtends ==
  ASSUME NEW s \in Seq(Nat), \A n \in 1 .. Len(s) : s[n] = n,
         NEW data \in Seq(Nat), \A k \in 1 .. Len(data) : data[k] = Len(s) + k
  PROVE  /\ s \o data \in Seq(Nat)
         /\ Len(s \o data) = Len(s) + Len(data)
         /\ \A n \in 1 .. Len(s) + Len(data) : (s \o data)[n] = n
<1>1. Len(s) \in Nat /\ Len(data) \in Nat
  BY LenProperties
<1>2. /\ s \o data \in Seq(Nat) /\ Len(s \o data) = Len(s) + Len(data)
      /\ \A n \in 1 .. Len(s) + Len(data) :
            (s \o data)[n] = IF n <= Len(s) THEN s[n] ELSE data[n - Len(s)]
  BY ConcatProperties
<1>3. ASSUME NEW n \in 1 .. Len(s) + Len(data) PROVE (s \o data)[n] = n
  <2>1. CASE n <= Len(s)
    BY <1>1, <1>2, <2>1
  <2>2. CASE ~(n <= Len(s))
    <3>1. n - Len(s) \in 1 .. Len(data) /\ Len(s) + (n - Len(s)) = n
      BY <1>1, <2>2, SMT
    <3>. QED  BY <1>2, <2>2, <3>1
  <2>. QED  BY <2>1, <2>2
<1>. QED  BY <1>2, <1>3

LEMMA ReceiveRead ==
  ASSUME ReceiveInv, NEW buflen \in 1 .. STREAM_RX_SIZE, TCPrecv(buflen)
  PROVE  ReceiveInv'
<1> DEFINE S == STREAM_RX_SIZE
           len == IF buflen < rx.head - rx.tail THEN buflen ELSE rx.head - rx.tail
<1>1. S \in Nat \ {0} /\ PEER_BYTES \in Nat
  BY StreamAssumption
<1>2. /\ state # "UDP_MODE" /\ len > 0
      /\ read' = read \o Bytes(rx.buf, S, rx.tail, len)
      /\ rx' = [rx EXCEPT !.tail = @ + len]
      /\ state' = state
  BY DEF TCPrecv
<1>3. /\ rx \in [head : Nat, tail : Nat, buf : Ring(S)]
      /\ rx.tail <= rx.head /\ rx.head <= rx.tail + S
      /\ rx.head <= PEER_BYTES
      /\ \A p \in Unread : rx.buf[p % S] = p + 1
      /\ read \in Seq(Nat) /\ Len(read) = rx.tail
      /\ \A k \in 1 .. Len(read) : read[k] = k
      /\ FinFits => EndAfterAll
  BY <1>2 DEF ReceiveInv
<1>4. len \in Nat /\ rx.tail + len <= rx.head
  BY <1>1, <1>3, SMT
<1> HIDE DEF len
<1>5. /\ rx' \in [head : Nat, tail : Nat, buf : Ring(S)]
      /\ rx'.head = rx.head /\ rx'.tail = rx.tail + len /\ rx'.buf = rx.buf
  <2>1. rx.tail + len \in Nat
    BY <1>3, <1>4
  <2>. QED  BY <1>2, <1>3, <2>1
<1>6. Bytes(rx.buf, S, rx.tail, len) = Payload(Len(read), len)
  <2> DEFINE buf == rx.buf  tail == rx.tail
  <2>1. \A p \in Nat : tail <= p /\ p < tail + len => buf[p % S] = p + 1
    BY <1>3, <1>4 DEF Unread
  <2>2. buf \in Ring(S) /\ tail \in Nat
    BY <1>3
  <2> HIDE DEF buf, tail
  <2>3. Bytes(buf, S, tail, len) = Payload(tail, len)
    BY <1>1, <1>4, <2>1, <2>2, BytesInOrder
  <2>. QED  BY <1>3, <2>3 DEF buf, tail
<1>7. /\ read' \in Seq(Nat) /\ Len(read') = rx.tail + len
      /\ \A k \in 1 .. Len(read') : read'[k] = k
  <2> DEFINE data == Payload(Len(read), len)
  <2>1. data \in Seq(Nat) /\ Len(data) = len /\ \A k \in 1 .. Len(data) : data[k] = Len(read) + k
    <3> DEFINE has == Len(read)
    <3>1. has \in Nat
      BY <1>3
    <3> HIDE DEF has
    <3>2. /\ Payload(has, len) \in Seq(Nat) /\ Len(Payload(has, len)) = len
          /\ \A k \in 1 .. len : Payload(has, len)[k] = has + k
      BY <1>4, <3>1, PayloadType
    <3>. QED  BY <3>2 DEF has
  <2>2. read' = read \o data
    BY <1>2, <1>6
  <2> HIDE DEF data
  <2>3. /\ read \o data \in Seq(Nat) /\ Len(read \o data) = Len(read) + Len(data)
        /\ \A k \in 1 .. Len(read) + Len(data) : (read \o data)[k] = k
    BY <1>3, <2>1, OrderExtends
  <2>. QED  BY <1>3, <2>1, <2>2, <2>3
<1>8. \A p \in Unread' : rx'.buf[p % S] = p + 1
  BY <1>3, <1>4, <1>5, SMT DEF Unread
<1>9. rx'.tail <= rx'.head /\ rx'.head <= rx'.tail + S
  BY <1>1, <1>3, <1>4, <1>5, SMT
<1>. QED
  BY <1>2, <1>3, <1>5, <1>7, <1>8, <1>9 DEF ReceiveInv, EndAfterAll

\* What leaves the receive side of a connection alone preserves it.
LEMMA ReceiveUnchanged ==
  ASSUME ReceiveInv, state' = state, state # "UDP_MODE" => UNCHANGED <<rx, read>>
  PROVE  ReceiveInv'
BY DEF ReceiveInv, Unread, EndAfterAll

LEMMA ReceiveNext == ReceiveInv /\ [Next]_vars => ReceiveInv'
<1> SUFFICES ASSUME ReceiveInv, [Next]_vars PROVE ReceiveInv'
  OBVIOUS
<1>1. ASSUME NEW seq \in 0 .. PEER_BYTES, NEW len \in 0 .. STREAM_RX_SIZE + 1,
             NEW n \in 1 .. Len(acks), Arrives(seq, len, n)
      PROVE  ReceiveInv'
  BY <1>1, ReceiveProcessor
<1>2. ASSUME NEW buflen \in 1 .. STREAM_RX_SIZE, TCPrecv(buflen) PROVE ReceiveInv'
  BY <1>2, ReceiveRead
<1>3. ASSUME NEW data \in Datagrams, writeRX(data) PROVE ReceiveInv'
  BY <1>3, ReceiveUnchanged DEF writeRX
<1>4. ASSUME NEW buflen \in 0 .. STREAM_RX_SIZE, UDPrecv(buflen) PROVE ReceiveInv'
  BY <1>4, ReceiveUnchanged DEF UDPrecv
<1>5. ASSUME NEW n \in 1 .. APP_BYTES, TCPsend(n) PROVE ReceiveInv'
  BY <1>5, ReceiveUnchanged DEF TCPsend, user
<1>6. CASE handleTCPtimers
  BY <1>6, ReceiveUnchanged DEF handleTCPtimers, user
<1>7. ASSUME NEW m \in sent, Lose(m) \/ PeerReceives(m) PROVE ReceiveInv'
  BY <1>7, ReceiveUnchanged DEF Lose, PeerReceives, stream, user
<1>8. CASE PeerReads
  BY <1>8, ReceiveUnchanged DEF PeerReads, stream, user
<1>9. CASE PeerAcks
  BY <1>9, ReceiveUnchanged DEF PeerAcks, stream, user
<1>10. CASE TimerChanges \/ UNCHANGED vars
  BY <1>10, ReceiveUnchanged DEF TimerChanges, vars, stream, user
<1>. QED
  BY <1>1, <1>2, <1>3, <1>4, <1>5, <1>6, <1>7, <1>8, <1>9, <1>10 DEF Next

LEMMA Receives == Spec => []ReceiveInv
<1>. QED  BY ReceiveInit, ReceiveNext, PTL DEF Spec

\* What recv returned is the beginning of what the peer sent, in order, whatever
\* arrives, late, twice or out of place, and however large the ring: Put never
\* reaches a byte that recv has not returned.
THEOREM AlwaysReadInOrder == Spec => []ReadInOrder
<1>1. ReceiveInv => ReadInOrder
  BY DEF ReceiveInv, ReadInOrder
<1>. QED  BY <1>1, Receives, PTL

\* With a peer that sends its FIN only where there is room for its data,
\* CLOSE_WAIT is reached only when every byte was received.
THEOREM AlwaysEndAfterAll ==
  ASSUME FinFits
  PROVE  Spec => []EndAfterAll
<1>1. ReceiveInv => EndAfterAll
  BY DEF ReceiveInv, EndAfterAll
<1>. QED  BY <1>1, Receives, PTL

-----------------------------------------------------------------------------
(* What is sent.                                                           *)

SendRing == [head : Nat, tail : Nat, next : Nat, window : Nat, buf : Ring(STREAM_TX_SIZE)]

\* The pointers of a send buffer are in order, next has not passed the window,
\* and every byte between next and head is at its place.  (Bytes between tail and
\* next may be gone: a late acknowledgement moves tail back.)
RingOrder(t) ==
    /\ t.tail <= t.next /\ t.next <= t.head
    /\ t.next <= t.tail + t.window
    /\ t.head <= t.next + STREAM_TX_SIZE
    /\ \A p \in Nat : t.next <= p /\ p < t.head => t.buf[p % STREAM_TX_SIZE] = p + 1

\* The segments in the network hold the application's bytes, up to next.
SegmentsOf(segments, next) ==
    \A m \in segments : \E seq, len \in Nat :
        m = [seq |-> seq, data |-> Payload(seq, len)] /\ seq + len <= next

\* What the peer has is the beginning of what was sent, and fits its buffer.
PeerOrder ==
    /\ got \in Seq(Nat) /\ taken \in Nat
    /\ taken <= Len(got) /\ Len(got) <= taken + PEER_WINDOW
    /\ \A n \in 1 .. Len(got) : got[n] = n

\* Later acknowledgements take nothing back, neither bytes nor window, and none
\* says more than the peer has or has room for.
AcksOrder ==
    /\ acks \in Seq([ack : Nat, window : Nat])
    /\ \A i, j \in 1 .. Len(acks) : i <= j =>
          /\ acks[i].ack <= acks[j].ack
          /\ acks[i].ack + acks[i].window <= acks[j].ack + acks[j].window
    /\ \A i \in 1 .. Len(acks) :
          /\ acks[i].ack <= Len(got)
          /\ acks[i].ack + acks[i].window <= taken + PEER_WINDOW

\* The send buffer knows what the newest acknowledgement said.
Heard ==
    /\ newest \in 1 .. Len(acks)
    /\ tx.tail = acks[newest].ack /\ tx.window = acks[newest].window

SendInv ==
    /\ tx \in SendRing /\ RingOrder(tx)
    /\ SegmentsOf(sent, tx.next)
    /\ PeerOrder /\ Len(got) <= tx.next
    /\ AcksOrder /\ Heard

LEMMA SendInit == Init => SendInv
<1> SUFFICES ASSUME Init PROVE SendInv
  OBVIOUS
<1>1. STREAM_TX_SIZE \in Nat \ {0} /\ PEER_WINDOW \in Nat /\ APP_BYTES \in Nat
  BY StreamAssumption
<1>2. /\ tx \in SendRing
      /\ tx.head = 0 /\ tx.tail = 0 /\ tx.next = 0 /\ tx.window = PEER_WINDOW
  BY <1>1 DEF Init, SendRing, Ring
<1>3. RingOrder(tx)
  BY <1>1, <1>2, SMT DEF RingOrder
<1>4. SegmentsOf(sent, tx.next)
  BY DEF Init, SegmentsOf
<1>5. got \in Seq(Nat) /\ Len(got) = 0 /\ taken = 0
  BY EmptySeq DEF Init
<1>6. PeerOrder /\ Len(got) <= tx.next
  BY <1>1, <1>2, <1>5, SMT DEF PeerOrder
<1>7. /\ acks \in Seq([ack : Nat, window : Nat]) /\ Len(acks) = 1 /\ newest = 1
      /\ acks[1].ack = 0 /\ acks[1].window = PEER_WINDOW
  BY <1>1 DEF Init
<1>8. \A i \in 1 .. Len(acks) : i = 1
  BY <1>7, SMT
<1>9. AcksOrder
  <2>1. \A i, j \in 1 .. Len(acks) : i = j
    BY <1>8
  <2>. QED  BY <1>1, <1>5, <1>7, <1>8, <2>1, SMT DEF AcksOrder
<1>10. Heard
  BY <1>2, <1>7, SMT DEF Heard
<1>. QED  BY <1>2, <1>3, <1>4, <1>6, <1>9, <1>10 DEF SendInv

\* In a buffer in order the 16-bit difference is the number of bytes that may go.
LEMMA AbleToSend ==
  ASSUME NEW t \in SendRing, RingOrder(t)
  PROVE  /\ ableToSend(t) \in Nat
         /\ t.next + ableToSend(t) <= t.head
         /\ t.next + ableToSend(t) <= t.tail + t.window
<1> DEFINE free == IF t.tail + t.window < t.head THEN t.tail + t.window - t.next
                                                 ELSE t.head - t.next
<1>1. /\ t.head \in Nat /\ t.tail \in Nat /\ t.next \in Nat /\ t.window \in Nat
      /\ STREAM_TX_SIZE \in Nat /\ LEN_MOD \in Nat /\ STREAM_TX_SIZE < LEN_MOD
  BY StreamAssumption DEF SendRing
<1>2. free \in Nat /\ free <= STREAM_TX_SIZE
  BY <1>1, SMT DEF RingOrder
<1>3. free < LEN_MOD
  BY <1>1, <1>2, SMT
<1>4. ableToSend(t) = free % LEN_MOD
  BY DEF ableToSend
<1>5. t.next + free <= t.head /\ t.next + free <= t.tail + t.window
  BY <1>1, SMT DEF RingOrder
<1> HIDE DEF free
<1>6. free % LEN_MOD = free
  BY <1>1, <1>2, <1>3, SMT
<1>. QED  BY <1>2, <1>4, <1>5, <1>6

\* The record of a send buffer whose next has moved.
LEMMA RecordSent ==
  ASSUME NEW t \in SendRing, NEW n \in Nat, NEW s, s = [t EXCEPT !.next = n]
  PROVE  /\ s \in SendRing
         /\ s.next = n /\ s.head = t.head /\ s.tail = t.tail
         /\ s.window = t.window /\ s.buf = t.buf
BY DEF SendRing

\* sendWhatWeCan sends bytes that lie in the ring and leaves it in order.
LEMMA SendsInOrder ==
  ASSUME NEW t \in SendRing, RingOrder(t), SegmentsOf(sent, t.next), sendWhatWeCan(t)
  PROVE  /\ tx' \in SendRing /\ RingOrder(tx')
         /\ tx'.tail = t.tail /\ tx'.window = t.window /\ t.next <= tx'.next
         /\ SegmentsOf(sent', tx'.next)
<1> DEFINE S == STREAM_TX_SIZE
           k == ableToSend(t)
           data == Bytes(t.buf, S, t.next, k)
<1>1. S \in Nat \ {0}
  BY StreamAssumption
<1>2. k \in Nat /\ t.next + k <= t.head /\ t.next + k <= t.tail + t.window
  BY AbleToSend
<1>3. /\ tx' = [t EXCEPT !.next = @ + k]
      /\ Send(t.next, data)
  BY DEF sendWhatWeCan
<1> HIDE DEF k
<1>4. /\ t.head \in Nat /\ t.tail \in Nat /\ t.next \in Nat /\ t.window \in Nat
      /\ t.buf \in Ring(S)
  BY DEF SendRing
<1>5. /\ tx' \in SendRing
      /\ tx'.next = t.next + k /\ tx'.head = t.head /\ tx'.tail = t.tail
      /\ tx'.window = t.window /\ tx'.buf = t.buf
  <2>1. t.next + k \in Nat
    BY <1>2, <1>4
  <2>2. tx' = [t EXCEPT !.next = t.next + k]
    BY <1>3
  <2>. QED  BY <2>1, <2>2, RecordSent
<1>6. RingOrder(tx')
  BY <1>1, <1>2, <1>4, <1>5, SMT DEF RingOrder
<1>7. data = Payload(t.next, k)
  <2> DEFINE buf == t.buf  next == t.next
  <2>1. \A p \in Nat : next <= p /\ p < next + k => buf[p % S] = p + 1
    BY <1>2, <1>4, SMT DEF RingOrder
  <2>2. buf \in Ring(S) /\ next \in Nat
    BY <1>4
  <2> HIDE DEF buf, next
  <2>3. Bytes(buf, S, next, k) = Payload(next, k)
    BY <1>1, <1>2, <2>1, <2>2, BytesInOrder
  <2>. QED  BY <2>3 DEF buf, next
<1> HIDE DEF data
<1>8. \A m \in sent' : m \in sent \/ m = [seq |-> t.next, data |-> data]
  BY <1>3 DEF Send
<1>9. SegmentsOf(sent', tx'.next)
  <2> SUFFICES ASSUME NEW m \in sent'
               PROVE  \E seq, len \in Nat :
                        m = [seq |-> seq, data |-> Payload(seq, len)] /\ seq + len <= tx'.next
    BY DEF SegmentsOf
  <2>1. CASE m \in sent
    <3>1. PICK seq \in Nat, len \in Nat :
            m = [seq |-> seq, data |-> Payload(seq, len)] /\ seq + len <= t.next
      BY <2>1 DEF SegmentsOf
    <3>2. seq + len <= tx'.next
      BY <1>2, <1>4, <1>5, <3>1, SMT
    <3>. QED  BY <3>1, <3>2
  <2>2. CASE m = [seq |-> t.next, data |-> data]
    <3>1. t.next + k <= tx'.next
      BY <1>2, <1>4, <1>5, SMT
    <3>. QED  BY <1>2, <1>4, <1>7, <2>2, <3>1
  <2>. QED  BY <1>8, <2>1, <2>2
<1>10. t.next <= tx'.next
  BY <1>2, <1>4, <1>5, SMT
<1>. QED  BY <1>5, <1>6, <1>9, <1>10

\* Sending changes nothing of what the peer has said or has.
LEMMA SendKeepsPeer ==
  ASSUME SendInv, NEW t \in SendRing, t.tail = tx.tail, t.window = tx.window, t.next = tx.next,
         RingOrder(t), sendWhatWeCan(t), UNCHANGED <<peer, newest>>
  PROVE  SendInv'
<1>1. SegmentsOf(sent, t.next)
  BY DEF SendInv
<1>2. /\ tx' \in SendRing /\ RingOrder(tx')
      /\ tx'.tail = t.tail /\ tx'.window = t.window /\ t.next <= tx'.next
      /\ SegmentsOf(sent', tx'.next)
  BY <1>1, SendsInOrder
<1>3. Len(got) <= tx'.next
  <2>1. Len(got) \in Nat /\ tx.next \in Nat /\ tx'.next \in Nat /\ Len(got) <= tx.next
    BY <1>2, LenProperties DEF SendInv, PeerOrder, SendRing
  <2>. QED  BY <1>2, <2>1, SMT
<1>. QED
  BY <1>2, <1>3 DEF SendInv, RingOrder, SegmentsOf, PeerOrder, AcksOrder, Heard, peer

LEMMA SendTimer ==
  ASSUME SendInv, handleTCPtimers
  PROVE  SendInv'
<1>1. tx \in SendRing /\ RingOrder(tx) /\ sendWhatWeCan(tx) /\ UNCHANGED <<peer, newest>>
  BY DEF SendInv, handleTCPtimers
<1>. QED  BY <1>1, SendKeepsPeer

\* The record of a send buffer to which something was written.
LEMMA RecordWritten ==
  ASSUME NEW t \in SendRing, NEW h \in Nat, NEW b \in Ring(STREAM_TX_SIZE),
         NEW s, s = [t EXCEPT !.head = h, !.buf = b]
  PROVE  /\ s \in SendRing
         /\ s.head = h /\ s.buf = b
         /\ s.next = t.next /\ s.tail = t.tail /\ s.window = t.window
BY DEF SendRing

\* send writes no more than there is room for.
LEMMA SendWrites ==
  ASSUME SendInv, NEW n \in 1 .. APP_BYTES, TCPsend(n)
  PROVE  SendInv'
<1> DEFINE S == STREAM_TX_SIZE
           len == IF room < 0 THEN 0 ELSE IF n < room THEN n ELSE room
           data == Payload(tx.head, len)
           t == [tx EXCEPT !.head = tx.head + len, !.buf = Put(tx.buf, S, tx.head, data)]
<1>1. S \in Nat \ {0} /\ APP_BYTES \in Nat
  BY StreamAssumption
<1>2. sendWhatWeCan(t) /\ UNCHANGED <<peer, newest>>
  BY DEF TCPsend
<1>3. /\ tx \in SendRing
      /\ tx.head \in Nat /\ tx.tail \in Nat /\ tx.next \in Nat /\ tx.window \in Nat
      /\ tx.buf \in Ring(S)
      /\ RingOrder(tx)
  BY DEF SendInv, SendRing
<1>4. len \in Nat /\ len <= S /\ tx.head + len <= tx.next + S
  BY <1>1, <1>3, SMT DEF RingOrder, room
<1> HIDE DEF len
<1>6. data \in Seq(Nat) /\ Len(data) = len
  BY <1>3, <1>4, PayloadType
<1>7. Put(tx.buf, S, tx.head, data) \in Ring(S)
  <2> HIDE DEF data
  <2>. QED  BY <1>1, <1>3, <1>4, <1>6, PutType
<1>8. /\ t \in SendRing
      /\ t.head = tx.head + len /\ t.buf = Put(tx.buf, S, tx.head, data)
      /\ t.next = tx.next /\ t.tail = tx.tail /\ t.window = tx.window
  <2> DEFINE h == tx.head + len  b == Put(tx.buf, S, tx.head, data)
  <2>1. h \in Nat /\ b \in Ring(S) /\ t = [tx EXCEPT !.head = h, !.buf = b]
    BY <1>3, <1>4, <1>7
  <2> HIDE DEF t, data, h, b
  <2>2. /\ t \in SendRing
        /\ t.head = h /\ t.buf = b
        /\ t.next = tx.next /\ t.tail = tx.tail /\ t.window = tx.window
    BY <1>3, <2>1, RecordWritten DEF SendRing
  <2>. QED  BY <2>2 DEF h, b
<1>9. \A p \in Nat : tx.next <= p /\ p < tx.head + len => Put(tx.buf, S, tx.head, data)[p % S] = p + 1
  <2> DEFINE r == [head |-> tx.head, tail |-> tx.next, buf |-> tx.buf]
  <2>1. /\ r \in [head : Nat, tail : Nat, buf : Ring(S)]
        /\ r.head = tx.head /\ r.tail = tx.next /\ r.buf = tx.buf
    BY <1>3
  <2> HIDE DEF r
  <2>2. /\ r.tail <= r.head /\ r.head + len <= r.tail + S
        /\ \A p \in Nat : r.tail <= p /\ p < r.head => r.buf[p % S] = p + 1
    BY <1>3, <1>4, <2>1, SMT DEF RingOrder
  <2>3. \A p \in Nat : r.tail <= p /\ p < r.head + len =>
           Put(r.buf, S, r.head, Payload(r.head, len))[p % S] = p + 1
    BY <1>1, <1>4, <2>1, <2>2, RingFilled
  <2>. QED  BY <2>1, <2>3
<1> HIDE DEF t, data
<1>10. RingOrder(t)
  <2>1. tx.tail <= tx.next /\ tx.next <= tx.head /\ tx.next <= tx.tail + tx.window
    BY <1>3 DEF RingOrder
  <2>. QED  BY <1>3, <1>4, <1>8, <1>9, <2>1, SMT DEF RingOrder
<1>. QED  BY <1>2, <1>8, <1>10, SendKeepsPeer

\* An acknowledgement, however late, says no more than the peer has, and one that
\* does not take back window in use leaves next inside the window.
LEMMA SendAcknowledged ==
  ASSUME SendInv, NEW seq \in 0 .. PEER_BYTES, NEW len \in 0 .. STREAM_RX_SIZE + 1,
         NEW n \in 1 .. Len(acks), Arrives(seq, len, n), ~shrank'
  PROVE  SendInv'
<1> DEFINE a == acks[n]
<1>1. /\ newest' = n /\ UNCHANGED <<sent, peer>>
      /\ tx' = [tx EXCEPT !.window = a.window, !.tail = a.ack]
      /\ ~(a.ack + a.window < tx.next)
  BY DEF Arrives, TCPprocessor
<1>2. /\ tx \in SendRing
      /\ tx.head \in Nat /\ tx.tail \in Nat /\ tx.next \in Nat /\ tx.window \in Nat
  BY DEF SendInv, SendRing
<1>3. a \in [ack : Nat, window : Nat] /\ a.ack <= Len(got)
  <2>1. acks \in Seq([ack : Nat, window : Nat])
    BY DEF SendInv, AcksOrder
  <2>2. a \in [ack : Nat, window : Nat]
    BY <2>1, ElementOfSeq
  <2>. QED  BY <2>2 DEF SendInv, AcksOrder
<1>4. Len(got) \in Nat /\ Len(got) <= tx.next
  BY LenProperties DEF SendInv, PeerOrder
<1> HIDE DEF a
<1>5. /\ tx' \in SendRing
      /\ tx'.head = tx.head /\ tx'.next = tx.next /\ tx'.buf = tx.buf
      /\ tx'.tail = a.ack /\ tx'.window = a.window
  BY <1>1, <1>2, <1>3 DEF SendRing
<1>6. RingOrder(tx')
  <2>1. a.ack \in Nat /\ a.window \in Nat
    BY <1>3
  <2>2. a.ack <= tx.next /\ tx.next <= a.ack + a.window
    <3> DEFINE has == Len(got)
    <3>1. has \in Nat /\ has <= tx.next /\ a.ack <= has
      BY <1>3, <1>4
    <3> HIDE DEF has
    <3>. QED  BY <1>1, <1>2, <2>1, <3>1, SMT
  <2>. QED  BY <1>5, <2>2 DEF SendInv, RingOrder
<1>7. Heard'
  <2>1. acks' = acks /\ newest' = n
    BY <1>1 DEF peer
  <2>2. tx'.tail = acks[n].ack /\ tx'.window = acks[n].window
    BY <1>5 DEF a
  <2>. QED  BY <2>1, <2>2 DEF Heard
<1>. QED
  BY <1>1, <1>5, <1>6, <1>7 DEF SendInv, SegmentsOf, PeerOrder, AcksOrder, peer

LEMMA SendLost ==
  ASSUME SendInv, NEW m \in sent, Lose(m)
  PROVE  SendInv'
BY DEF SendInv, Lose, stream, user, peer, RingOrder, SegmentsOf, PeerOrder, AcksOrder, Heard

\* The peer takes what follows what it has, and no more than it offered room for.
LEMMA SendReceived ==
  ASSUME SendInv, NEW m \in sent, PeerReceives(m)
  PROVE  SendInv'
<1> DEFINE fresh == SubSeq(m.data, Len(got) - m.seq + 1, Len(m.data))
<1>1. /\ m.seq <= Len(got) /\ Len(got) < m.seq + Len(m.data)
      /\ Len(got) + Len(fresh) <= taken + PEER_WINDOW
      /\ got' = got \o fresh
      /\ UNCHANGED <<tx, sent, taken, acks, newest>>
  BY DEF PeerReceives, stream
<1>2. PICK seq \in Nat, len \in Nat :
        m = [seq |-> seq, data |-> Payload(seq, len)] /\ seq + len <= tx.next
  BY DEF SendInv, SegmentsOf
<1>3. /\ got \in Seq(Nat) /\ Len(got) \in Nat /\ taken \in Nat /\ tx.next \in Nat
      /\ taken <= Len(got) /\ Len(got) <= tx.next
      /\ \A n \in 1 .. Len(got) : got[n] = n
  BY LenProperties DEF SendInv, PeerOrder, SendRing
<1>4. /\ m.seq = seq /\ m.data = Payload(seq, len) /\ Len(m.data) = len
      /\ \A k \in 1 .. len : m.data[k] = seq + k
  BY <1>2, PayloadType
<1> DEFINE has == Len(got)  from == has - seq + 1
<1>5. seq <= has /\ has < seq + len /\ has \in Nat /\ from \in Nat /\ from >= 1 /\ from <= len
  BY <1>1, <1>3, <1>4, SMT
<1>6. /\ fresh \in Seq(Nat) /\ Len(fresh) = len - from + 1
      /\ \A k \in 1 .. len - from + 1 : fresh[k] = m.data[from + k - 1]
  <2>1. fresh = SubSeq(m.data, from, len)
    BY <1>4
  <2> HIDE DEF fresh, from
  <2>2. \A k \in from .. len : m.data[k] \in Nat
    <3>1. \A k \in from .. len : k \in 1 .. len /\ seq + k \in Nat
      BY <1>5, SMT
    <3>. QED  BY <1>4, <3>1
  <2>. QED  BY <1>5, <2>1, <2>2, SubSeqProperties
<1>7. \A k \in 1 .. Len(fresh) : fresh[k] = has + k
  <2>1. \A k \in 1 .. len - from + 1 : from + k - 1 \in 1 .. len /\ seq + (from + k - 1) = has + k
    BY <1>5, SMT
  <2>. QED  BY <1>4, <1>6, <2>1
<1> HIDE DEF fresh
<1>8. /\ got' \in Seq(Nat) /\ Len(got') = has + Len(fresh)
      /\ \A n \in 1 .. Len(got') : got'[n] = n
  BY <1>1, <1>3, <1>6, <1>7, OrderExtends
<1>9. has + Len(fresh) = seq + len
  BY <1>5, <1>6, SMT
<1> HIDE DEF has, from
<1>10. Len(got') \in Nat /\ has <= Len(got') /\ Len(got') <= tx.next /\ Len(got') <= taken + PEER_WINDOW
  BY <1>1, <1>2, <1>5, <1>8, <1>9, SMT DEF has
<1>11. PeerOrder'
  <2>1. taken <= Len(got')
    BY <1>3, <1>10, SMT DEF has
  <2>. QED  BY <1>1, <1>3, <1>8, <1>10, <2>1 DEF PeerOrder
<1>12. AcksOrder'
  <2>1. acks \in Seq([ack : Nat, window : Nat])
    BY DEF SendInv, AcksOrder
  <2>2. ASSUME NEW i \in 1 .. Len(acks) PROVE acks[i].ack <= Len(got')
    <3>1. acks[i] \in [ack : Nat, window : Nat]
      BY <2>1, ElementOfSeq
    <3>2. acks[i].ack <= has
      BY DEF SendInv, AcksOrder, has
    <3>3. acks[i].ack \in Nat
      BY <3>1
    <3>. QED  BY <1>5, <1>10, <3>2, <3>3, SMT
  <2>. QED  BY <1>1, <2>2 DEF SendInv, AcksOrder
<1>. QED
  BY <1>1, <1>10, <1>11, <1>12 DEF SendInv, RingOrder, SegmentsOf, Heard

\* The peer's application reads: there is more room than was offered.
LEMMA SendPeerReads ==
  ASSUME SendInv, PeerReads
  PROVE  SendInv'
<1>1. /\ taken < Len(got) /\ taken' = taken + 1
      /\ UNCHANGED <<tx, sent, got, acks, newest>>
  BY DEF PeerReads, stream
<1>2. /\ got \in Seq(Nat) /\ Len(got) \in Nat /\ taken \in Nat /\ PEER_WINDOW \in Nat
      /\ Len(got) <= taken + PEER_WINDOW
      /\ \A n \in 1 .. Len(got) : got[n] = n
  BY LenProperties, StreamAssumption DEF SendInv, PeerOrder
<1>3. PeerOrder'
  <2>1. taken' \in Nat /\ taken' <= Len(got) /\ Len(got) <= taken' + PEER_WINDOW
    BY <1>1, <1>2, SMT
  <2>. QED  BY <1>1, <1>2, <2>1 DEF PeerOrder
<1>4. AcksOrder'
  <2>1. acks \in Seq([ack : Nat, window : Nat])
    BY DEF SendInv, AcksOrder
  <2>2. ASSUME NEW i \in 1 .. Len(acks) PROVE acks[i].ack + acks[i].window <= taken' + PEER_WINDOW
    <3> DEFINE edge == acks[i].ack + acks[i].window
    <3>1. acks[i] \in [ack : Nat, window : Nat]
      BY <2>1, ElementOfSeq
    <3>2. edge \in Nat /\ edge <= taken + PEER_WINDOW
      BY <3>1 DEF SendInv, AcksOrder
    <3> HIDE DEF edge
    <3>3. edge <= taken' + PEER_WINDOW
      BY <1>1, <1>2, <3>2, SMT
    <3>. QED  BY <3>3 DEF edge
  <2>. QED  BY <1>1, <2>2 DEF SendInv, AcksOrder
<1>. QED
  BY <1>1, <1>3, <1>4 DEF SendInv, RingOrder, SegmentsOf, Heard

\* A new acknowledgement says what the peer has and has room for now: no less
\* than any before it.
LEMMA SendPeerAcks ==
  ASSUME SendInv, PeerAcks
  PROVE  SendInv'
<1> DEFINE has == Len(got)
           a == [ack |-> has, window |-> taken + PEER_WINDOW - has]
           A == [ack : Nat, window : Nat]
<1>1. acks' = Append(acks, a) /\ UNCHANGED <<tx, sent, got, taken, newest>>
  BY DEF PeerAcks, stream
<1>2. /\ has \in Nat /\ taken \in Nat /\ PEER_WINDOW \in Nat
      /\ has <= taken + PEER_WINDOW
  BY LenProperties, StreamAssumption DEF SendInv, PeerOrder
<1>3. a \in A /\ a.ack = has /\ a.ack + a.window = taken + PEER_WINDOW
  BY <1>2, SMT
<1>4. acks \in Seq(A) /\ Len(acks) \in Nat
  BY LenProperties DEF SendInv, AcksOrder
<1>5. \A i \in 1 .. Len(acks) :
        acks[i].ack <= has /\ acks[i].ack + acks[i].window <= taken + PEER_WINDOW
  BY DEF SendInv, AcksOrder
<1> HIDE DEF has, a
<1>6. /\ acks' \in Seq(A) /\ Len(acks') = Len(acks) + 1
      /\ \A i \in 1 .. Len(acks) : acks'[i] = acks[i]
      /\ acks'[Len(acks) + 1] = a
  <2> HIDE DEF A
  <2>. QED  BY <1>1, <1>3, <1>4, AppendProperties
<1>7. \A i \in 1 .. Len(acks') : i \in 1 .. Len(acks) \/ i = Len(acks) + 1
  BY <1>4, <1>6, SMT
<1>8. \A i \in 1 .. Len(acks') :
        acks'[i].ack <= has /\ acks'[i].ack + acks'[i].window <= taken + PEER_WINDOW
  <2>1. a.ack <= has /\ a.ack + a.window <= taken + PEER_WINDOW
    BY <1>2, <1>3
  <2>. QED  BY <1>5, <1>6, <1>7, <2>1
<1>9. ASSUME NEW i \in 1 .. Len(acks'), NEW j \in 1 .. Len(acks'), i <= j
      PROVE  /\ acks'[i].ack <= acks'[j].ack
             /\ acks'[i].ack + acks'[i].window <= acks'[j].ack + acks'[j].window
  <2>1. CASE j \in 1 .. Len(acks)
    <3>1. i \in 1 .. Len(acks)
      BY <1>4, <1>6, <1>9, <2>1, SMT
    <3>. QED  BY <1>6, <1>9, <2>1, <3>1 DEF SendInv, AcksOrder
  <2>2. CASE j = Len(acks) + 1
    <3>1. acks'[j] = a
      BY <1>6, <2>2
    <3>. QED  BY <1>3, <1>8, <3>1
  <2>. QED  BY <1>7, <2>1, <2>2
<1>10. AcksOrder'
  BY <1>1, <1>6, <1>8, <1>9 DEF AcksOrder, has
<1>11. Heard'
  <2>1. newest \in 1 .. Len(acks) /\ newest \in 1 .. Len(acks')
    BY <1>4, <1>6, SMT DEF SendInv, Heard
  <2>. QED  BY <1>1, <1>6, <2>1 DEF SendInv, Heard
<1>. QED
  BY <1>1, <1>10, <1>11 DEF SendInv, RingOrder, SegmentsOf, PeerOrder

LEMMA SendUnchanged ==
  ASSUME SendInv, UNCHANGED <<tx, sent, peer, newest>>
  PROVE  SendInv'
BY DEF SendInv, peer, RingOrder, SegmentsOf, PeerOrder, AcksOrder, Heard

\* What has gone wrong with the window stays on record.
LEMMA ShrankBefore ==
  ASSUME [Next]_vars, ~shrank'
  PROVE  ~shrank
BY DEF Next, vars, Arrives, TCPrecv, writeRX, UDPrecv, TCPsend, handleTCPtimers,
       TimerChanges, Lose, PeerReceives, PeerReads, PeerAcks

LEMMA SendNext ==
  ASSUME SendInv, [Next]_vars, ~shrank'
  PROVE  SendInv'
<1>1. ASSUME NEW seq \in 0 .. PEER_BYTES, NEW len \in 0 .. STREAM_RX_SIZE + 1,
             NEW n \in 1 .. Len(acks), Arrives(seq, len, n)
      PROVE  SendInv'
  BY <1>1, SendAcknowledged
<1>2. ASSUME NEW buflen \in 1 .. STREAM_RX_SIZE, TCPrecv(buflen) PROVE SendInv'
  BY <1>2, SendUnchanged DEF TCPrecv
<1>3. ASSUME NEW data \in Datagrams, writeRX(data) PROVE SendInv'
  BY <1>3, SendUnchanged DEF writeRX
<1>4. ASSUME NEW buflen \in 0 .. STREAM_RX_SIZE, UDPrecv(buflen) PROVE SendInv'
  BY <1>4, SendUnchanged DEF UDPrecv
<1>5. ASSUME NEW n \in 1 .. APP_BYTES, TCPsend(n) PROVE SendInv'
  BY <1>5, SendWrites
<1>6. CASE handleTCPtimers
  BY <1>6, SendTimer
<1>7. ASSUME NEW m \in sent, Lose(m) \/ PeerReceives(m) PROVE SendInv'
  BY <1>7, SendLost, SendReceived
<1>8. CASE PeerReads
  BY <1>8, SendPeerReads
<1>9. CASE PeerAcks
  BY <1>9, SendPeerAcks
<1>10. CASE TimerChanges \/ UNCHANGED vars
  BY <1>10, SendUnchanged DEF TimerChanges, vars, stream
<1>. QED
  BY <1>1, <1>2, <1>3, <1>4, <1>5, <1>6, <1>7, <1>8, <1>9, <1>10 DEF Next

LEMMA Sends == Spec => [](~shrank => SendInv)
<1>1. (~shrank => SendInv) /\ [Next]_vars => (~shrank => SendInv)'
  BY SendNext, ShrankBefore
<1>. QED  BY <1>1, SendInit, PTL DEF Spec

\* Through every order of acknowledgements that leaves next inside the window,
\* tail, next and head stay in order: no acknowledgement passes what was sent, and
\* the 16-bit difference that says how much may go never wraps.
THEOREM AlwaysPointersInOrder == Spec => []PointersInOrder
<1>1. (~shrank => SendInv) => PointersInOrder
  BY DEF SendInv, RingOrder, PointersInOrder
<1>. QED  BY <1>1, Sends, PTL

\* Nothing is sent beyond the room the peer has, before a late acknowledgement
\* takes back window that is in use.
THEOREM AlwaysWindowRespected == Spec => []WindowRespected
<1>1. (~shrank => SendInv) => WindowRespected
  <2> SUFFICES ASSUME SendInv PROVE tx.next <= taken + PEER_WINDOW
    BY DEF WindowRespected
  <2> DEFINE edge == tx.tail + tx.window
  <2>1. tx.tail \in Nat /\ tx.window \in Nat /\ tx.next \in Nat /\ tx.next <= edge
    BY DEF SendInv, SendRing, RingOrder
  <2>2. edge <= taken + PEER_WINDOW
    BY DEF SendInv, AcksOrder, Heard
  <2>3. edge \in Nat /\ taken \in Nat /\ PEER_WINDOW \in Nat
    BY <2>1, StreamAssumption DEF SendInv, PeerOrder
  <2> HIDE DEF edge
  <2>. QED  BY <2>1, <2>2, <2>3, SMT
<1>. QED  BY <1>1, Sends, PTL

\* What the peer has is the beginning of what the application wrote, in order,
\* whatever is lost, comes twice or comes late, with the same exception.
THEOREM AlwaysPeerInOrder == Spec => []PeerInOrder
<1>1. (~shrank => SendInv) => PeerInOrder
  BY DEF SendInv, PeerOrder, PeerInOrder
<1>. QED  BY <1>1, Sends, PTL

\* The exception needs a network that lets one acknowledgement overtake another:
\* where none does, window in use is never taken back, and the three theorems
\* above hold without it.
THEOREM InOrderNeverShrinks == Spec /\ [][newest <= newest']_vars => []~shrank
<1> DEFINE Good == ~shrank /\ SendInv
<1>1. Init => Good
  BY SendInit DEF Init
<1>2. Good /\ [Next]_vars /\ [newest <= newest']_vars => Good'
  <2> SUFFICES ASSUME ~shrank, SendInv, [Next]_vars, [newest <= newest']_vars
               PROVE  ~shrank'
    BY SendNext
  <2>1. ASSUME NEW seq \in 0 .. PEER_BYTES, NEW len \in 0 .. STREAM_RX_SIZE + 1,
               NEW n \in 1 .. Len(acks), Arrives(seq, len, n), newest <= newest'
        PROVE  ~shrank'
    <3> DEFINE edge == acks[n].ack + acks[n].window
               old == acks[newest].ack + acks[newest].window
    <3>1. newest' = n /\ shrank' = (shrank \/ edge < tx.next)
      BY <2>1 DEF Arrives
    <3>2. newest \in 1 .. Len(acks) /\ newest <= n
      BY <2>1, <3>1 DEF SendInv, Heard
    <3>3. old <= edge
      BY <3>2 DEF SendInv, AcksOrder
    <3>4. tx.next <= old /\ tx.next \in Nat
      BY DEF SendInv, Heard, RingOrder, SendRing
    <3>5. edge \in Nat /\ old \in Nat
      <4>1. acks \in Seq([ack : Nat, window : Nat])
        BY DEF SendInv, AcksOrder
      <4>2. acks[n] \in [ack : Nat, window : Nat] /\ acks[newest] \in [ack : Nat, window : Nat]
        BY <3>2, <4>1, ElementOfSeq
      <4>. QED  BY <4>2
    <3> HIDE DEF edge, old
    <3>6. ~(edge < tx.next)
      BY <3>3, <3>4, <3>5, SMT
    <3>. QED  BY <3>1, <3>6
  <2>2. CASE shrank' = shrank
    BY <2>2
  <2>3. CASE UNCHANGED vars
    BY <2>3 DEF vars
  <2>. QED
    BY <2>1, <2>2, <2>3
       DEF Next, TCPrecv, writeRX, UDPrecv, TCPsend, handleTCPtimers, TimerChanges, Lose,
           PeerReceives, PeerReads, PeerAcks
<1>. QED  BY <1>1, <1>2, PTL DEF Spec

-----------------------------------------------------------------------------
(* Datagrams.                                                              *)

Data == Seq(0 .. BYTE - 1)

\* The datagrams w lie in a ring one behind the other from first to last, each
\* behind its length; at[i] is where the i-th begins, and at[Len(w) + 1] the end.
Framing(at, w, first, last, buf) ==
    /\ at \in [1 .. Len(w) + 1 -> Nat]
    /\ at[1] = first /\ at[Len(w) + 1] = last
    /\ \A i \in 1 .. Len(w) + 1 : \A j \in 1 .. Len(w) + 1 : i <= j => at[i] <= at[j]
    /\ \A i \in 1 .. Len(w) :
         /\ at[i + 1] = at[i] + Len(Framed(w[i]))
         /\ \A k \in 1 .. Len(Framed(w[i])) :
              buf[(at[i] + k - 1) % STREAM_RX_SIZE] = Framed(w[i])[k]

\* A stream of datagrams holds those that wait, whole and in order.
DatagramInv ==
    state = "UDP_MODE" =>
        /\ rx \in [head : Nat, tail : Nat, buf : Ring(STREAM_RX_SIZE)]
        /\ rx.tail <= rx.head
        /\ waiting \in Seq(Data)
        /\ \E at : Framing(at, waiting, rx.tail, rx.head, rx.buf)

\* A length is its low byte and its high byte.
LEMMA LengthSplit ==
  ASSUME NEW n \in Nat
  PROVE  n % BYTE \in Nat /\ n \div BYTE \in Nat /\ (n % BYTE) + (BYTE * (n \div BYTE)) = n
<1>1. BYTE \in Nat \ {0}
  BY StreamAssumption
<1>2. n = (BYTE * (n \div BYTE)) + (n % BYTE) /\ n % BYTE \in Nat /\ n \div BYTE \in Int
  BY <1>1, SMT
<1>3. n \div BYTE >= 0
  BY <1>1, SMT
<1>. QED  BY <1>1, <1>2, <1>3, SMT

LEMMA FramedSays ==
  ASSUME NEW data \in Data
  PROVE  /\ Framed(data) \in Seq(Nat) /\ Len(Framed(data)) = Len(data) + 2 /\ Len(data) \in Nat
         /\ Framed(data)[1] + BYTE * Framed(data)[2] = Len(data)
         /\ \A k \in 1 .. Len(data) : Framed(data)[k + 2] = data[k]
<1> DEFINE low == Len(data) % BYTE  high == Len(data) \div BYTE  lengths == <<low, high>>
<1>1. Len(data) \in Nat /\ data \in Seq(Nat)
  <2>1. data \in Seq(0 .. BYTE - 1) /\ Len(data) \in Nat
    BY LenProperties DEF Data
  <2>2. ASSUME NEW k \in 1 .. Len(data) PROVE data[k] \in Nat
    <3>1. data[k] \in 0 .. BYTE - 1
      BY <2>1, ElementOfSeq
    <3>. QED  BY <3>1
  <2>. QED  BY <2>1, <2>2, LenProperties, IsASeq
<1>2. low \in Nat /\ high \in Nat /\ low + BYTE * high = Len(data)
  BY <1>1, LengthSplit
<1> HIDE DEF low, high
<1>3. lengths \in Seq(Nat) /\ Len(lengths) = 2 /\ lengths[1] = low /\ lengths[2] = high
  BY <1>2
<1>4. Framed(data) = lengths \o data
  BY DEF Framed, low, high
<1> HIDE DEF lengths
<1>5. /\ lengths \o data \in Seq(Nat) /\ Len(lengths \o data) = 2 + Len(data)
      /\ \A k \in 1 .. 2 + Len(data) :
            (lengths \o data)[k] = IF k <= 2 THEN lengths[k] ELSE data[k - 2]
  <2>1. lengths \in Seq(Nat) /\ data \in Seq(Nat)
    BY <1>1, <1>3
  <2>2. /\ lengths \o data \in Seq(Nat) /\ Len(lengths \o data) = Len(lengths) + Len(data)
        /\ \A k \in 1 .. Len(lengths) + Len(data) :
              (lengths \o data)[k] = IF k <= Len(lengths) THEN lengths[k] ELSE data[k - Len(lengths)]
    BY <2>1, ConcatProperties
  <2>. QED  BY <1>3, <2>2
<1>6. Framed(data)[1] = low /\ Framed(data)[2] = high
  BY <1>1, <1>3, <1>4, <1>5
<1>7. ASSUME NEW k \in 1 .. Len(data) PROVE Framed(data)[k + 2] = data[k]
  <2>1. k + 2 \in 1 .. 2 + Len(data) /\ ~(k + 2 <= 2) /\ (k + 2) - 2 = k
    BY <1>1
  <2>. QED  BY <1>4, <1>5, <2>1
<1>. QED  BY <1>1, <1>2, <1>4, <1>5, <1>6, <1>7

LEMMA DatagramInit == Init => DatagramInv
<1> SUFFICES ASSUME Init, state = "UDP_MODE" PROVE DatagramInv
  BY DEF DatagramInv
<1>1. /\ rx \in [head : Nat, tail : Nat, buf : Ring(STREAM_RX_SIZE)]
      /\ rx.head = 0 /\ rx.tail = 0
  BY DEF Init, Ring
<1>2. waiting \in Seq(Data) /\ Len(waiting) = 0
  BY EmptySeq DEF Init
<1>3. Framing([i \in 1 .. 1 |-> 0], waiting, rx.tail, rx.head, rx.buf)
  BY <1>1, <1>2 DEF Framing
<1>. QED  BY <1>1, <1>2, <1>3, StreamAssumption DEF DatagramInv

\* A datagram written behind the others leaves them where they are.
LEMMA FramingGrows ==
  ASSUME NEW w \in Seq(Data), NEW first \in Nat, NEW last \in Nat, NEW buf \in Ring(STREAM_RX_SIZE),
         NEW at, Framing(at, w, first, last, buf),
         NEW d \in Data, last + Len(Framed(d)) <= first + STREAM_RX_SIZE, first <= last
  PROVE  \E a : Framing(a, Append(w, d), first, last + Len(Framed(d)),
                        Put(buf, STREAM_RX_SIZE, last, Framed(d)))
<1> DEFINE S == STREAM_RX_SIZE  f == Framed(d)  n == Len(w)  v == Append(w, d)
           end == last + Len(f)  b == Put(buf, S, last, f)
           a == [i \in 1 .. n + 2 |-> IF i <= n + 1 THEN at[i] ELSE end]
<1>1. S \in Nat \ {0} /\ n \in Nat
  BY StreamAssumption, LenProperties
<1>2. f \in Seq(Nat) /\ Len(f) \in Nat
  BY FramedSays, LenProperties
<1>3. Len(v) = n + 1 /\ v[n + 1] = d /\ \A i \in 1 .. n : v[i] = w[i]
  BY AppendProperties
<1>4. /\ at \in [1 .. n + 1 -> Nat] /\ at[1] = first /\ at[n + 1] = last
      /\ \A i \in 1 .. n + 1 : \A j \in 1 .. n + 1 : i <= j => at[i] <= at[j]
      /\ \A i \in 1 .. n :
           /\ at[i + 1] = at[i] + Len(Framed(w[i]))
           /\ \A k \in 1 .. Len(Framed(w[i])) : buf[(at[i] + k - 1) % S] = Framed(w[i])[k]
  BY DEF Framing
<1>5. end \in Nat /\ last <= end /\ Len(f) <= S
  BY <1>1, <1>2
<1>6. \A k \in 1 .. Len(f) : b[(last + k - 1) % S] = f[k]
  BY <1>1, <1>2, <1>5, PutWrites
<1>7. ASSUME NEW i \in 1 .. n, NEW k \in 1 .. Len(Framed(w[i]))
      PROVE  b[(at[i] + k - 1) % S] = Framed(w[i])[k]
  <2> DEFINE p == at[i] + k - 1
  <2>1. w[i] \in Data
    BY ElementOfSeq
  <2>2. Len(Framed(w[i])) \in Nat
    BY <2>1, FramedSays, LenProperties
  <2>3. /\ at[i] \in Nat /\ at[i + 1] \in Nat /\ at[i + 1] = at[i] + Len(Framed(w[i]))
        /\ first <= at[i] /\ at[i + 1] <= last
    <3>1. {1, i, i + 1, n + 1} \subseteq 1 .. n + 1 /\ 1 <= i /\ i + 1 <= n + 1
      BY <1>1
    <3>2. at[1] <= at[i] /\ at[i + 1] <= at[n + 1]
      BY <1>4, <3>1
    <3>3. at[i] \in Nat /\ at[i + 1] \in Nat
      BY <1>4, <3>1
    <3>. QED  BY <1>4, <3>2, <3>3
  <2>4. p \in Nat /\ p < last /\ first <= p
    BY <2>2, <2>3
  <2>5. last + Len(f) <= p + S
    BY <1>1, <1>2, <2>4
  <2> HIDE DEF p, f
  <2>6. Put(buf, S, last, f)[Place(p, S)] = buf[Place(p, S)]
    BY <1>1, <1>2, <2>4, <2>5, PutKeeps
  <2>. QED  BY <1>4, <2>6 DEF Place, p
<1> HIDE DEF f, b, end, S
<1>8. a \in [1 .. Len(v) + 1 -> Nat] /\ a[1] = first /\ a[Len(v) + 1] = end
  BY <1>1, <1>3, <1>4, <1>5
<1>9. ASSUME NEW i \in 1 .. Len(v) + 1, NEW j \in 1 .. Len(v) + 1, i <= j
      PROVE  a[i] <= a[j]
  <2>1. CASE j <= n + 1
    BY <1>1, <1>3, <1>4, <1>9, <2>1
  <2>2. CASE ~(j <= n + 1)
    <3>1. a[j] = end
      BY <1>1, <1>3, <2>2
    <3>2. CASE i <= n + 1
      <4>1. a[i] = at[i] /\ at[i] \in Nat /\ at[i] <= last
        <5>1. i \in 1 .. n + 1 /\ n + 1 \in 1 .. n + 1 /\ a[i] = at[i]
          <6>1. i \in 1 .. n + 2 /\ i <= n + 1 /\ n + 1 \in 1 .. n + 1 /\ i \in 1 .. n + 1
            BY <1>1, <1>3, <3>2
          <6>. QED  BY <6>1
        <5>2. at[i] <= at[n + 1] /\ at[i] \in Nat
          <6> DEFINE m == n + 1
          <6>1. /\ i \in 1 .. m /\ m \in 1 .. m /\ i <= m /\ at \in [1 .. m -> Nat]
                /\ \A k \in 1 .. m : \A l \in 1 .. m : k <= l => at[k] <= at[l]
            BY <1>4, <5>1, <3>2
          <6> HIDE DEF m
          <6>2. at[i] <= at[m] /\ at[i] \in Nat
            BY <6>1
          <6>. QED  BY <6>2 DEF m
        <5>. QED  BY <1>4, <5>1, <5>2
      <4>2. at[i] <= end
        <5> DEFINE begin == at[i]
        <5>1. begin \in Nat /\ begin <= last
          BY <4>1
        <5> HIDE DEF begin
        <5>2. begin <= end
          BY <1>5, <5>1
        <5>. QED  BY <5>2 DEF begin
      <4> HIDE DEF a
      <4>. QED  BY <3>1, <4>1, <4>2
    <3>3. CASE ~(i <= n + 1)
      BY <1>1, <1>3, <1>5, <3>1, <3>3
    <3>. QED  BY <3>2, <3>3
  <2>. QED  BY <2>1, <2>2
<1>10. ASSUME NEW i \in 1 .. Len(v)
       PROVE  /\ a[i + 1] = a[i] + Len(Framed(v[i]))
              /\ \A k \in 1 .. Len(Framed(v[i])) : b[(a[i] + k - 1) % S] = Framed(v[i])[k]
  <2>1. CASE i <= n
    <3>1. v[i] = w[i] /\ a[i] = at[i] /\ a[i + 1] = at[i + 1] /\ i \in 1 .. n
      BY <1>1, <1>3, <2>1
    <3>. QED  BY <1>4, <1>7, <3>1
  <2>2. CASE ~(i <= n)
    <3>1. i = n + 1
      BY <1>1, <1>3, <2>2
    <3>2. v[i] = d /\ a[i] = last /\ a[i + 1] = end
      BY <1>1, <1>3, <1>4, <3>1
    <3>. QED  BY <1>6, <3>2 DEF end, f
  <2>. QED  BY <2>1, <2>2
<1> HIDE DEF v, a
<1>11. Framing(a, v, first, end, b)
  BY <1>8, <1>9, <1>10 DEF Framing, S
<1>. QED  BY <1>11 DEF v, end, b, f, S

\* The oldest datagram taken leaves the others where they are.
LEMMA FramingShrinks ==
  ASSUME NEW w \in Seq(Data), NEW first \in Nat, NEW last \in Nat, NEW buf \in Ring(STREAM_RX_SIZE),
         NEW at, Framing(at, w, first, last, buf), first # last
  PROVE  /\ w # <<>> /\ Len(w) \in Nat \ {0} /\ w[1] \in Data
         /\ \A k \in 1 .. Len(Framed(w[1])) :
               buf[(first + k - 1) % STREAM_RX_SIZE] = Framed(w[1])[k]
         /\ first + Len(Framed(w[1])) <= last
         /\ \E a : Framing(a, SubSeq(w, 2, Len(w)), first + Len(Framed(w[1])), last, buf)
<1> DEFINE S == STREAM_RX_SIZE  n == Len(w)  v == SubSeq(w, 2, n)  a == [i \in 1 .. n |-> at[i + 1]]
<1>1. n \in Nat
  BY LenProperties
<1>2. /\ at \in [1 .. n + 1 -> Nat] /\ at[1] = first /\ at[n + 1] = last
      /\ \A i \in 1 .. n + 1 : \A j \in 1 .. n + 1 : i <= j => at[i] <= at[j]
      /\ \A i \in 1 .. n :
           /\ at[i + 1] = at[i] + Len(Framed(w[i]))
           /\ \A k \in 1 .. Len(Framed(w[i])) : buf[(at[i] + k - 1) % S] = Framed(w[i])[k]
  BY DEF Framing
<1>3. n # 0
  BY <1>1, <1>2
<1>4. w # <<>> /\ w[1] \in Data
  BY <1>1, <1>3, ElementOfSeq, EmptySeq
<1>5. at[2] = first + Len(Framed(w[1])) /\ at[2] <= last
  <2>1. 1 \in 1 .. n /\ 1 + 1 = 2
    BY <1>1, <1>3
  <2>2. at[1 + 1] = at[1] + Len(Framed(w[1]))
    BY <1>2, <2>1
  <2>3. at[2] <= last
    <3> DEFINE m == n + 1
    <3>1. /\ 2 \in 1 .. m /\ m \in 1 .. m /\ 2 <= m /\ at[m] = last
          /\ \A i \in 1 .. m : \A j \in 1 .. m : i <= j => at[i] <= at[j]
      BY <1>1, <1>2, <1>3
    <3> HIDE DEF m
    <3>. QED  BY <3>1
  <2>. QED  BY <1>2, <2>1, <2>2, <2>3
<1>6. /\ Len(v) = n - 1
      /\ \A i \in 1 .. n - 1 : v[i] = w[i + 1]
  <2>1. \A i \in 2 .. n : w[i] \in Data
    BY <1>1, ElementOfSeq
  <2>2. /\ Len(SubSeq(w, 2, n)) = IF 2 <= n THEN n - 2 + 1 ELSE 0
        /\ \A i \in 1 .. n - 2 + 1 : SubSeq(w, 2, n)[i] = w[2 + i - 1]
    <3>1. 2 \in Int /\ n \in Int
      BY <1>1
    <3> HIDE DEF n
    <3>. QED  BY <2>1, <3>1, SubSeqProperties
  <2> HIDE DEF n
  <2>3. n - 2 + 1 = n - 1
    BY <1>1, SMT
  <2>4. ~(2 <= n) => n - 1 = 0
    BY <1>1, <1>3, SMT
  <2>5. \A i \in 1 .. n - 1 : 2 + i - 1 = i + 1
    BY <1>1, SMT
  <2>6. Len(v) = n - 1
    BY <2>2, <2>3, <2>4
  <2>7. \A i \in 1 .. n - 1 : v[i] = w[i + 1]
    BY <2>2, <2>3, <2>5
  <2>. QED  BY <2>6, <2>7
<1>7. a \in [1 .. Len(v) + 1 -> Nat] /\ a[1] = at[2] /\ a[Len(v) + 1] = last
  BY <1>1, <1>2, <1>3, <1>6
<1>8. \A i \in 1 .. Len(v) + 1 : \A j \in 1 .. Len(v) + 1 : i <= j => a[i] <= a[j]
  <2> SUFFICES ASSUME NEW i \in 1 .. Len(v) + 1, NEW j \in 1 .. Len(v) + 1, i <= j
               PROVE  a[i] <= a[j]
    OBVIOUS
  <2>1. /\ i + 1 \in 1 .. n + 1 /\ j + 1 \in 1 .. n + 1 /\ i + 1 <= j + 1
        /\ a[i] = at[i + 1] /\ a[j] = at[j + 1]
    BY <1>1, <1>3, <1>6
  <2>2. at[i + 1] <= at[j + 1]
    BY <1>2, <2>1
  <2>. QED  BY <2>1, <2>2
<1>9. ASSUME NEW i \in 1 .. Len(v)
      PROVE  /\ a[i + 1] = a[i] + Len(Framed(v[i]))
             /\ \A k \in 1 .. Len(Framed(v[i])) : buf[(a[i] + k - 1) % S] = Framed(v[i])[k]
  <2>1. v[i] = w[i + 1] /\ a[i] = at[i + 1] /\ a[i + 1] = at[(i + 1) + 1] /\ i + 1 \in 1 .. n
    BY <1>1, <1>3, <1>6
  <2>. QED  BY <1>2, <2>1
<1> HIDE DEF v, a
<1>10. Framing(a, v, at[2], last, buf)
  BY <1>7, <1>8, <1>9 DEF Framing
<1>11. \E c : Framing(c, v, first + Len(Framed(w[1])), last, buf)
  BY <1>5, <1>10
<1>12. 1 \in 1 .. n /\ n \in Nat \ {0}
  BY <1>1, <1>3
<1>13. \A k \in 1 .. Len(Framed(w[1])) : buf[(first + k - 1) % S] = Framed(w[1])[k]
  BY <1>2, <1>12
<1>. QED  BY <1>4, <1>5, <1>11, <1>12, <1>13 DEF v

LEMMA DatagramWritten ==
  ASSUME DatagramInv, NEW data \in Datagrams, writeRX(data)
  PROVE  DatagramInv'
<1> DEFINE S == STREAM_RX_SIZE  f == Framed(data)
<1>1. S \in Nat \ {0} /\ data \in Data
  BY StreamAssumption DEF Data
<1>2. /\ rx \in [head : Nat, tail : Nat, buf : Ring(S)]
      /\ rx.tail <= rx.head /\ waiting \in Seq(Data)
      /\ \E at : Framing(at, waiting, rx.tail, rx.head, rx.buf)
  BY DEF writeRX, DatagramInv
<1>3. f \in Seq(Nat) /\ Len(f) \in Nat
  BY <1>1, FramedSays, LenProperties
<1>4. S - (rx.head - rx.tail) >= Len(f) /\ waiting' = Append(waiting, data)
  BY DEF writeRX, RXroom
<1>5. rx.head + Len(f) <= rx.tail + S /\ Len(f) <= S /\ rx.head + Len(f) \in Nat
  BY <1>1, <1>2, <1>3, <1>4
<1>6. Put(rx.buf, S, rx.head, f) \in Ring(S)
  <2>1. rx.buf \in Ring(S) /\ rx.head \in Nat
    BY <1>2
  <2> HIDE DEF f
  <2>. QED  BY <1>1, <1>3, <1>5, <2>1, PutType
<1>7. rx' = [rx EXCEPT !.head = rx.head + Len(f), !.buf = Put(rx.buf, S, rx.head, f)]
  BY DEF writeRX
<1>8. /\ rx' \in [head : Nat, tail : Nat, buf : Ring(S)]
      /\ rx'.head = rx.head + Len(f) /\ rx'.tail = rx.tail
      /\ rx'.buf = Put(rx.buf, S, rx.head, f)
  <2> HIDE DEF f
  <2>. QED  BY <1>2, <1>5, <1>6, <1>7, RecordFilled
<1>9. \E a : Framing(a, Append(waiting, data), rx.tail, rx.head + Len(f), Put(rx.buf, S, rx.head, f))
  <2> DEFINE first == rx.tail  last == rx.head  buf == rx.buf
  <2>1. /\ first \in Nat /\ last \in Nat /\ buf \in Ring(STREAM_RX_SIZE) /\ first <= last
        /\ last + Len(Framed(data)) <= first + STREAM_RX_SIZE
    BY <1>2, <1>5
  <2>2. PICK at : Framing(at, waiting, first, last, buf)
    BY <1>2
  <2> HIDE DEF first, last, buf
  <2>3. \E a : Framing(a, Append(waiting, data), first, last + Len(Framed(data)),
                       Put(buf, STREAM_RX_SIZE, last, Framed(data)))
    BY <1>1, <1>2, <2>1, <2>2, FramingGrows
  <2>. QED  BY <2>3 DEF first, last, buf
<1>10. Append(waiting, data) \in Seq(Data)
  BY <1>1, <1>2, AppendProperties
<1>11. rx'.tail <= rx'.head
  BY <1>2, <1>3, <1>8
<1>. QED  BY <1>4, <1>8, <1>9, <1>10, <1>11 DEF DatagramInv

\* What recv finds: the oldest datagram waits behind its length.
LEMMA DatagramFound ==
  ASSUME DatagramInv, state = "UDP_MODE", rx.head # rx.tail
  PROVE  /\ waiting # <<>> /\ Len(waiting) \in Nat \ {0} /\ waiting[1] \in Data
         /\ rx.buf[rx.tail % STREAM_RX_SIZE] + BYTE * rx.buf[(rx.tail + 1) % STREAM_RX_SIZE]
              = Len(waiting[1])
         /\ \A k \in 1 .. Len(waiting[1]) :
               rx.buf[(rx.tail + 2 + k - 1) % STREAM_RX_SIZE] = waiting[1][k]
         /\ rx.tail + 2 + Len(waiting[1]) <= rx.head
         /\ \E a : Framing(a, SubSeq(waiting, 2, Len(waiting)),
                           rx.tail + 2 + Len(waiting[1]), rx.head, rx.buf)
<1> DEFINE S == STREAM_RX_SIZE  first == rx.tail  last == rx.head  buf == rx.buf  d == waiting[1]
<1>1. /\ first \in Nat /\ last \in Nat /\ buf \in Ring(STREAM_RX_SIZE) /\ first # last
      /\ waiting \in Seq(Data)
  BY DEF DatagramInv
<1>2. PICK at : Framing(at, waiting, first, last, buf)
  BY DEF DatagramInv
<1> HIDE DEF first, last, buf
<1>3. /\ waiting # <<>> /\ Len(waiting) \in Nat \ {0} /\ d \in Data
      /\ \A k \in 1 .. Len(Framed(d)) : buf[(first + k - 1) % S] = Framed(d)[k]
      /\ first + Len(Framed(d)) <= last
      /\ \E a : Framing(a, SubSeq(waiting, 2, Len(waiting)), first + Len(Framed(d)), last, buf)
  BY <1>1, <1>2, FramingShrinks
<1> HIDE DEF d
<1>4. /\ Len(Framed(d)) = Len(d) + 2 /\ Len(d) \in Nat
      /\ Framed(d)[1] + BYTE * Framed(d)[2] = Len(d)
      /\ \A k \in 1 .. Len(d) : Framed(d)[k + 2] = d[k]
  BY <1>3, FramedSays
<1>5. first + Len(Framed(d)) = first + 2 + Len(d)
  BY <1>1, <1>4
<1>6. buf[first % S] = Framed(d)[1] /\ buf[(first + 1) % S] = Framed(d)[2]
  <2>1. 1 \in 1 .. Len(Framed(d)) /\ 2 \in 1 .. Len(Framed(d))
    BY <1>4
  <2>2. first + 1 - 1 = first /\ first + 2 - 1 = first + 1
    BY <1>1
  <2>3. buf[(first + 1 - 1) % S] = Framed(d)[1] /\ buf[(first + 2 - 1) % S] = Framed(d)[2]
    BY <1>3, <2>1
  <2>. QED  BY <2>2, <2>3
<1>7. ASSUME NEW k \in 1 .. Len(d) PROVE buf[(first + 2 + k - 1) % S] = d[k]
  <2>1. k + 2 \in 1 .. Len(Framed(d)) /\ first + (k + 2) - 1 = first + 2 + k - 1
    BY <1>1, <1>4
  <2>2. buf[(first + (k + 2) - 1) % S] = Framed(d)[k + 2]
    BY <1>3, <2>1
  <2>. QED  BY <1>4, <2>1, <2>2
<1>. QED  BY <1>3, <1>4, <1>5, <1>6, <1>7 DEF first, last, buf, d

LEMMA DatagramTaken ==
  ASSUME DatagramInv, NEW buflen \in 0 .. STREAM_RX_SIZE, UDPrecv(buflen)
  PROVE  DatagramInv'
<1> DEFINE len == Len(waiting[1])
<1>1. /\ state = "UDP_MODE" /\ state' = state /\ rx.head # rx.tail
      /\ waiting' = SubSeq(waiting, 2, Len(waiting))
  BY DEF UDPrecv
<1>2. /\ Len(waiting) \in Nat \ {0} /\ waiting[1] \in Data
      /\ rx.buf[rx.tail % STREAM_RX_SIZE] + BYTE * rx.buf[(rx.tail + 1) % STREAM_RX_SIZE] = len
      /\ rx.tail + 2 + len <= rx.head
      /\ \E a : Framing(a, SubSeq(waiting, 2, Len(waiting)), rx.tail + 2 + len, rx.head, rx.buf)
  BY <1>1, DatagramFound
<1>3. len \in Nat
  BY <1>2, LenProperties DEF Data
<1>4. rx' = [rx EXCEPT !.tail = rx.tail + 2 + len]
  BY <1>2 DEF UDPrecv
<1> HIDE DEF len
<1>5. /\ rx \in [head : Nat, tail : Nat, buf : Ring(STREAM_RX_SIZE)] /\ waiting \in Seq(Data)
  BY <1>1 DEF DatagramInv
<1>6. /\ rx' \in [head : Nat, tail : Nat, buf : Ring(STREAM_RX_SIZE)]
      /\ rx'.tail = rx.tail + 2 + len /\ rx'.head = rx.head /\ rx'.buf = rx.buf
  <2>1. rx.tail + 2 + len \in Nat
    BY <1>3, <1>5
  <2>. QED  BY <1>4, <1>5, <2>1
<1>7. waiting' \in Seq(Data)
  <2> DEFINE n == Len(waiting)
  <2>1. \A i \in 2 .. n : waiting[i] \in Data
    BY <1>2, <1>5, ElementOfSeq
  <2>2. 2 \in Int /\ n \in Int
    BY <1>2
  <2> HIDE DEF n
  <2>3. SubSeq(waiting, 2, n) \in Seq(Data)
    BY <2>1, <2>2, SubSeqProperties
  <2>. QED  BY <1>1, <2>3 DEF n
<1>. QED  BY <1>1, <1>2, <1>6, <1>7 DEF DatagramInv

\* recv returns the oldest datagram, or as much of it as the caller has room for.
LEMMA DatagramReturned ==
  ASSUME DatagramInv, NEW buflen \in 0 .. STREAM_RX_SIZE, UDPrecv(buflen)
  PROVE  /\ waiting # <<>>
         /\ \/ read' = Head(waiting) /\ Len(read') <= buflen
            \/ read' = SubSeq(Head(waiting), 1, buflen) /\ Len(read') = buflen
<1> DEFINE S == STREAM_RX_SIZE  d == waiting[1]  len == IF buflen < Len(d) THEN buflen ELSE Len(d)
<1>1. state = "UDP_MODE" /\ rx.head # rx.tail
  BY DEF UDPrecv
<1>2. /\ waiting # <<>> /\ d \in Data
      /\ rx.buf[rx.tail % S] + BYTE * rx.buf[(rx.tail + 1) % S] = Len(d)
      /\ \A k \in 1 .. Len(d) : rx.buf[(rx.tail + 2 + k - 1) % S] = d[k]
  BY <1>1, DatagramFound
<1>3. read' = Bytes(rx.buf, S, rx.tail + 2, len)
  BY <1>2 DEF UDPrecv
<1>4. Head(waiting) = d
  <2>1. waiting \in Seq(Data)
    BY <1>1 DEF DatagramInv
  <2>. QED  BY <1>2, <2>1
<1> HIDE DEF d
<1>5. Len(d) \in Nat /\ buflen \in Nat
  BY <1>2, LenProperties, StreamAssumption DEF Data
<1>6. len \in Nat /\ len <= Len(d)
  BY <1>5
<1>7. read' = [k \in 1 .. len |-> d[k]]
  BY <1>2, <1>3, <1>6 DEF Bytes
<1>8. \A k \in 1 .. len : d[k] \in 0 .. BYTE - 1
  <2>1. d \in Seq(0 .. BYTE - 1)
    BY <1>2 DEF Data
  <2>2. ASSUME NEW k \in 1 .. len PROVE k \in 1 .. Len(d)
    BY <1>5, <1>6
  <2> HIDE DEF len
  <2>. QED  BY <2>1, <2>2, ElementOfSeq
<1>9. /\ SubSeq(d, 1, len) \in Data
      /\ Len(SubSeq(d, 1, len)) = len
      /\ \A k \in 1 .. len : SubSeq(d, 1, len)[k] = d[k]
  <2>1. 1 \in Int /\ len \in Int
    BY <1>6
  <2> HIDE DEF len
  <2>2. /\ SubSeq(d, 1, len) \in Seq(0 .. BYTE - 1)
        /\ Len(SubSeq(d, 1, len)) = IF 1 <= len THEN len - 1 + 1 ELSE 0
        /\ \A k \in 1 .. len - 1 + 1 : SubSeq(d, 1, len)[k] = d[k]
    <3>1. /\ SubSeq(d, 1, len) \in Seq(0 .. BYTE - 1)
          /\ Len(SubSeq(d, 1, len)) = IF 1 <= len THEN len - 1 + 1 ELSE 0
          /\ \A k \in 1 .. len - 1 + 1 : SubSeq(d, 1, len)[k] = d[1 + k - 1]
      BY <1>8, <2>1, SubSeqProperties
    <3>. QED  BY <3>1
  <2>. QED  BY <1>6, <2>2 DEF Data
<1>10. read' = SubSeq(d, 1, len) /\ Len(read') = len
  <2>1. read' \in Data /\ Len(read') = len
    <3> HIDE DEF len
    <3>. QED  BY <1>6, <1>7, <1>8, IsASeq DEF Data
  <2> HIDE DEF len
  <2>2. \A k \in 1 .. len : read'[k] = SubSeq(d, 1, len)[k]
    BY <1>7, <1>9
  <2>. QED  BY <1>9, <2>1, <2>2, SeqEqual DEF Data
<1>11. CASE buflen < Len(d)
  BY <1>2, <1>4, <1>10, <1>11
<1>12. CASE ~(buflen < Len(d))
  <2>1. len = Len(d) /\ len <= buflen
    BY <1>5, <1>12
  <2>2. SubSeq(d, 1, Len(d)) = d
    BY <1>2, SubSeqFull DEF Data
  <2>. QED  BY <1>2, <1>4, <1>10, <2>1, <2>2
<1>. QED  BY <1>11, <1>12

\* What leaves the datagrams of a stream alone preserves them.
LEMMA DatagramUnchanged ==
  ASSUME DatagramInv, state' = "UDP_MODE" => UNCHANGED <<state, rx, waiting>>
  PROVE  DatagramInv'
<1> SUFFICES ASSUME state' = "UDP_MODE" PROVE DatagramInv'
  BY DEF DatagramInv
<1>1. state = "UDP_MODE" /\ rx' = rx /\ waiting' = waiting
  OBVIOUS
<1>. QED  BY <1>1 DEF DatagramInv

LEMMA DatagramNext == DatagramInv /\ [Next]_vars => DatagramInv'
<1> SUFFICES ASSUME DatagramInv, [Next]_vars PROVE DatagramInv'
  OBVIOUS
<1>1. ASSUME NEW seq \in 0 .. PEER_BYTES, NEW len \in 0 .. STREAM_RX_SIZE + 1,
             NEW n \in 1 .. Len(acks), Arrives(seq, len, n)
      PROVE  DatagramInv'
  <2>1. state' # "UDP_MODE"
    BY <1>1 DEF Arrives, TCPprocessor
  <2>. QED  BY <2>1 DEF DatagramInv
<1>2. ASSUME NEW buflen \in 1 .. STREAM_RX_SIZE, TCPrecv(buflen) PROVE DatagramInv'
  BY <1>2, DatagramUnchanged DEF TCPrecv
<1>3. ASSUME NEW data \in Datagrams, writeRX(data) PROVE DatagramInv'
  BY <1>3, DatagramWritten
<1>4. ASSUME NEW buflen \in 0 .. STREAM_RX_SIZE, UDPrecv(buflen) PROVE DatagramInv'
  BY <1>4, DatagramTaken
<1>5. ASSUME NEW n \in 1 .. APP_BYTES, TCPsend(n) PROVE DatagramInv'
  BY <1>5, DatagramUnchanged DEF TCPsend, user
<1>6. CASE handleTCPtimers
  BY <1>6, DatagramUnchanged DEF handleTCPtimers, user
<1>7. ASSUME NEW m \in sent, Lose(m) \/ PeerReceives(m) PROVE DatagramInv'
  BY <1>7, DatagramUnchanged DEF Lose, PeerReceives, stream, user
<1>8. CASE PeerReads \/ PeerAcks
  BY <1>8, DatagramUnchanged DEF PeerReads, PeerAcks, stream, user
<1>9. CASE TimerChanges \/ UNCHANGED vars
  BY <1>9, DatagramUnchanged DEF TimerChanges, vars, stream, user
<1>. QED
  BY <1>1, <1>2, <1>3, <1>4, <1>5, <1>6, <1>7, <1>8, <1>9 DEF Next

\* Each recv of a stream of datagrams returns the start of the oldest datagram not
\* read yet, as much of it as its buffer holds (UDPrecv of Socket.c, writeRX of
\* WebserverDriver.c), for rings of any size and datagrams of any contents.
THEOREM AlwaysDatagramsWhole == Spec => DatagramsWhole
<1> DEFINE Whole ==
      \A buflen \in 0 .. STREAM_RX_SIZE :
         UDPrecv(buflen) =>
           /\ waiting # <<>>
           /\ \/ read' = Head(waiting) /\ Len(read') <= buflen
              \/ read' = SubSeq(Head(waiting), 1, buflen) /\ Len(read') = buflen
<1>1. DatagramInv /\ [Next]_vars => [Whole]_vars
  BY DatagramReturned
<1>2. DatagramInv /\ [Next]_vars => DatagramInv'
  BY DatagramNext
<1> HIDE DEF Whole
<1>3. Spec => [][Whole]_vars
  BY <1>1, <1>2, DatagramInit, PTL DEF Spec
<1>. QED  BY <1>3 DEF Whole, DatagramsWhole

=============================================================================
