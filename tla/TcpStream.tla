----------------------------- MODULE TcpStream -----------------------------
(***************************************************************************)
(* One stream.  With TCP it is a connection of Socket.c between its        *)
(* handshake and closeStream: the two ring buffers, the positions in them, *)
(* the send window and the retransmission timer, against a correct peer at *)
(* the other end of a network that loses, duplicates and reorders.  With   *)
(* UDP the receive buffer holds datagrams, each behind its length.         *)
(*                                                                         *)
(* Stream.timer is not set when a stream is opened: it names a slot of the *)
(* timer pool that may be unused or another's.  All that matters here is   *)
(* whether a countdown runs whose end this stream will see, and that       *)
(* changes with what others do to the pool (TimerSharing).                 *)
(*                                                                         *)
(* Positions and sequence numbers count from the zero points rawseq, as    *)
(* head, tail and next do in the code; byte n of a direction is the number *)
(* n, so that order and completeness can be told.  A segment of ours stays *)
(* in the network, to be received again, until it is lost.  One of the     *)
(* peer is made up when it arrives: any bytes the peer sends with any      *)
(* acknowledgement it has sent, however late.                              *)
(***************************************************************************)
EXTENDS Integers, Sequences

CONSTANTS
    STREAM_RX_SIZE,
    STREAM_TX_SIZE,
    LEN_MOD,        \* 2^16 in the code: the modulus of a segment's length
    BYTE,           \* 2^8 in the code: splits the length of a datagram
    Datagrams,      \* the datagrams that may arrive: sequences of bytes
    PEER_BYTES,     \* bytes the peer sends, or room its datagrams take up
    APP_BYTES,      \* bytes the application sends
    PEER_WINDOW,    \* the receive buffer of the peer
    Closes,         \* TRUE: the peer sends its FIN
    FinFits,        \* TRUE: the peer sends its FIN only if we have room for its data
    Lossy,          \* TRUE: the network loses segments of ours
    OneWay,         \* TRUE: only one side of a connection sends bytes (a bound)
    SENT_BYTES      \* bound on how far next may go

ASSUME StreamAssumption ==
    /\ {STREAM_RX_SIZE, STREAM_TX_SIZE} \subseteq Nat \ {0}
    /\ \E n \in 0 .. 15 : STREAM_RX_SIZE = 2 ^ n
    /\ \E n \in 0 .. 15 : STREAM_TX_SIZE = 2 ^ n
    /\ BYTE \in Nat \ {0} /\ Datagrams \subseteq Seq(0 .. BYTE - 1)
    /\ {LEN_MOD, PEER_BYTES, APP_BYTES, PEER_WINDOW} \subseteq Nat
    /\ STREAM_RX_SIZE < LEN_MOD /\ STREAM_TX_SIZE < LEN_MOD
    /\ SENT_BYTES \in Nat /\ SENT_BYTES >= APP_BYTES
    /\ {Closes, FinFits, Lossy, OneWay} \subseteq BOOLEAN

VARIABLES
    state,      \* ESTABLISHED, CLOSE_WAIT once the peer's FIN was accepted, or UDP_MODE
    rx, tx,     \* the ring buffers
    read,       \* what recv has returned to the application; with UDP the last time
    waiting,    \* history: the datagrams in the receive buffer
    sent,       \* the segments of ours that are in the network
    got,        \* what the peer has received in order
    taken,      \* how much of it the peer's application has read
    acks,       \* the acknowledgements the peer has sent
    newest,     \* which of them arrived last
    timed,      \* a countdown runs whose end handleTCPtimers sees for this stream
    lost,       \* history: a segment of ours was lost
    shrank      \* history: an acknowledgement came so late that it took back
                \* window that was used already

stream == <<state, rx, tx>>
peer == <<got, taken, acks>>
user == <<read, waiting>>
vars == <<stream, user, sent, peer, newest, timed, lost, shrank>>

TypeInv ==
    /\ state \in {"ESTABLISHED", "CLOSE_WAIT", "UDP_MODE"}
    /\ rx.tail <= rx.head /\ rx.head - rx.tail <= STREAM_RX_SIZE
    /\ rx.buf \in [0 .. STREAM_RX_SIZE - 1 -> Nat]
    /\ tx.buf \in [0 .. STREAM_TX_SIZE - 1 -> 0 .. APP_BYTES]
    /\ newest \in 1 .. Len(acks)
    /\ {timed, lost, shrank} \subseteq BOOLEAN

Init ==
    /\ state \in {"ESTABLISHED", "UDP_MODE"}
    /\ rx = [head |-> 0, tail |-> 0, buf |-> [n \in 0 .. STREAM_RX_SIZE - 1 |-> 0]]
    /\ tx = [head |-> 0, tail |-> 0, next |-> 0, window |-> PEER_WINDOW,
             buf |-> [n \in 0 .. STREAM_TX_SIZE - 1 |-> 0]]
    /\ read = <<>> /\ waiting = <<>>
    /\ sent = {}
    /\ got = <<>> /\ taken = 0
    /\ acks = <<[ack |-> 0, window |-> PEER_WINDOW]>>
    /\ newest = 1
    /\ timed \in {FALSE, state # "UDP_MODE"}
    /\ lost = FALSE /\ shrank = FALSE

\* The len bytes of a direction from position seq on.
Payload(seq, len) == [n \in 1 .. len |-> seq + n]

\* The ring buffer with data written from position first on; what is written
\* later overwrites what is in its place.
Put(buf, size, first, data) ==
    [n \in 0 .. size - 1 |->
       LET at == {k \in 1 .. Len(data) : (first + k - 1) % size = n} IN
       IF at = {} THEN buf[n] ELSE data[CHOOSE k \in at : \A l \in at : l <= k]]

\* len bytes of a ring buffer from position first on.
Bytes(buf, size, first, len) == [n \in 1 .. len |-> buf[(first + n - 1) % size]]

-----------------------------------------------------------------------------
(* Receiving.                                                              *)

RXroom == STREAM_RX_SIZE - (rx.head - rx.tail)

\* Mutant: one byte too many is taken to fit.
FitsOneMore(seq, len) == RXroom + 1 >= len /\ len > 0 /\ seq = rx.head

\* Mutant: the payload need not be contiguous.
FitsAnywhere(seq, len) == RXroom >= len /\ len > 0

\* There is room for the whole payload and it follows what was received.
Fits(seq, len) == RXroom >= len /\ len > 0 /\ seq = rx.head

\* Mutant: a FIN counts wherever its segment starts.
FinHereAnywhere(seq, fin, head) == fin

\* A FIN counts if its segment starts right after the data received.
FinHere(seq, fin, head) == fin /\ seq = head

\* Mutant: a segment that acknowledges nothing new does not change the window.
TCPprocessorIgnoresUpdates(seq, len, fin, a) ==
    /\ state = "ESTABLISHED"
    /\ rx' = IF Fits(seq, len)
             THEN [rx EXCEPT !.head = @ + len,
                             !.buf = Put(@, STREAM_RX_SIZE, rx.head, Payload(seq, len))]
             ELSE rx
    /\ tx' = IF a.ack = tx.tail THEN tx ELSE [tx EXCEPT !.window = a.window, !.tail = a.ack]
    /\ state' = IF FinHere(seq, fin, rx'.head) THEN "CLOSE_WAIT" ELSE state

\* TCPprocessor in ESTABLISHED.  In CLOSE_WAIT it ignores every segment, and
\* the acknowledgement in it.
TCPprocessor(seq, len, fin, a) ==
    /\ state = "ESTABLISHED"
    /\ rx' = IF Fits(seq, len)
             THEN [rx EXCEPT !.head = @ + len,
                             !.buf = Put(@, STREAM_RX_SIZE, rx.head, Payload(seq, len))]
             ELSE rx
    /\ tx' = [tx EXCEPT !.window = a.window, !.tail = a.ack]
    /\ state' = IF FinHere(seq, fin, rx'.head) THEN "CLOSE_WAIT" ELSE state

\* A segment of the peer arrives, with the acknowledgement the peer sent n-th.
Arrives(seq, len, n) ==
    /\ OneWay /\ tx.head > 0 => seq = rx.head /\ len = 0
    /\ seq + len <= PEER_BYTES
    /\ \E fin \in BOOLEAN :
         /\ fin => /\ Closes /\ seq + len = PEER_BYTES
                   /\ FinFits => seq + len <= rx.tail + STREAM_RX_SIZE
         /\ TCPprocessor(seq, len, fin, acks[n])
    /\ newest' = n
    /\ shrank' = (shrank \/ acks[n].ack + acks[n].window < tx.next)
    /\ UNCHANGED <<user, sent, peer, timed, lost>>

\* recv with data waiting.
TCPrecv(buflen) ==
    LET len == IF buflen < rx.head - rx.tail THEN buflen ELSE rx.head - rx.tail IN
    /\ state # "UDP_MODE"
    /\ len > 0
    /\ read' = read \o Bytes(rx.buf, STREAM_RX_SIZE, rx.tail, len)
    /\ rx' = [rx EXCEPT !.tail = @ + len]
    /\ UNCHANGED <<state, tx, waiting, sent, peer, newest, timed, lost, shrank>>

-----------------------------------------------------------------------------
(* Datagrams.                                                              *)

Framed(data) == <<Len(data) % BYTE, Len(data) \div BYTE>> \o data

\* A datagram is written behind its length if there is room for all of it.
writeRX(data) ==
    /\ state = "UDP_MODE"
    /\ rx.head + Len(Framed(data)) <= PEER_BYTES
    /\ RXroom >= Len(Framed(data))
    /\ rx' = [rx EXCEPT !.head = @ + Len(Framed(data)),
                        !.buf = Put(@, STREAM_RX_SIZE, rx.head, Framed(data))]
    /\ waiting' = Append(waiting, data)
    /\ UNCHANGED <<state, tx, read, sent, peer, newest, timed, lost, shrank>>

\* Mutant: what does not fit into the caller's buffer stays in ours.
UDPrecvKeepsRest(buflen) ==
    LET length == rx.buf[rx.tail % STREAM_RX_SIZE] + BYTE * rx.buf[(rx.tail + 1) % STREAM_RX_SIZE]
        len == IF buflen < length THEN buflen ELSE length
    IN  /\ state = "UDP_MODE" /\ rx.head # rx.tail
        /\ read' = Bytes(rx.buf, STREAM_RX_SIZE, rx.tail + 2, len)
        /\ rx' = [rx EXCEPT !.tail = @ + 2 + len]
        /\ waiting' = SubSeq(waiting, 2, Len(waiting))
        /\ UNCHANGED <<state, tx, sent, peer, newest, timed, lost, shrank>>

\* recv with a datagram waiting: what does not fit is passed over.
UDPrecv(buflen) ==
    LET length == rx.buf[rx.tail % STREAM_RX_SIZE] + BYTE * rx.buf[(rx.tail + 1) % STREAM_RX_SIZE]
        len == IF buflen < length THEN buflen ELSE length
    IN  /\ state = "UDP_MODE" /\ rx.head # rx.tail
        /\ read' = Bytes(rx.buf, STREAM_RX_SIZE, rx.tail + 2, len)
        /\ rx' = [rx EXCEPT !.tail = @ + 2 + length]
        /\ waiting' = SubSeq(waiting, 2, Len(waiting))
        /\ UNCHANGED <<state, tx, sent, peer, newest, timed, lost, shrank>>

-----------------------------------------------------------------------------
(* Sending.                                                                *)

\* Mutant: the send window is not looked at.
ableToSendAll(t) == (t.head - t.next) % LEN_MOD

\* Mutant: the window is filled whether or not there are bytes to fill it.
ableToSendWindow(t) == (t.tail + t.window - t.next) % LEN_MOD

\* What the window allows of the unsent bytes, in a uint16_t.
ableToSend(t) == (IF t.tail + t.window < t.head THEN t.tail + t.window - t.next
                                                ELSE t.head - t.next) % LEN_MOD

\* A segment goes out.  The checksum routine "assumes len is a multiple of 2":
\* the peer discards a segment of odd length unless its checksum happens to fit.
Send(seq, data) ==
    \E valid \in {TRUE, Len(data) % 2 = 0} :
        /\ sent' = IF data # <<>> /\ valid THEN sent \cup {[seq |-> seq, data |-> data]} ELSE sent
        /\ lost' = (lost \/ ~valid)

\* Mutant: the bytes are taken from the first one not acknowledged on.
sendWhatWeCanFromTail(t) ==
    /\ t.next + ableToSend(t) <= SENT_BYTES
    /\ tx' = [t EXCEPT !.next = @ + ableToSend(t)]
    /\ Send(t.next, Bytes(t.buf, STREAM_TX_SIZE, t.tail, ableToSend(t)))

sendWhatWeCan(t) ==
    /\ t.next + ableToSend(t) <= SENT_BYTES
    /\ tx' = [t EXCEPT !.next = @ + ableToSend(t)]
    /\ Send(t.next, Bytes(t.buf, STREAM_TX_SIZE, t.next, ableToSend(t)))

\* Room in the ring buffer; negative after tail has moved back.
room == STREAM_TX_SIZE - (tx.head - tx.tail)

\* send of n bytes: as many as there is room for are written.
TCPsend(n) ==
    LET len == IF room < 0 THEN 0 ELSE IF n < room THEN n ELSE room IN
    /\ state # "UDP_MODE"
    /\ tx.head + n <= APP_BYTES
    /\ OneWay => rx.head = 0
    /\ sendWhatWeCan([tx EXCEPT !.head = @ + len,
                                !.buf = Put(@, STREAM_TX_SIZE, tx.head, Payload(tx.head, len))])
    /\ UNCHANGED <<state, rx, user, peer, newest, timed, shrank>>

\* The stream's timer is done: what was not sent yet is sent if it can be.
handleTCPtimers ==
    /\ state # "UDP_MODE"
    /\ timed
    /\ sendWhatWeCan(tx)
    /\ UNCHANGED <<state, rx, user, peer, newest, timed, shrank>>

\* The slot Stream.timer names is taken into use, or its countdown is no longer
\* this stream's: another owner sees it end, or the pool refused a new one.
TimerChanges ==
    /\ state # "UDP_MODE" /\ (OneWay => rx.head = 0)
    /\ timed' = ~timed
    /\ UNCHANGED <<stream, user, sent, peer, newest, lost, shrank>>

-----------------------------------------------------------------------------
(* The network and the peer.                                               *)

\* The loss of a segment that the peer has already makes no difference.
Lose(m) ==
    /\ Lossy
    /\ Len(got) < m.seq + Len(m.data)
    /\ sent' = sent \ {m}
    /\ lost' = TRUE
    /\ UNCHANGED <<stream, user, peer, newest, timed, shrank>>

\* The peer takes the part of a segment that follows what it has and fits.
PeerReceives(m) ==
    LET fresh == SubSeq(m.data, Len(got) - m.seq + 1, Len(m.data)) IN
    /\ m.seq <= Len(got) /\ Len(got) < m.seq + Len(m.data)
    /\ Len(got) + Len(fresh) <= taken + PEER_WINDOW
    /\ got' = got \o fresh
    /\ UNCHANGED <<stream, user, sent, taken, acks, newest, timed, lost, shrank>>

PeerReads ==
    /\ taken < Len(got)
    /\ taken' = taken + 1
    /\ UNCHANGED <<stream, user, sent, got, acks, newest, timed, lost, shrank>>

\* The peer acknowledges what it has and offers the room it has.
PeerAcks ==
    LET a == [ack |-> Len(got), window |-> taken + PEER_WINDOW - Len(got)] IN
    /\ acks[Len(acks)] # a
    /\ acks' = Append(acks, a)
    /\ UNCHANGED <<stream, user, sent, got, taken, newest, timed, lost, shrank>>

Next ==
    \/ \E seq \in 0 .. PEER_BYTES, len \in 0 .. STREAM_RX_SIZE + 1, n \in 1 .. Len(acks) :
         Arrives(seq, len, n)
    \/ \E buflen \in 1 .. STREAM_RX_SIZE : TCPrecv(buflen)
    \/ \E data \in Datagrams : writeRX(data)
    \/ \E buflen \in 0 .. STREAM_RX_SIZE : UDPrecv(buflen)
    \/ \E n \in 1 .. APP_BYTES : TCPsend(n)
    \/ handleTCPtimers \/ TimerChanges
    \/ \E m \in sent : Lose(m) \/ PeerReceives(m)
    \/ PeerReads
    \/ PeerAcks

Spec == Init /\ [][Next]_vars

\* A countdown that keeps running ends and is looked at.  The peer reads,
\* acknowledges, and receives what does not get lost; its last acknowledgement
\* arrives in the end.
Fairness ==
    /\ WF_vars(handleTCPtimers)
    /\ WF_vars(\E m \in sent : PeerReceives(m))
    /\ WF_vars(PeerReads) /\ WF_vars(PeerAcks)
    /\ WF_vars(Arrives(rx.head, 0, Len(acks)))

FairSpec == Spec /\ Fairness

-----------------------------------------------------------------------------

\* Whatever arrives, late, twice or out of place, recv returns the peer's bytes
\* in order with none missing: the ring buffer never overwrites unread data.
ReadInOrder == state # "UDP_MODE" => \A n \in 1 .. Len(read) : read[n] = n

\* "we have ACKed all their data up to FIN": recv says that the peer is done
\* only when every byte of it was received.
EndAfterAll == state = "CLOSE_WAIT" => rx.head = PEER_BYTES

\* "Ensure we have space for whole datagram": each recv returns the start of the
\* oldest datagram not read yet, as much of it as its buffer holds, wherever the
\* ring wrapped and whatever was passed over before.
DatagramsWhole ==
    [][\A buflen \in 0 .. STREAM_RX_SIZE :
         UDPrecv(buflen) =>
           /\ waiting # <<>>
           /\ \/ read' = Head(waiting) /\ Len(read') <= buflen
              \/ read' = SubSeq(Head(waiting), 1, buflen) /\ Len(read') = buflen]_vars

\* "User calls send, moves head pointer.  Driver sends it, moves next pointer.
\* Receives ACK, moves tail pointer": tail, next and head stay in this order,
\* through all orders of acknowledgements that leave next inside the window.
\* (One that does not is taken as well, and the 16-bit difference goes wrong.)
PointersInOrder == ~shrank => tx.tail <= tx.next /\ tx.next <= tx.head

\* What the peer has received is what the application wrote, in order, as long as
\* next was never left outside the window.
PeerInOrder == ~shrank => \A n \in 1 .. Len(got) : got[n] = n

\* No byte is sent that the peer has not offered room for, unless next was left
\* outside the window before.
WindowRespected == ~shrank => tx.next <= taken + PEER_WINDOW

\* What send took arrives in the end.
AllArrives == \A k \in 1 .. APP_BYTES : tx.head >= k ~> Len(got) >= k

\* "After every sent data frame, reset retransmission timer", and "If retransmit
\* timer expired": all arrives if that timer keeps running.  (The code does not keep
\* this: what was sent and lost lies behind next, where no timer looks.)
Retransmitted == <>[]timed => AllArrives

\* What the code does achieve: through closed windows, a full buffer and late
\* acknowledgements, all arrives if no segment is lost, the window in use is not
\* taken back, late acknowledgements stop arriving, and the stream comes to have
\* a countdown of its own, which it is not given when it is opened.
ArrivesUnlessLost ==
    /\ [](~lost /\ ~shrank)
    /\ <>[](newest = Len(acks))
    /\ <>[]timed
    => AllArrives

=============================================================================
