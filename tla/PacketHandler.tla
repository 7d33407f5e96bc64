--------------------------- MODULE PacketHandler ---------------------------
(***************************************************************************)
(* A frame's way through the program: packetHandler takes it from the      *)
(* controller (Enc28J60), IPv4processor and ICMPv4processor answer an echo *)
(* request, sendIPv4packet adds the header, and checksumUpdate (Checksum)  *)
(* sums both.  Frames for the other processors only come and go here: what *)
(* they do is in ArpTable, StreamPool and DhcpClient.                      *)
(***************************************************************************)
EXTENDS Enc28J60, Checksum

CONSTANTS
    Echo,           \* the echo requests: a function from frames to ICMP messages
    IP_HEADER,      \* the header of the packets sent, with no checksum yet
    ETHERNET,       \* the Ethernet header
    MemoryAfter     \* what may follow a message in memory: a set of bytes

ASSUME EchoAssumption ==
    /\ \A f \in DOMAIN Echo : Echo[f] \in Seq(Byte)
    /\ IP_HEADER \in Seq(Byte) /\ MemoryAfter \subseteq Byte

VARIABLES
    pc,         \* where packetHandler is
    reply,      \* the ICMP reply being made
    packet,     \* its IP header
    routerMAC,  \* arp(&routerIP) is not NULL
    due         \* history: the requests whose replies were given to the driver

handlerVars == <<pc, reply, packet, routerMAC, due>>
vars == <<nicVars, sumVars, handlerVars>>

Init ==
    /\ NicInit
    /\ SumInit
    /\ pc = "setup"
    /\ reply = <<>> /\ packet = <<>>
    /\ routerMAC = FALSE
    /\ due = <<>>

Goto(from, to) ==
    /\ pc = from
    /\ pc' = to
    /\ UNCHANGED <<routerMAC>>

\* checksumUpdate(0, data, sizeof(data)).
Sum(data) ==
    /\ \E after \in MemoryAfter : buffers' = <<[data |-> data, after |-> after]>>
    /\ current' = 0 /\ X' = 0 /\ label' = "ret" /\ acc' = 0 /\ total' = 0

\* What was on the stack is gone.
NoSum == buffers' = <<>> /\ current' = 0 /\ X' = 0 /\ label' = "ret" /\ acc' = 0 /\ total' = 0

Forget == UNCHANGED <<sumVars, reply, packet, due>>

\* Between two calls of packetHandler; the link came up before the first.
Enter ==
    /\ \/ Goto("setup", "pending") \/ Goto("idle", "pending")
    /\ packetPending
    /\ Forget

Elsewhere ==
    /\ pc = "idle"
    /\ OtherCall
    /\ UNCHANGED <<sumVars, handlerVars>>

\* while(packetPending()); then the timers' handlers run.
NonePending ==
    /\ Goto("pending", "idle")
    /\ Idle /\ seen.pkts = 0
    /\ UNCHANGED nicVars /\ Forget

SizeOfFrame ==
    /\ Goto("pending", "size")
    /\ seen.pkts # 0
    /\ getFrameSize
    /\ Forget

\* A frame without a size is "bad": packetHandler returns, without the timers.
SizeKnown ==
    /\ Idle /\ pc = "size"
    /\ IF frameSize = 0 THEN Goto("size", "idle") /\ UNCHANGED nicVars
                        ELSE Goto("size", "frame") /\ readFrame
    /\ Forget

\* A frame for another processor, which may know the router after it.
OtherFrame ==
    /\ pc = "frame" /\ pc' = "pending"
    /\ Idle /\ rx[1] \notin DOMAIN Echo
    /\ routerMAC' \in {routerMAC, TRUE}
    /\ packetPending
    /\ Forget

\* An echo request is answered with its own id, number and data.
ICMPv4processor ==
    /\ Goto("frame", "icmp")
    /\ Idle /\ rx[1] \in DOMAIN Echo
    /\ reply' = <<0, 0, 0, 0>> \o SubSeq(Echo[rx[1]], 5, Len(Echo[rx[1]]))
    /\ Sum(reply')
    /\ UNCHANGED <<nicVars, packet, due>>

checksumRuns ==
    /\ pc \in {"icmp", "ip"}
    /\ SumStep
    /\ UNCHANGED <<nicVars, handlerVars>>

\* A header with the complement of a sum as its n-th and next byte.
WithChecksum(header, n, sum) ==
    [header EXCEPT ![n] = (65535 - sum) \div 256, ![n + 1] = (65535 - sum) % 256]

sendIPv4packet ==
    /\ Goto("icmp", "ip")
    /\ Summed
    /\ reply' = WithChecksum(reply, 3, acc)
    /\ packet' = IP_HEADER
    /\ Sum(packet')
    /\ UNCHANGED <<nicVars, due>>

\* "Couldn't find MAC": nothing is sent.
NoRouter ==
    /\ Goto("ip", "pending")
    /\ Summed
    /\ ~routerMAC
    /\ packetPending
    /\ NoSum /\ reply' = <<>> /\ packet' = <<>>
    /\ UNCHANGED due

SendPacket ==
    /\ Goto("ip", "send")
    /\ Summed
    /\ routerMAC
    /\ sendEthernetFrame(<<ETHERNET, WithChecksum(packet, 11, acc), reply>>)
    /\ due' = Append(due, rx[1])
    /\ NoSum /\ reply' = <<>> /\ packet' = <<>>

\* "Sent ping."
Sent ==
    /\ Goto("send", "pending")
    /\ packetPending
    /\ Forget

Next ==
    \/ Enter \/ NonePending \/ SizeOfFrame \/ SizeKnown \/ OtherFrame
    \/ ICMPv4processor \/ checksumRuns \/ sendIPv4packet \/ NoRouter \/ SendPacket \/ Sent
    \/ Elsewhere
    \/ (AccessStep \/ Continue) /\ UNCHANGED <<sumVars, handlerVars>>
    \/ /\ ChipStep
       /\ due' = IF "TXRTS" \in econ1 \ econ1' THEN Tail(due) ELSE due
       /\ UNCHANGED <<sumVars, pc, reply, packet, routerMAC>>

Spec == Init /\ [][Next]_vars

\* The processor runs, and the controller finishes what it was told to do.
Fairness ==
    /\ WF_vars(AccessStep /\ UNCHANGED <<sumVars, handlerVars>>)
    /\ WF_vars(PHYdone /\ UNCHANGED <<sumVars, handlerVars>>)
    /\ WF_vars(Finish("DMAST") /\ UNCHANGED <<sumVars, handlerVars>>)
    /\ WF_vars(/\ Finish("TXRTS")
               /\ due' = Tail(due)
               /\ UNCHANGED <<sumVars, pc, reply, packet, routerMAC>>)

FairSpec == Spec /\ Fairness

-----------------------------------------------------------------------------

\* What a host does with a message: the sum over all of it, checksum included.
Verifies(message) == Fold16[Running(message)] = 65535

\* Each frame transmitted is the answer to the oldest request not answered yet:
\* the request's data under headers whose checksums its receiver accepts.  (Not
\* so for data of odd length, which the checksum routine does not support.)
RepliesExact ==
    [][LET ip == SubSeq(OnWire, Len(ETHERNET) + 1, Len(ETHERNET) + Len(IP_HEADER))
           icmp == SubSeq(OnWire, Len(ETHERNET) + Len(IP_HEADER) + 1, Len(OnWire))
           request == Echo[Head(due)]
       IN  "TXRTS" \in econ1 \ econ1' =>
             /\ due # <<>>
             /\ SubSeq(OnWire, 1, Len(ETHERNET)) = ETHERNET
             /\ Verifies(ip)
             /\ Len(icmp) = Len(request)
             /\ icmp[1] = 0
             /\ SubSeq(icmp, 5, Len(icmp)) = SubSeq(request, 5, Len(request))
             /\ Len(request) % 2 = 0 => Verifies(icmp)]_vars

\* No poll of a register waits for ever: every call of the driver makes all its
\* accesses in the end.
CallsReturn == todo # <<>> ~> todo = <<>>

=============================================================================
