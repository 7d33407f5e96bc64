------------------------------ MODULE MainLoop ------------------------------
(***************************************************************************)
(* main.c: the only program that runs on the socket layer.  It brings up   *)
(* one listening TCP socket and then loops: handle the packets that wait,  *)
(* accept at most one stream, and look at every client once.               *)
(*                                                                         *)
(* Nothing else touches the pool, so the frames that wait in the Ethernet  *)
(* controller are left open: while packetHandler runs, any message may be  *)
(* the next one, and it returns when none is pending.  The timers it then  *)
(* handles change nothing here: they only end TIME_WAIT, which no stream   *)
(* in use is ever in, as closeStream frees a stream in the call that sends *)
(* its FIN (StreamsServe in MainLoopProofs).                               *)
(***************************************************************************)
EXTENDS StreamPool

CONSTANTS
    MAX_CLIENTS,    \* sizeof(clients)
    HTTP,           \* port 80
    BUF_SIZE        \* units of data that fit in buf

ASSUME LoopAssumption ==
    /\ MAX_CLIENTS \in Nat /\ MAX_CLIENTS >= MAX_STREAMS
    /\ HTTP \in Ports
    /\ BUF_SIZE \in 1 .. STREAM_RX_SIZE
    /\ Calls = {}

VARIABLES
    pc,         \* what main does next
    clients,    \* the descriptors main looks after; Free marks an empty place
    next        \* the place of clients the for loop is at

loop == <<pc, clients, next>>
allvars == <<vars, loop>>

Free == -1
Places == 0 .. MAX_CLIENTS - 1

LoopTypeInv ==
    /\ pc \in {"dhcp", "socket", "bind", "packets", "accept", "clients", "reply"}
    /\ clients \in [Places -> StreamIds \cup {Free}]
    /\ next \in 0 .. MAX_CLIENTS

LoopInit ==
    /\ Init
    /\ pc = "dhcp"
    /\ clients = [n \in Places |-> Free]
    /\ next = 0

goto(there) == pc' = there /\ UNCHANGED <<clients, next>>

\* packetHandler is also run while DHCP is not ready, when no socket is open.
packetHandler ==
    /\ pc \in {"dhcp", "packets"}
    /\ \E g \in Messages : incomingMessage(g)
    /\ UNCHANGED loop

DHCPready == pc = "dhcp" /\ goto("socket") /\ UNCHANGED vars
OpenSocket == pc = "socket" /\ socket("TCP") /\ goto("bind")
BindSocket == pc = "bind" /\ bindlisten(0, HTTP) /\ goto("packets")
packetsDone == pc = "packets" /\ goto("accept") /\ UNCHANGED vars

FreePlaces == {n \in Places : clients[n] = Free}

addClient(toAdd) ==
    IF FreePlaces # {} THEN clients' = [clients EXCEPT ![Lowest(FreePlaces)] = toAdd]
    ELSE UNCHANGED clients

acceptClient ==
    /\ pc = "accept"
    /\ IF Pending(0) # {} THEN accept(0) /\ addClient(Lowest(Pending(0)))
       ELSE UNCHANGED <<vars, clients>>
    /\ pc' = "clients" /\ next' = 0

-----------------------------------------------------------------------------
(* The for loop over clients.                                              *)

AtClient == pc = "clients" /\ next < MAX_CLIENTS

\* What recv returns for the client the loop is at: recv(-1) is -1.
result == IF clients[next] = Free THEN "none" ELSE recvResult(clients[next])

\* Mutant: the loop counter is also counted in the body.
NothingTwice ==
    /\ AtClient
    /\ result = "none"
    /\ next' = next + 2
    /\ UNCHANGED <<vars, pc, clients>>

Nothing ==
    /\ AtClient
    /\ result = "none"
    /\ next' = next + 1
    /\ UNCHANGED <<vars, pc, clients>>

\* Data was read; whether it begins with GET is left open.
Received ==
    /\ AtClient
    /\ result = "data"
    /\ recv(clients[next], BUF_SIZE)
    /\ \/ pc' = "reply" /\ next' = next
       \/ pc' = "clients" /\ next' = next + 1
    /\ UNCHANGED clients

\* Mutant: the place of the closed stream is not given back.
dropClientKept ==
    /\ closeStream(clients[next])
    /\ pc' = "clients" /\ next' = next + 1
    /\ UNCHANGED clients

dropClient ==
    /\ closeStream(clients[next])
    /\ clients' = [clients EXCEPT ![next] = Free]
    /\ pc' = "clients" /\ next' = next + 1

\* The page is sent, or send fails; main closes the stream in both cases.
Reply == pc = "reply" /\ dropClient

\* "Client sent TCP fin": recv returned 0.
Ended == AtClient /\ result = "eof" /\ dropClient

\* Mutant: the loop ends before the last place.
LoopEndEarly ==
    /\ pc = "clients" /\ next >= MAX_CLIENTS - 1
    /\ pc' = "packets" /\ next' = 0
    /\ UNCHANGED <<vars, clients>>

LoopEnd ==
    /\ pc = "clients" /\ next = MAX_CLIENTS
    /\ pc' = "packets" /\ next' = 0
    /\ UNCHANGED <<vars, clients>>

MainStep ==
    \/ DHCPready \/ OpenSocket \/ BindSocket \/ packetsDone \/ acceptClient
    \/ Nothing \/ Received \/ Reply \/ Ended \/ LoopEnd

LoopNext == packetHandler \/ MainStep

LoopSpec == LoopInit /\ [][LoopNext]_allvars

\* The processor keeps running, DHCP succeeds, and packetHandler returns: the
\* network pauses long enough for the controller's buffer to be emptied.
FairLoop == LoopSpec /\ WF_allvars(MainStep)

-----------------------------------------------------------------------------

\* addClient ignores a full table silently: what saves main from losing a
\* descriptor, and a stream with it for ever, is that the table and the held
\* descriptors always agree, each in one place.
NoneLost ==
    /\ held = {clients[n] : n \in Places} \ {Free}
    /\ \A m, n \in Places : clients[m] = clients[n] /\ clients[n] # Free => m = n

\* A connection the peer has finished or reset is closed in the end, with the
\* data still in its buffer read before: main leaks no stream of such a peer.
FinishedClosed ==
    \A i \in StreamIds :
        i \in held /\ streams[i].state \in {"CLOSE_WAIT", "CLOSED"} ~> i \notin held

\* "Client sent TCP fin", and before it "Return 0 if other end sent FIN": main
\* takes a connection for ended only after its client has finished or reset it.
\* (The code does not keep this: recv returns 0 in a handshake as well, when accept
\* may already have returned the stream.)
EndedByClient ==
    [][Ended => streams[clients[next]].state \notin {"LISTEN", "SYN_RECEIVED"}]_allvars

=============================================================================
