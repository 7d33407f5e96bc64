# Verification of AVRWebserver

AVRWebserver is a web server for an AVR microcontroller with an ENC28J60
Ethernet controller. It has no operating system: one program (`Main/main.c`)
loops for ever and calls everything else, and the only concurrency on the
microcontroller is the one-second Timer 2 interrupt of `RTC/RTC.c`. What makes
the system hard is outside: the Ethernet controller receives, transmits and
copies between any two register accesses of its driver; packets arrive in any
order, late, twice or never; timers run out while the loop is busy; the power
fails; and all state lives in small fixed tables (5 streams, 30 timers, 5 ARP
entries, 10 clients) whose slots are handed from owner to owner.

This directory holds TLA+ models of that code, the configurations TLC checks
them with, and proofs for TLAPS of what matters most. Comments in each module
name the code they model; `PROJECT.json` maps every definition to its lines.

## The system

| Component | State | Operations | Module | Status |
|---|---|---|---|---|
| Second timers, `RTC/RTC.c` | `timers[30]` | `RTCsetTimer`, `RTCresetTimer`, `RTCtimerDone`, the interrupt | `RTCTimers`, `Countdown` | modelled |
| Shared timers, `RTC.c`, `Socket.c`, `DHCP.c`, `main.c` | the pool and all its users' indices | `handleTCPtimers`, `handleDHCPtimers`, `main`'s wait | `TimerPool`, `TimerSharing` | modelled |
| Clock and calendar, `RTC/RTC.c` | `rtc`, `timeZone` | `RTCsetTimeZone`, `RTCsetTime`, `RTCread`, the interrupt | `Clock` | modelled |
| ARP, `ARP/ARP.c` | `arpTable[5]`, `nextSlot` | `ARPprocessor`, `arp`, `arpRequest` | `ArpTable`, `NeighbourCache` | modelled |
| Socket layer, `WebserverDriver.c`, `Socket.c` | `sockets`, `streams` | the BSD-like calls, `incomingMessage`, `TCPprocessor`, `handleTCPtimers` | `StreamPool` | modelled |
| TCP data transfer, `Socket.c` | `rx` and `tx` of a stream | `TCPprocessor`, `TCPrecv`, `TCPsend`, `sendWhatWeCan`, `handleTCPtimers` | `TcpStream` | partly: no handshake numbers, no FIN of ours, no window scale |
| UDP datagrams, `Socket.c`, `WebserverDriver.c` | `rx` of a stream | `writeRX`, `recv` | `TcpStream` | modelled |
| Main program, `Main/main.c` | `clients[10]` | the loop, `addClient` | `MainLoop` | modelled |
| DHCP client, `DHCP/DHCP.c` | `state`, `expectedID`, `T1`, `T2`, EEPROM record | `DHCPsetup`, `DHCPprocessor`, `handleDHCPtimers` | `DhcpClient` | modelled |
| IPv4, ICMP, `WebserverDriver.c` | what is on the stack | `packetHandler`, `IPv4processor`, `ICMPv4processor`, `sendIPv4packet` | `PacketHandler` | modelled |
| Ethernet controller driver, `ENC28J60_functions.c` | bank cache, next packet pointer | `NICsetup`, `getFrameSize`, `readFrame`, `sendEthernetFrame`, `freeBufferSpace`, PHY, DMA, flow control | `Enc28J60`, `FrameFifo` | partly: see "What is left out" |
| Checksum, `Checksum/` | registers of the loop | `checksumUpdate`, the C version | `Checksum` | partly: `checksumUnrolled`, called in comments only, is left out |

The vendored UART library, the DS3231 driver with its I2C code (not compiled:
`RTC.h` selects the internal oscillator), the generated jump table, the packed
header structures and the test programs are not modelled.

How the parts meet:

- `main` calls `packetHandler`, which empties the controller and then runs
  `handleTCPtimers` and `handleDHCPtimers`. A frame goes by its type to
  `ARPprocessor` or `IPv4processor`, and from there to `ICMPv4processor`,
  `DHCPprocessor` or, by `incomingMessage`, to a stream. All of it is one thread:
  above the driver a frame is handled to its end before anything else runs, so in
  `ArpTable`, `StreamPool` and `DhcpClient` each handler is one action. What a
  frame needs of the controller is many accesses, and `PacketHandler` has each of
  them as an action, with the controller's own steps in between.
- `accept` and `recv` are called without waiting (`MSG_DONTWAIT`). Between two
  calls of `packetHandler` nothing changes a stream but `main` itself.
- The interrupt decrements the timers between any two steps of the program. The
  three timer calls disable it, so each is one action.
- DHCP sets `localIP` and `routerIP`, on which the ARP table and every sent
  packet depend, and shares the timer pool with the streams and `main`.

### What is hard, and what should hold

`PROJECT.json` lists the hazards one by one at their lines. In short:

- *Tables with handles.* A slot must have one owner, its handle must not outlive
  it, and a full table must not lose anything silently: `HandlesExact` (timers,
  streams), `NoneLost`, `LeaseTimersExact`, `RouterKept`. Streams and the lease do
  share timer slots: `PoolSuffices`, `RenewsWhenQuiet`.
- *Reuse.* What the last owner of a slot left must not reach the next:
  `NoCrossTalk`, `ModeMatchesSocket`, `UniqueStream`, `CopiesAgree`.
- *A device that moves on between two accesses.* `RightRegister` (the cached bank),
  `SpaceExact` (a pointer read in two bytes), `FramesFifo` (memory given back while
  frames arrive), `RepliesExact` (one transmit buffer), `CallsReturn` (polled bits).
- *Networks.* Loss, duplication, delay and reordering: `ReadInOrder`,
  `PeerInOrder`, `PointersInOrder`, `EndAfterAll`, `AddressLeased`.
- *Limits.* Ring buffers, windows, sums and counters at their edge:
  `WindowRespected`, `DatagramsWhole`, `NeverEarly`, `ContextExact`, `ReadsItsData`;
  the ends of months, years and centuries: `KeepsUTC`, `ReadsLocal`.
- *Time.* What must happen in the end, and what is missed by a second: `Expires`,
  `FinishedClosed`, `ArrivesUnlessLost`, `BoundInTheEnd`, `RenewsAgain`.
- *Crashes.* A power failure inside an EEPROM write: `AddressLeased`,
  `BoundInTheEnd`. A restart of the microcontroller alone, which leaves the
  controller with any bank selected: `RightRegister`.

## The modules

**`LowestIndex`** has the one operator behind every table search of the code: the
lowest index that fits. `NumberProofs` proves what it returns, and facts about places in
a ring.

**`RTCTimers`** is the timer pool. `timers` is the array; `handle` is the index
each user (T1, T2, a stream, `main`) holds; `remaining` is a history variable, the
seconds that really remain. Users overwrite an index only after its timer was
done. `PromptPolling` says whether the loop turns over within a second.
**`Countdown`** is the abstract specification: one countdown per user and no
slots. `RTCTimers` implements it (`CountdownSpec`) when polling is prompt.

**`TimerPool`** is the same pool as a value, for models whose users share or pass on
their timers: what each call returns and the pool it leaves. `DhcpClient` and
`TimerSharing` use it.

**`TimerSharing`** puts all users on one pool: the lease with T1 and T2, the streams,
and `main`'s timer. `Stream.timer` is not set when a stream is opened; it is 0 or
what the stream's last connection left, so it names whoever holds that slot now.
There is one step per handler of a turn (`turn`), and `polled` remembers which
ran since the last second: the loops are shorter than a second.

**`Clock`** is the calendar: the interrupt's carries, the time zone arithmetic, and a
calendar defined independently (days counted month by month and leap year by
leap year) with which the code's is compared. `meant` is history: the instant the
user set. `inPlace` keeps that `RTCsetTime` lets `addTimeZoneOffset` read from the
struct it writes to; `early` is history: the last setting was one on which that
goes wrong.

**`ArpTable`** is the table with round-robin replacement. `ARPprocessor` is one
action: answer, refresh every entry of the sender, step over the router's slot,
write, advance. `BoundBy` is the part of a DHCP_ACK that sets the addresses and
asks for the router. **`NeighbourCache`** is the abstract specification: a map
from addresses to MACs which may forget any address but the router's and that
of the sender.

**`StreamPool`** is the socket table and the pool of streams with all calls of
the application and all TCP states. Comparisons of sequence numbers are left
open here (`inOrder`, `acksFin`), so every outcome is explored; `TcpStream` is
where they are computed. A receive buffer is the sequence of hosts its data came
from, which is what `NoCrossTalk` needs. `held` is history, the descriptors the
application has. `Calls` says which calls a program makes besides those of a
server, and `serving` is history: it has made none of them yet.

**`MainLoop`** EXTENDS `StreamPool` with `main.c`: its program counter, its table
of clients and the index of its loop. Its steps are the calls the program
really makes, in order, each of them an action of `StreamPool`.

**`TcpStream`** is one stream. As a connection it has both ring buffers with
free-running positions, the send window, the retransmission timer, and a correct peer
over a network that loses, duplicates and reorders. Byte number n is the number n, so
order and completeness are visible. `LEN_MOD` keeps the 16 bits of the length computed
by `sendWhatWeCan`. A segment of odd length goes out with a checksum its receiver may
refuse, because the routine is made for even lengths: it counts as lost. `timed` says
whether a countdown runs whose end the stream will see. That is not the stream's own
doing, as its index is not set when it is opened, so `TimerChanges` may change it at any
time. `shrank` is history: an acknowledgement came so late that it took back window in
use. In `UDP_MODE` the same ring holds datagrams, each behind its length in two bytes
(`Framed`); `waiting` is history, the datagrams not read yet.

**`DhcpClient`** is the DHCP client with its two timers, the EEPROM record, a server, a
network as a set of messages (each may be received late, twice or never, and those to
other hosts arrive too) and power failures, also one in the middle of
`eeprom_update_block`. The server may leave out options 3, 58 and 59 (`AckOptions`): the
requests name them, or after a restart only option 3, but a server may send what it
likes. Leases run out at the server at any time (`Expire`), of which the client, which
does not read option 51, knows nothing. The unseeded `rand()` matters: the first
transaction number is the same after every start, so a reply from before a power failure
may be taken after it.

**`Enc28J60`** is the Ethernet controller and its driver. A function is the script of
its accesses to registers and buffer memory; `todo` is what is left of the one
that runs, `fn` what it does after that. Each access is one action, and the
controller receives a frame, ends a transmission or a copy, or answers from the
PHY between any two. `econ1` keeps the bank selection bits of ECON1 with the
others that matter, `lastBank` is the driver's memory of them, and `stray` is
history: an access meant for one register was made while another bank was
selected. Memory is a ring of two-byte cells; a received frame has its vector (next
frame's address and length), its data, and its CRC. **`FrameFifo`** is the abstract
specification: frames accepted are handed over whole, in order and once.
`Enc28J60` implements it (`FramesFifo`) under the mapping `Pending`, which follows the
controller's chain of next-frame addresses from `npp`.

**`Checksum`** is the loop of `Checksum.S`, one step per block: it is entered in the
middle, by the number of words modulo four, and ends on comparing pointers. `acc` is
the context passed from call to call, `total` the sum without limit of size. `Fold16`
and `Running` are the C version, the reference.

**`PacketHandler`** EXTENDS both: `packetHandler` takes frames from the controller,
`ICMPv4processor` answers echo requests, `sendIPv4packet` adds the header,
`checksumUpdate` sums both parts, and the driver puts the result on the wire. Frames
for other processors only come and go here. `due` is history: the requests whose
replies the driver was given and the wire has not carried yet. Between two turns
any other function of the driver may be called (`Elsewhere`).

The `MC...` modules carry the instances; the `...Proofs` modules the proofs.

## What TLC checks

Every property has a mutant in `PROJECT.json`: a plausible bug in the code it is
about, under which TLC finds it violated.

| Run | Shows | Bounds and why they are enough |
|---|---|---|
| `timers_prompt` | the pool implements `Countdown`, accounts for slots, reports none early and every one in the end | 3 slots for 4 users: the pool fills and slots change owners; counter modulo 4 |
| `timer_sharing` | three slots and one per refused renewal suffice; a lease timer taken by a connection is not lost | 3 slots, 2 streams, T1 = 3 s, T2 = 5 s, one refusal; the counter wraps soon after a missed end (modulo 8) |
| `arp_table` | entries agree, the router stays, the table implements `NeighbourCache` | 3 slots, 2 addresses, 2 MACs: duplicates, eviction, and stepping over the router at every position including the last |
| `pool` | separation of clients under any calls; until a call that is no server's, one stream per client, exact descriptors, the mode of the socket | 2 sockets (TCP and UDP, or two of one), 2 ports, 2 streams for 2 clients, all segments in all states; connect, closeSocket and a second bindlisten at any time, from the first of them on with 1 socket |
| `server_loop` | `main.c` on the pool: it loses no descriptor and closes what is finished | 2 streams and 2 places, so both tables fill; data longer than one `recv` |
| `tcp` | bytes read in order and the end after all; order of pointers, window, order at the peer, arrival unless lost; datagrams returned one by one | to us: a ring of 8, 19 bytes, so it wraps twice, segments of every length up to one more than the ring; from us: ring and window of 2, 4 bytes, so both fill, close and wrap, segments of odd length; datagrams of 0, 1, 3 and 5 bytes with lengths of one byte and two, buffers of every size. `OneWay`: bytes go to us or from us, the two rings do not meet; `SENT_BYTES` ends what is sent after the 16-bit difference has wrapped |
| `dhcp` | the leased address, the lease timers, bound and renewing in the end | 3 slots, T1 = 1 s, T2 = 2 s; both times or neither, a router or none; one lease that runs out, one power failure. A server that sends one time only is left to `HandlesNameTimers` |
| `clock` | the clock keeps UTC and its calendar, and reads as local time | 2 seconds a minute, 2 minutes an hour; the first and last days of all months of a leap century, an ordinary year and an ordinary century; zones to both sides |
| `echo` | the way of a frame through controller, `packetHandler`, checksum and back, access by access | a receive ring of 30 bytes, which holds two frames, so it fills and wraps; 3 frames out of 4 kinds; echo messages of 14, 8 and 11 bytes under a header of 20, so that the checksum loop is entered at all four places and carries; every other driver function between two turns |
| `tcp_lost` | *violation*: see below | one segment lost |
| `handshake` | *violation*: see below | as `server_loop` |
| `clock_early` | *violation*: see below | as `clock` |

The two runs of `TcpStream` do not check deadlock: a connection on which all was
said really stops. `echo` is the largest, with about 470 000 states.

### Fairness

- `RTCTimers`: the second passes in the end whatever the program does (strong,
  because with prompt polling it waits for readers), and each user keeps asking
  (weak): `packetHandler` runs both timer handlers on each turn.
- `TimerSharing`: the handlers of a turn run one after the other, `main` waits for its
  timer, and the second passes (all weak). The DHCP server answers in the end
  (strong on `GetAck`, which is possible only while frames are processed).
- `MainLoop`: the processor keeps running (weak on `MainStep`). Since `packetHandler`
  loops until the controller is empty, this contains the assumption that the
  traffic pauses. Nothing is assumed of the clients.
- `PacketHandler`: the processor makes its next access, a PHY operation, a DMA copy
  and a transmission come to their end (all weak). Nothing is assumed of the
  frames that arrive.
- `TcpStream`: a countdown that keeps running is looked at and ends. That one keeps
  running is *not* assumed: a stream starts with the index 0, or what the last
  connection left in it, and the slot of that index may be unused for ever. So
  `ArrivesUnlessLost` and `Retransmitted` have it as their premise (`<>[]timed`), next
  to what they need of the network. The peer reads and acknowledges, and its last
  acknowledgement arrives.
- `DhcpClient`: the second passes, `packetHandler` runs, and what belongs to the
  present transaction is answered, by a server that was asked, and delivered in the
  end. The code never repeats a request, so without that last assumption one lost
  packet stops it.

### Where the code and its own words disagree

Checked as runs that TLC must find violated:

- `tcp_lost` (`Retransmitted`): the retransmission timer sends from `next` on and never
  moves it back (Socket.c:265): a lost segment is never sent again, although "after
  every sent data frame, reset retransmission timer" (line 233) is there for nothing
  else.
- `handshake` (`EndedByClient`): `recv() == 0` means "Client sent TCP fin" to `main`
  (main.c:130), and to Socket.c:175 "other end sent FIN", but `TCPrecv` returns 0 in
  LISTEN and SYN_RECEIVED too, when `accept` may already have returned the stream. A
  client whose handshake takes more than one call of `packetHandler` is dropped.
- `clock_early` (`SetsUTC`): `RTCsetTime` is to "get us to UTC from the given local
  time" (RTC.c:73), but the day is tested after it was counted down in the same struct
  (lines 259-260): east of UTC, the early hours of the first two days of a month are
  set wrong. `KeepsUTC` and `ReadsLocal` speak of all other settings.

Seen while modelling, not kept as runs:

- Back over New Year the month becomes 0 (RTC.c:283 corrects the year only):
  `ReadsLocal` leaves those hours out.
- `TCPclose` enters FIN_WAIT_1 or LAST_ACK to wait for the ACK (Socket.c:211-213), and
  `closeStream` frees the stream in the same call (WebserverDriver.c:217), so the
  rest of the closing handshake meets a free stream.
- `RTCtimerDone` "Returns 1 if the given timer has finished" (RTC.c:136), but only
  during the second in which the counter is exactly 0; after that it has wrapped.
  `Expires` and `CountdownSpec` hold with `PromptPolling` only.
- `Stream.timer` is never set when a stream is opened (Socket.c:257, 233), so
  `handleTCPtimers` can find DHCP's T1 done, release it, and start a retransmission
  timer in its slot: DHCP then takes that timer's end for T1's. A renewal is late
  while a connection is open, and a page served just before can have it five
  seconds later; that it comes in the end is `RenewsWhenQuiet`. While the slot is
  unused, what a closed window held back is not sent when it opens.
- `ARPprocessor` adds the sender even when it has just refreshed its entry, against
  the comment of ARP.c:66, so one host can fill the table.
- `incomingMessage` finds a stream by protocol and remote end only: data for one
  bound port reaches the stream of another of the same client
  (WebserverDriver.c:135, 225-229).
- `closeSocket` leaves the streams of the socket (line 210): they answer from the
  port of whoever gets the index next, and those not yet accepted are never freed.
- A FIN segment whose own data did not fit still starts at `rx.head` and is accepted
  (Socket.c:101-102), and one whose data did fit is not: `EndAfterAll` fails with
  `FinFits = FALSE`.
- A delayed acknowledgement moves `tail` and the window back (Socket.c:99). As long as
  `next` stays inside the window that does no harm; when it does not, the 16-bit
  difference of line 224 wraps: the properties of sending end there (`~shrank`).
- In CLOSE_WAIT acknowledgements are ignored (Socket.c:150-154), although data may
  still be sent (line 186): what then waits for the window never leaves.
- Data segments and echo replies of odd length are summed with bytes that happen to
  follow them, as many as the loop reads before it meets the end of the buffer
  (Checksum.S:4 "assumes len is a multiple of 2"; nobody pads).
- `IPv6reset`, which nothing calls, resets the controller and leaves `lastBank` as it
  was; only the start of the program resets both together.
- A NAK while RENEWING leaves T2 running in its slot for ever (DHCP.c:248-251).
  `LeaseTimersExact` counts these, and `PoolSuffices` needs a slot for each.
- The ACK of a renewal resets T2 because it "has not expired yet" (DHCP.c:227), but
  if the ACK before it had no option 59, T2 was never set. And an ACK with option 59
  alone sets T2 in a slot that the old T1 may still name (the first ACK after a start
  always does): `RTCtimerDone(T1)` then takes T2's end for T1's.
- A server that leaves out option 58 gives a lease that is never renewed, and no
  lease ends: option 51 is not read and REBINDING waits for ever (DHCP.c:152-175), so
  the client goes on using an address that was given to another.
- The address kept as the DHCP server's is the router's (DHCP.c:242; line 129 has "send
  request to initial DHCP server"). When they differ, a renewal gets no answer until
  T2, and a client that restarts waits in REBOOTING for ever: `BoundInTheEnd` excepts
  it (`Unheard`).

## What is proved

The proofs hold for all values of the constants that satisfy the `ASSUME` of the
module (for a table: any number of slots, users, clients; for a ring: any size).

- **Timers** (`RTCProofs`). `TypeCorrect`, then `SlotsAccountedFor` (inductive
  with the type invariant). `TimersNeverEarly` needs the strengthening
  `CounterExact`: while a timer's time is not over its counter equals the history
  variable, which a test for 0 alone does not carry over a wrap.
  `ImplementsCountdown` assumes `PromptPolling`.
- **Clock** (`RTCProofs`), for any zones, dates from 1998 on and lengths of minute and
  hour, without a bound on the seconds that pass. First the calendar as it is: the leap
  years before a year, counted, are `Quarters(y) - 484` (`LeapsCounted`, by the least
  year that contradicts it, as induction is out of reach); the day after a month's last
  has the next number (`NextDayNumber`). Then the code's against it: its chain of tests
  ends each month where it ends (`MonthEnds`), its table gives the month before
  (`MonthBefore`), and its formula for the day of the week differs from the number of the
  day by whole weeks (`DayOfWeek`). So the next day and the day before are what they
  should be (`NextDayFollows`, `PreviousDayFollows`), an offset shifts the instant by its
  hours (`OffsetShifts`) and the interrupt by one second (`SecondPasses`). `UTCKept` and
  `LocalRead` follow with `ClockInv`, which says the fields are a time of the calendar.
  `Missed` names the dates on which the day before is mistaken. A setting on one of them
  leaves what is not a date, and the clock counts on from there; `ClockInv` speaks of the
  time from the next other setting on, which `early` marks.
- **Shared timers** (`TimerSharingProofs`), for any number of streams and any durations.
  `PoolIsEnough` counts slots: the lease has two after a DHCP_ACK, one while it renews
  and none later, `main` one while it waits, a refused renewal leaves one for good, and
  streams none, because a stream that sets its timer has released a slot before, be it
  its own or not. That main finds a slot needs `SetupInv`: the lease is not renewed, let
  alone refused, before main serves, since T1 runs longer than the turn that ends the
  setup. It assumes `MAX_TIMERS >= 3` and `MAX_TIMERS >= MAX_REFUSALS + 2`.
- **ARP** (`ArpTableProofs`). `IInv` adds to `CopiesAgree` that empty slots hold the
  zero address. `RouterNeverEvicted` is the action property: the one slot that is
  written never is the router's last, because the slot stepped to differs from
  the one stepped over (at least two slots). `ImplementsNeighbourCache` is the
  refinement.
- **Streams** (`MainLoopProofs`, its first part). `TypeCorrect` and `ClientsSeparated`
  hold for any calls. Until a call that is no server's (`serving`) the conjunction
  `ServerInv` holds, and no part of it is inductive alone: that one client has one
  stream needs that streams of listening sockets keep their protocol; that descriptors
  are exact needs that no stream in use reaches a closing state; that needs ... the
  descriptors. From it follow `DescriptorsExact`, `OneStreamPerClient` and `ModesMatch`.
- **Main loop** (`MainLoopProofs`, its second part). Each step of `main.c` is a call of
  a server or leaves the pool alone, so what is said above of one holds of it
  (`MainServes`). `DescriptorsKept` counts: as there are no more streams than places, a
  stream to accept implies an empty place.
- **Connections** (`TcpStreamProofs`), for rings, windows and streams of any length.
  First the ring: positions less than a ring apart lie in different places
  (`PlacesDiffer`), so what `Put` writes is found again (`PutWrites`) and what lies
  less than a ring behind its end is left alone (`PutKeeps`). `ReceiveInv` says that
  every position between `rx.tail` and `rx.head` holds its byte and everything before
  was read; `ReadInOrder` and, for a peer that sends its FIN where its data fits,
  `EndAfterAll` follow. `SendInv` says the same of the send buffer and relates it to
  the peer: each acknowledgement is one the peer has sent, those it sent later take neither
  bytes nor window back (`AcksOrder`), tail and window are those of the one that arrived
  last (`Heard`), segments in the network hold the application's bytes up to `next`, and
  the peer has no more than that. Then the 16-bit difference of `sendWhatWeCan` never
  wraps (`AbleToSend`). `PointersInOrder`, `WindowRespected` and `PeerInOrder` follow
  for every order in which acknowledgements arrive, up to the first that leaves `next`
  outside the window (`shrank`). `InOrderNeverShrinks`: where they arrive in the order they
  were sent in, there is none.
- **Datagrams** (`TcpStreamProofs`). `DatagramInv` says that there are positions, one for
  each datagram that waits and one for the end, from each of which on the ring holds the
  next datagram behind its length (`Framing`). Writing adds a position at the end and
  disturbs none before, as there is room (`FramingGrows`); taking the oldest drops the
  first, whatever part of it the caller had room for (`FramingShrinks`). The two bytes
  `recv` reads first are then the length of the oldest (`DatagramFound`), and the action
  property `AlwaysDatagramsWhole` follows.
- **Checksum** (`PacketHandlerProofs`), for any buffers. `EndAroundExact`: adding a word
  with the carry around keeps the sum modulo 65535 and gives 0 for zeros only; hence
  `ContextIsSum`. `ReadsExactly`: what is left of a buffer of even length always fits
  the block that runs next, so the comparison of pointers meets the end exactly.
- **Register banks** (`PacketHandlerProofs`). `AccessesReach`, for any program of calls.
  The invariant: but for the very first access of the setup, which is to bank 3 and
  selects it whatever the controller had selected, the bank bits of ECON1 are
  `lastBank`; and all accesses still to be made name registers and give ECON1 no bank
  bits of their own.
- **packetHandler** (`PacketHandlerProofs`). The two results above are of one call and of
  any program; `HandlerContexts`, `HandlerReads` and `HandlerAccessesReach` carry them to
  the composition, where sums and accesses are those the handler makes of the frames
  that arrive: they assume that requests and the memory behind them are made of bytes.
- **Received frames** (`PacketHandlerProofs`), for a receive buffer of any even length and
  frames of any sizes. The controller counts addresses modulo the ring; the proof counts
  positions, which only grow. `Ring` says that the frames that wait lie one behind the
  other from positions `s[1]`, `s[2]`, ... on, each with its vector and its data, less than
  a ring from the position `base` that `ERXRDPT` protects; so a frame that fits in `Room`
  is written to places none of them has (`RingReceives`). `Phase` says where the driver is
  with the first of them: nothing read, the vector about to be read, read, or the data read
  too; memory is given back (`base` moves) in the last only. What runs otherwise is `Calm`:
  it touches neither the pointers nor the count. Then `Pending`, which follows the
  chain in memory, is what the frames hold (`PendingHeld`), each step is one of
  `FrameFifo` or a stutter (`NextMoves`, `FifoStep`), and `FramesInOrder` is the refinement.
- **Free space** (`PacketHandlerProofs`). `SpaceInv`: a byte of `ERXWRPT` that
  `freeBufferSpace` has read is right unless `EPKTCNT` has grown since. The count goes
  down in `readFrame` only, so an equal second reading means equal pointers. `ERXRDPT` is
  odd and `ERXWRPT` even (`PointersOdd`), so they never meet and the driver's case for that
  is not taken; with `FreeIsRoom`, `SpaceIsExact` follows.
- **DHCP client** (`DhcpClientProofs`), for any addresses, pool, refusals, leases that
  run out and power failures. `LeasedAddresses`: the server notes an address down before
  it acknowledges it, so each DHCP_ACK in the network names an address it gave to the
  client (`Acknowledged`). A lease that runs out moves the note to `ranOut`; nothing but a
  restart takes one away, and that takes the client's address and all messages too.
  Replies to others never carry the transaction under way (`ForeignIgnored`). The theorem
  says nothing of the record in the EEPROM, which a cut write may leave torn.
  `HandlesNameTimers`, whichever of the two times each DHCP_ACK brings, counts slots: as
  long as there are two besides the timers lost hold of, the slots that run and are not
  needed are at most those (`Handles`), so that `RTCsetTimer` finds one. The invariant is
  stronger than the property: T1 and T2 differ while T2 is needed, also after T1 was given
  back, because a renewal whose ACK has option 58 finds T2's slot in use.

The type invariants of `RTCTimers`, `ArpTable`, `StreamPool`, `Checksum` and
`DhcpClient` are proved. Those of the other modules are stated there and were checked
with TLC, and are not repeated among the properties of the runs.

Only model-checked: all liveness properties (`Expires`, `FinishedClosed`,
`ArrivesUnlessLost`, `BoundInTheEnd`, `RenewsAgain`, `RenewsWhenQuiet`, `CallsReturn`),
which the proof system does not reach; and `RepliesExact`.

## What is left out

- Data: names, lengths and the text of messages, HTTP beyond "begins with GET", the
  parsing of DHCP options. A UDP length field is at least the 8 bytes of its header.
- Blocking `accept` and `recv`: the program calls both with `MSG_DONTWAIT`.
- The sequence numbers of the handshake and of our own FIN, and the window scale.
- Of the controller: what DMA copies or sums (nothing uses it on received frames), the
  hash of `addMACtoTable`, the times between accesses (`WriteRegDelayed` is
  `WriteReg`), the values of the set-up registers; reception with errors, which the
  filter drops. `IPv6reset` and `checksumUnrolled` are called by nothing.
- The random identification of an IP packet.
- In `Enc28J60`, `OtherCall` takes `StartPHYscan`, `ReadPHYscan` and `StopPHYscan` as one
  call. Each sum of the run `echo` is over a single buffer, as in the handler; a context
  carried over several is covered by `ContextIsSum` only.
- In `DhcpClient`, the parameter lists of the requests; requests of earlier transactions
  are left to `LateRequest`, replies of earlier ones to `Foreign`.
- `MainLoop` takes the timers' effect on the pool as nothing, which `StreamsServe` in
  `MainLoopProofs` justifies (no stream of a server is in TIME_WAIT); `TimerSharing` has
  the effect of the pool on the timers.
- No property for: a host that fills the ARP table, a lost answer to the one
  `arpRequest`, five silent clients, a client starved by another in a lower slot, a
  timer read a second late, the use of a lease that has run out. The code promises
  nothing there, and the hazard list says so at each line.

## What could come next

1. A proof of `RepliesExact`: the transmit buffer, and the reply computed from the frame
   at hand while others arrive.
2. The handshake and our own FIN in `TcpStream`, so that it covers a connection from SYN
   to its end.
