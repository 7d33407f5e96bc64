----------------------------- MODULE Enc28J60 ------------------------------
(***************************************************************************)
(* The Ethernet controller and its driver, ENC28J60_functions.c.  The      *)
(* driver is one thread that accesses registers and buffer memory over SPI *)
(* one after the other; a function is the script of its accesses, todo is  *)
(* what is left of the one that runs, and fn says what it does after that. *)
(* The controller receives, transmits, copies and talks to the PHY between *)
(* any two accesses.                                                       *)
(*                                                                         *)
(* Buffer memory is made of cells of two bytes at even addresses.  A frame *)
(* is a number, which fills the cells of its data.                         *)
(***************************************************************************)
EXTENDS Integers, Sequences

CONSTANTS
    RX_BUF_END,     \* last address of the receive buffer
    BYTE,           \* 2^8: where the low byte of a register word ends
    Frames,         \* the frames that may arrive
    FrameSize(_),   \* their length in bytes, without the CRC
    MAX_FRAMES,     \* bound on the frames that arrive
    Calls           \* functions called besides those packetHandler needs

ASSUME BufferAssumption ==
    /\ RX_BUF_END \in Nat /\ RX_BUF_END % 2 = 1
    /\ BYTE \in Nat \ {0}

ASSUME FrameAssumption ==
    /\ Frames \subseteq Nat
    /\ \A f \in Frames : FrameSize(f) \in Nat \ {0}

RX_BUF_ST == 0
RX_LEN == RX_BUF_END + 1
TX_BUF_ST == RX_BUF_END + 1

AllBanks == {"EIE", "EIR", "ESTAT", "ECON2", "ECON1"}
Bank0 == {"ERDPT", "EWRPT", "ETXST", "ETXND", "ERXST", "ERXND", "ERXRDPT", "ERXWRPT",
          "ERXWRPTL", "ERXWRPTH", "EDMAST", "EDMAND", "EDMADST", "EDMACS"}
Bank1 == {"EHT", "EPMM", "EPMCS", "EPMO", "ERXFCON", "EPKTCNT"}
Bank2 == {"MACON1", "MACON2", "MACON3", "MACON4", "MABBIPG", "MAIPG", "MACLCON1", "MACLCON2",
          "MAMXFL", "MICMD", "MIREGADR", "MIWR", "MIRDL", "MIRDH"}
Bank3 == {"MAADR", "EBSTSD", "EBSTCON", "EBSTCS", "MISTAT", "EREVID", "ECOCON", "EFLOCON",
          "EPAUS"}
Registers == AllBanks \cup Bank0 \cup Bank1 \cup Bank2 \cup Bank3

VARIABLES
    econ1,      \* the bits set in ECON1, the bank selection among them
    ptr,        \* the pointer registers
    epktcnt,    \* frames received and not counted off
    mem,        \* the receive buffer
    txmem,      \* the transmit buffer
    mii,        \* the bits set in MISTAT
    arrivals,   \* how many frames have arrived
    lastBank,   \* the driver's memory of the bank it selected last
    npp,        \* where the next frame starts
    todo,       \* the accesses the running function has yet to make
    fn,         \* what it does after them; "none" if it returns
    seen,       \* the values it has read
    frameSize,  \* what getFrameSize returned
    rx,         \* what readFrame has read
    space,      \* what freeBufferSpace returned
    at,         \* history: the frame at hand is "none", "sized" or "copied"
    stray       \* history: an access reached another register

chip == <<econ1, ptr, epktcnt, mem, txmem, mii, arrivals>>
driver == <<lastBank, npp, todo, fn, seen, frameSize, rx, space>>
nicVars == <<chip, driver, at, stray>>

-----------------------------------------------------------------------------
(* Accesses.                                                               *)

Write(reg, arg) == [op |-> "write", reg |-> reg, arg |-> arg]
Read(reg, into) == [op |-> "read", reg |-> reg, arg |-> into]
SetBits(reg, bits) == [op |-> "set", reg |-> reg, arg |-> bits]
ClearBits(reg, bits) == [op |-> "clear", reg |-> reg, arg |-> bits]
Await(reg, bit) == [op |-> "await", reg |-> reg, arg |-> bit]

BSEL == {"BSEL1", "BSEL0"}

\* The bank bits of a register's name, as they are in ECON1.
givenBank(reg) ==
    CASE reg \in AllBanks \cup Bank0 -> {}
      [] reg \in Bank1 -> {"BSEL0"}
      [] reg \in Bank2 -> {"BSEL1"}
      [] reg \in Bank3 -> BSEL

\* ECON1 after checkBank: the bits of the bank are set, then the others cleared.
checkBank(reg) ==
    IF givenBank(reg) = lastBank THEN econ1
    ELSE (econ1 \cup givenBank(reg)) \ (BSEL \ givenBank(reg))

\* With ECON1 like this the register's address means the register.
Reached(reg, e) == reg \in AllBanks \/ e \cap BSEL = givenBank(reg)

\* An access to a register: what it does to ECON1 and to the rest.
Access(op) ==
    /\ todo # <<>>
    /\ Head(todo).op = op
    /\ lastBank' = givenBank(Head(todo).reg)
    /\ stray' = (stray \/ ~Reached(Head(todo).reg, checkBank(Head(todo).reg)))

Pointers == {"ERDPT", "EWRPT", "ETXND", "ERXRDPT", "ERXWRPT"}

\* A write of ERXST moves the controller's write pointer; ERXWRPT itself is
\* read only.
WriteReg ==
    /\ Access("write")
    /\ LET reg == Head(todo).reg
           arg == Head(todo).arg
       IN  /\ econ1' = IF reg = "ECON1" THEN arg ELSE checkBank(reg)
           /\ ptr' = CASE reg = "ERXST" -> [ptr EXCEPT !.ERXWRPT = arg]
                       [] reg \in Pointers \ {"ERXWRPT"} -> [ptr EXCEPT ![reg] = arg]
                       [] OTHER -> ptr
           /\ mii' = CASE reg = "MIWR" -> {"BUSY"}
                       [] reg = "MICMD" /\ arg = {"MIIRD"} -> {"BUSY"}
                       [] reg = "MICMD" /\ arg = {"MIISCAN"} -> {"BUSY", "NVALID", "SCAN"}
                       [] reg = "MICMD" /\ arg = {} -> mii \ {"SCAN"}
                       [] OTHER -> mii
    /\ todo' = Tail(todo)
    /\ UNCHANGED <<epktcnt, mem, txmem, arrivals, npp, fn, seen, frameSize, rx, space, at>>

\* The value of a register that the driver looks at.
Value(reg) ==
    CASE reg = "EPKTCNT" -> epktcnt
      [] reg = "ERXWRPTL" -> ptr.ERXWRPT % BYTE
      [] reg = "ERXWRPTH" -> ptr.ERXWRPT \div BYTE
      [] reg \in Pointers -> ptr[reg]
      [] OTHER -> 0

ReadReg ==
    /\ Access("read")
    /\ econ1' = checkBank(Head(todo).reg)
    /\ seen' = [seen EXCEPT ![Head(todo).arg] = Value(Head(todo).reg)]
    /\ todo' = Tail(todo)
    /\ UNCHANGED <<ptr, epktcnt, mem, txmem, mii, arrivals, npp, fn, frameSize, rx, space, at>>

\* ECON2's PKTDEC counts a frame off.
SetRegBit ==
    /\ Access("set")
    /\ LET reg == Head(todo).reg
           arg == Head(todo).arg
       IN  /\ econ1' = checkBank(reg) \cup (IF reg = "ECON1" THEN arg ELSE {})
           /\ epktcnt' = IF arg = {"PKTDEC"} THEN epktcnt - 1 ELSE epktcnt
           /\ at' = IF arg = {"PKTDEC"} THEN "none" ELSE at
    /\ todo' = Tail(todo)
    /\ UNCHANGED <<ptr, mem, txmem, mii, arrivals, npp, fn, seen, frameSize, rx, space>>

ClearRegBit ==
    /\ Access("clear")
    /\ econ1' = checkBank(Head(todo).reg) \ (IF Head(todo).reg = "ECON1" THEN Head(todo).arg ELSE {})
    /\ todo' = Tail(todo)
    /\ UNCHANGED <<ptr, epktcnt, mem, txmem, mii, arrivals, npp, fn, seen, frameSize, rx, space, at>>

\* while(ReadReg(reg) & bit); the bits of ESTAT are not modelled.
AwaitClear ==
    /\ Access("await")
    /\ LET reg == Head(todo).reg
           set == CASE reg = "ECON1" -> econ1
                    [] reg = "MISTAT" -> mii
                    [] OTHER -> {}
       IN  /\ econ1' = checkBank(reg)
           /\ todo' = IF Head(todo).arg \in set THEN todo ELSE Tail(todo)
    /\ UNCHANGED <<ptr, epktcnt, mem, txmem, mii, arrivals, npp, fn, seen, frameSize, rx, space, at>>

Cell(address) == mem[address % RX_LEN]

\* The bytes of the receive vector: the next frame's address and the length.
ReadVector ==
    /\ todo # <<>>
    /\ Head(todo).op = "vector"
    /\ npp' = Cell(ptr.ERDPT)
    /\ frameSize' = Cell(ptr.ERDPT + 2) - 4
    /\ ptr' = [ptr EXCEPT !.ERDPT = (@ + 6) % RX_LEN]
    /\ at' = "sized"
    /\ todo' = Tail(todo)
    /\ UNCHANGED <<econ1, epktcnt, mem, txmem, mii, arrivals, lastBank, fn, seen, rx, space, stray>>

\* The cells of len bytes from an address on.
Data(address, len) == [k \in 1 .. (len + 1) \div 2 |-> Cell(address + 2 * (k - 1))]

readBuffer ==
    /\ todo # <<>>
    /\ Head(todo).op = "RBM"
    /\ rx' = Data(ptr.ERDPT, Head(todo).arg)
    /\ ptr' = [ptr EXCEPT !.ERDPT = (@ + Head(todo).arg) % RX_LEN]
    /\ at' = "copied"
    /\ todo' = Tail(todo)
    /\ UNCHANGED <<econ1, epktcnt, mem, txmem, mii, arrivals, lastBank, npp, fn, seen, frameSize,
                   space, stray>>

\* One block is written where EWRPT points; nothing for an empty one.
writeBuffer ==
    /\ todo # <<>>
    /\ Head(todo).op = "WBM"
    /\ LET block == Head(todo).arg
           start == ptr.EWRPT - TX_BUF_ST
       IN  /\ txmem' = SubSeq(txmem, 1, start) \o block
                         \o SubSeq(txmem, start + Len(block) + 1, Len(txmem))
           /\ ptr' = [ptr EXCEPT !.EWRPT = @ + Len(block)]
    /\ todo' = Tail(todo)
    /\ UNCHANGED <<econ1, epktcnt, mem, mii, arrivals, lastBank, npp, fn, seen, frameSize, rx, space,
                   at, stray>>

AccessStep ==
    \/ WriteReg \/ ReadReg \/ SetRegBit \/ ClearRegBit \/ AwaitClear
    \/ ReadVector \/ readBuffer \/ writeBuffer

-----------------------------------------------------------------------------
(* Functions.                                                              *)

NothingSeen == [any |-> 0, pkts |-> 0, rdpt |-> 0, prev |-> 0, wrL |-> 0, wrH |-> 0, now |-> 0,
                end |-> 0]

Idle == todo = <<>> /\ fn = "none"

\* With all its accesses made, a function returns or goes on.
GoOn(from, script, to) ==
    /\ todo = <<>>
    /\ fn = from
    /\ todo' = script
    /\ fn' = to
    /\ seen' = IF "none" \in {from, to} THEN NothingSeen ELSE seen
    /\ UNCHANGED <<chip, lastBank, npp, rx, at, stray>>

Call(script, to) == GoOn("none", script, to) /\ space' = 0 /\ UNCHANGED frameSize

WritePHY == <<Await("MISTAT", "BUSY"), Write("MIREGADR", 0), Write("MIWR", 0)>>

ReadPHY == <<Await("MISTAT", "BUSY"), Write("MIREGADR", 0), Write("MICMD", {"MIIRD"}),
             Await("MISTAT", "BUSY"), Write("MICMD", {}), Read("MIRDH", "any"), Read("MIRDL", "any")>>

StartPHYscan == <<Await("MISTAT", "BUSY"), Write("MIREGADR", 0), Write("MICMD", {"MIISCAN"}),
                  Await("MISTAT", "NVALID")>>

ReadPHYscan == <<Read("MIRDH", "any"), Read("MIRDL", "any")>>

\* Mutant: the scan is left running.
StopPHYscanNever == <<>>

StopPHYscan == <<Write("MICMD", {})>>

\* Mutant: the buffer is set up first, in bank 0, and the clock output after it.
NICsetupBank0 ==
    <<Write("ERXST", RX_BUF_ST), Write("ERXWRPT", RX_BUF_ST),
      Write("ERXND", RX_BUF_END), Write("ERXRDPT", RX_BUF_END), Write("ETXST", TX_BUF_ST),
      Write("ECOCON", 0), Write("ECON1", {"RXEN"}), Write("ECON2", {"AUTOINC"})>>

\* The accesses of NICsetup up to the wait for the link.
NICsetup ==
    <<Write("ECOCON", 0), Write("ERXST", RX_BUF_ST), Write("ERXWRPT", RX_BUF_ST),
      Write("ERXND", RX_BUF_END), Write("ERXRDPT", RX_BUF_END), Write("ETXST", TX_BUF_ST),
      Write("EIE", {"PKTIE", "LINKIE"}), Write("EIR", {}),
      Write("ERXFCON", {"UCEN", "CRCEN", "BCEN", "MCEN"}),
      Write("MACON2", {}), Write("MACON1", {"MARXEN", "TXPAUS", "RXPAUS"}),
      Write("MACON3", {"PADCFG0", "TXCRCEN", "FRMLNEN", "FULDPX", "HFRMEN"}),
      Write("MACON4", {"DEFER"}), Write("MABBIPG", 0), Write("MAIPG", 0), Write("MAMXFL", 0),
      Write("MAADR", 0), Write("EPAUS", 0)>>
    \o WritePHY \o WritePHY \o WritePHY \o WritePHY
    \o <<Write("ECON1", {"RXEN"}), Write("ECON2", {"AUTOINC"})>>

\* "Waiting for link...": PHSTAT2 is read until the link is up.
WaitForLink ==
    \/ GoOn("NICsetup", ReadPHY, "link") /\ UNCHANGED <<frameSize, space>>
    \/ GoOn("link", ReadPHY, "link") /\ UNCHANGED <<frameSize, space>>
    \/ GoOn("link", <<Read("EREVID", "any")>>, "none") /\ UNCHANGED <<frameSize, space>>

packetPending == Call(<<Read("EPKTCNT", "pkts")>>, "none")

getFrameSize == Call(<<Read("EPKTCNT", "pkts")>>, "getFrameSize")

\* A frame is there: its vector is read from npp on.  If not, the size is 0.
FrameThere ==
    /\ GoOn("getFrameSize",
            IF seen.pkts = 0 THEN <<>>
            ELSE <<Write("ERDPT", npp), [op |-> "vector", reg |-> "none", arg |-> 0]>>, "none")
    /\ frameSize' = IF seen.pkts = 0 THEN 0 ELSE frameSize
    /\ UNCHANGED space

\* Move the write protection pointer right before the next frame.
Release == Write("ERXRDPT", IF npp # RX_BUF_ST THEN npp - 1 ELSE RX_BUF_END)

\* Mutant: the memory of the frame is given back before it is read.
readFrameLate ==
    Call(<<Release, [op |-> "RBM", reg |-> "none", arg |-> frameSize],
           SetBits("ECON2", {"PKTDEC"})>>, "none")

readFrame ==
    Call(<<[op |-> "RBM", reg |-> "none", arg |-> frameSize], Release,
           SetBits("ECON2", {"PKTDEC"})>>, "none")

WriteBlock(block) == [op |-> "WBM", reg |-> "none", arg |-> block]

\* Mutant: the transmitter is not waited for.
sendEthernetFrameAtOnce(blocks) ==
    Call(<<Write("EWRPT", TX_BUF_ST), WriteBlock(<<0>>)>>
         \o [k \in 1 .. Len(blocks) |-> WriteBlock(blocks[k])]
         \o <<Read("EWRPT", "end")>>, "sendEthernetFrame")

\* When the transmitter is idle, the control byte, the header and the blocks
\* are written.
sendEthernetFrame(blocks) ==
    Call(<<Await("ECON1", "TXRTS"), Write("EWRPT", TX_BUF_ST), WriteBlock(<<0>>)>>
         \o [k \in 1 .. Len(blocks) |-> WriteBlock(blocks[k])]
         \o <<Read("EWRPT", "end")>>, "sendEthernetFrame")

\* "Write pointer ends up right after packet".
FrameWritten ==
    /\ GoOn("sendEthernetFrame",
            <<Write("ETXND", seen.end - 1), Await("ECON1", "DMAST"), ClearBits("EIR", {"TXIF"}),
              SetBits("ECON1", {"TXRST"}), ClearBits("ECON1", {"TXRST"}),
              SetBits("ECON1", {"TXRTS"})>>, "none")
    /\ UNCHANGED <<frameSize, space>>

DMAcopy ==
    <<Await("ECON1", "DMAST"), ClearBits("ECON1", {"CSUMEN", "BSEL1", "BSEL0"}),
      Write("EDMAST", 0), Write("EDMAND", 0), Write("EDMADST", 0), SetBits("ECON1", {"DMAST"})>>

\* "Must do this because of errata": nothing is received while the sum is made.
DMAchecksum ==
    <<Await("ECON1", "DMAST"), SetBits("ECON1", {"CSUMEN"}), Write("EDMAST", 0), Write("EDMAND", 0),
      Await("ESTAT", "RXBUSY"), ClearBits("ECON1", {"RXEN"}), SetBits("ECON1", {"DMAST"})>>

getChecksum ==
    <<Await("ECON1", "DMAST"), SetBits("ECON1", {"RXEN"}), Read("EDMACS", "any")>>

startPauseFrames == <<SetBits("EFLOCON", {"FCEN1"}), ClearBits("EFLOCON", {"FCEN0"})>>

stopPauseFrames == <<SetBits("EFLOCON", {"FCEN1", "FCEN0"})>>

addMACtoTable == <<SetBits("EHT", {"hash"})>>

\* EPKTCNT, both bytes of ERXWRPT in the order the compiler chose, EPKTCNT.
ReadWritePointer ==
    {<<Read("EPKTCNT", "prev"), Read("ERXWRPTL", "wrL"), Read("ERXWRPTH", "wrH"),
       Read("EPKTCNT", "now")>>,
     <<Read("EPKTCNT", "prev"), Read("ERXWRPTH", "wrH"), Read("ERXWRPTL", "wrL"),
       Read("EPKTCNT", "now")>>}

FreeBufferSpace ==
    \E reads \in ReadWritePointer :
        Call(<<Read("ERXRDPT", "rdpt")>> \o reads, "freeBufferSpace")

\* What the receive pointers leave, "taken straight from the datasheet".
BytesFree(readpt, writept) ==
    CASE writept > readpt -> (RX_BUF_END - RX_BUF_ST) - (writept - readpt)
      [] writept = readpt -> RX_BUF_END - RX_BUF_ST
      [] writept < readpt -> readpt - writept - 1

\* Mutant: a frame that came in between is not noticed.
SpaceKnownAtOnce ==
    /\ GoOn("freeBufferSpace", <<>>, "none")
    /\ space' = BytesFree(seen.rdpt, seen.wrH * BYTE + seen.wrL)
    /\ UNCHANGED frameSize

\* "Read again if a packet was received under our noses".
SpaceKnown ==
    \/ /\ seen.prev # seen.now
       /\ \E reads \in ReadWritePointer : GoOn("freeBufferSpace", reads, "freeBufferSpace")
       /\ UNCHANGED <<frameSize, space>>
    \/ /\ seen.prev = seen.now
       /\ GoOn("freeBufferSpace", <<>>, "none")
       /\ space' = BytesFree(seen.rdpt, seen.wrH * BYTE + seen.wrL)
       /\ UNCHANGED frameSize

\* What else a program may call.
OtherCall ==
    \/ "PHY" \in Calls /\ (Call(WritePHY, "none") \/ Call(ReadPHY, "none"))
    \/ "PHYscan" \in Calls /\ Call(StartPHYscan \o ReadPHYscan \o StopPHYscan, "none")
    \/ "DMA" \in Calls /\ (Call(DMAcopy, "none") \/ Call(DMAchecksum, "none") \/ Call(getChecksum, "none"))
    \/ "pause" \in Calls /\ (Call(startPauseFrames, "none") \/ Call(stopPauseFrames, "none"))
    \/ "addMACtoTable" \in Calls /\ Call(addMACtoTable, "none")
    \/ "freeBufferSpace" \in Calls /\ FreeBufferSpace

\* Functions that go on once their accesses are made.
Continue == WaitForLink \/ FrameThere \/ FrameWritten \/ SpaceKnown

-----------------------------------------------------------------------------
(* The controller.                                                         *)

\* Bytes that may be written: "up to, but not including" what ERXRDPT points to.
Room == (ptr.ERXRDPT - ptr.ERXWRPT) % RX_LEN

\* A frame in memory: three cells of vector, its data, and four bytes of CRC.
DataCells(f) == (FrameSize(f) + 1) \div 2
Extent(f) == 6 + 2 * ((FrameSize(f) + 5) \div 2)

Receive(f) ==
    LET start == ptr.ERXWRPT
        next == (start + Extent(f)) % RX_LEN
        inMem(a) == LET offset == (a - start) % RX_LEN IN
                    CASE offset >= Extent(f) -> mem[a]
                      [] offset = 0 -> next
                      [] offset = 2 -> FrameSize(f) + 4
                      [] offset >= 6 /\ offset < 6 + 2 * DataCells(f) -> f
                      [] OTHER -> 0
    IN  /\ "RXEN" \in econ1
        /\ arrivals < MAX_FRAMES
        /\ Extent(f) <= Room
        /\ mem' = [a \in DOMAIN mem |-> inMem(a)]
        /\ ptr' = [ptr EXCEPT !.ERXWRPT = next]
        /\ epktcnt' = epktcnt + 1
        /\ arrivals' = arrivals + 1
        /\ UNCHANGED <<econ1, txmem, mii, driver, at, stray>>

\* The transmitter, or the DMA unit, is done.
Finish(bit) ==
    /\ bit \in econ1
    /\ econ1' = econ1 \ {bit}
    /\ UNCHANGED <<ptr, epktcnt, mem, txmem, mii, arrivals, driver, at, stray>>

\* What the transmitter puts on the wire.
OnWire == SubSeq(txmem, 2, ptr.ETXND - TX_BUF_ST + 1)

\* The PHY has answered, or its first scan is done.
PHYdone ==
    /\ mii' \in {mii \ {"NVALID"}, IF "SCAN" \in mii THEN mii ELSE {}}
    /\ mii' # mii
    /\ UNCHANGED <<econ1, ptr, epktcnt, mem, txmem, arrivals, driver, at, stray>>

ChipStep ==
    \/ \E f \in Frames : Receive(f)
    \/ Finish("TXRTS") \/ Finish("DMAST")
    \/ PHYdone

-----------------------------------------------------------------------------

\* After a reset, or with what a program left that was cut short in its setup:
\* the controller may have any bank selected.
NicInit ==
    /\ econ1 \in SUBSET BSEL
    /\ ptr = [ERDPT |-> 0, EWRPT |-> 0, ETXND |-> 0, ERXRDPT |-> 0, ERXWRPT |-> 0]
    /\ epktcnt = 0
    /\ mem = [a \in {n \in 0 .. RX_BUF_END : n % 2 = 0} |-> 0]
    /\ txmem = <<>>
    /\ mii = {}
    /\ arrivals = 0
    /\ lastBank = {}
    /\ npp = RX_BUF_ST
    /\ todo = NICsetup /\ fn = "NICsetup"
    /\ seen = NothingSeen
    /\ frameSize = 0
    /\ rx = <<>>
    /\ space = 0
    /\ at = "none"
    /\ stray = FALSE

\* Any program on the driver.
AnyCall ==
    \/ packetPending \/ getFrameSize \/ readFrame
    \/ \E b \in Frames : sendEthernetFrame(<<<<b>>>>)
    \/ OtherCall

NicNext == AccessStep \/ AnyCall \/ Continue \/ ChipStep

NicSpec == NicInit /\ [][NicNext]_nicVars

-----------------------------------------------------------------------------

\* "checkBank": the driver selects a bank only when its memory of the selected
\* one says so.  Whatever bank an earlier program left selected, and whatever the
\* functions called, each access reaches the register it names.
RightRegister == ~stray

\* "Now perform an atomic read on ERXWRPT": freeBufferSpace returns what was free
\* when it read EPKTCNT last, up to the odd byte that no frame can use.
SpaceExact ==
    [][fn = "freeBufferSpace" /\ fn' = "none" /\ seen.now = epktcnt
         => Room - space' \in {0, 1}]_nicVars

\* The first n frames of the controller's chain of frames from an address on.
Chain(address, n) ==
    LET start[k \in 0 .. n] == IF k = 0 THEN address ELSE Cell(start[k - 1])
    IN  [k \in 1 .. n |-> Data(start[k - 1] + 6, Cell(start[k - 1] + 2) - 4)]

Pending ==
    CASE at = "none" -> Chain(npp, epktcnt)
      [] at = "sized" -> <<Data(ptr.ERDPT, frameSize)>> \o Chain(npp, epktcnt - 1)
      [] at = "copied" -> Chain(npp, epktcnt - 1)

Fifo == INSTANCE FrameFifo WITH queue <- Pending, current <- rx,
            Contents <- {[k \in 1 .. DataCells(f) |-> f] : f \in Frames}

\* Frames reach packetHandler whole, in order and once each, although the
\* controller writes more of them at any time and memory is a ring.
FramesFifo == Fifo!Spec

=============================================================================
