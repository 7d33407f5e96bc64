------------------------- MODULE PacketHandlerProofs -------------------------
(***************************************************************************)
(* Proofs about the way of a frame: the register accesses of the driver    *)
(* (Enc28J60), for any sizes and any calls; the checksum of any message    *)
(* (Checksum); both in packetHandler; the frames packetHandler takes, which *)
(* are those of a queue (FrameFifo); and the space freeBufferSpace returns. *)
(***************************************************************************)
EXTENDS PacketHandler, NumberProofs, SequenceTheorems, TLAPS

-----------------------------------------------------------------------------
(* The register banks.                                                     *)

RegisterOps == {"write", "read", "set", "clear", "await"}

\* A register is named, and ECON1 is never given bank bits.
Safe(a) ==
    a.op \in RegisterOps =>
        /\ a.reg \in Registers
        /\ a.reg = "ECON1" /\ a.op \in {"write", "set"} => a.arg \cap BSEL = {}

\* A sequence of safe accesses.
Script(s) == \E S : s \in Seq(S) /\ \A a \in S : Safe(a)

LEMMA SafeScript ==
  ASSUME NEW S, NEW s \in Seq(S), \A a \in S : Safe(a)
  PROVE  Script(s)
BY DEF Script

LEMMA ScriptTail ==
  ASSUME NEW s, Script(s), s # <<>>
  PROVE  Safe(Head(s)) /\ Script(Tail(s))
<1>1. PICK S : s \in Seq(S) /\ \A a \in S : Safe(a)
  BY DEF Script
<1>2. Head(s) \in S /\ Tail(s) \in Seq(S)
  BY <1>1
<1> QED
  BY <1>1, <1>2 DEF Script

LEMMA ScriptConcat ==
  ASSUME NEW s, NEW t, Script(s), Script(t)
  PROVE  Script(s \o t)
<1>1. PICK S : s \in Seq(S) /\ \A a \in S : Safe(a)
  BY DEF Script
<1>2. PICK T : t \in Seq(T) /\ \A a \in T : Safe(a)
  BY DEF Script
<1>3. s \in Seq(S \cup T) /\ t \in Seq(S \cup T)
  BY <1>1, <1>2
<1>4. s \o t \in Seq(S \cup T)
  BY <1>3
<1>5. \A a \in S \cup T : Safe(a)
  BY <1>1, <1>2
<1> QED
  BY <1>4, <1>5 DEF Script

LEMMA EmptyScript == Script(<<>>)
<1> DEFINE S == {}
<1>1. <<>> \in Seq(S)
  OBVIOUS
<1>2. \A b \in S : Safe(b)
  OBVIOUS
<1> HIDE DEF S
<1> QED
  BY <1>1, <1>2 DEF Script

\* It leaves the frames in memory and their count alone.
Harmless(a) ==
    /\ a.op \in RegisterOps \cup {"WBM"}
    /\ a.op = "write" => a.reg \notin {"ERXST", "ERXRDPT"}
    /\ a.op = "set" => a.arg # {"PKTDEC"}
    /\ a.op = "read" /\ a.arg = "pkts" => a.reg = "EPKTCNT"

\* A sequence of safe and harmless accesses.
Calm(s) == \E S : s \in Seq(S) /\ \A a \in S : Safe(a) /\ Harmless(a)

LEMMA CalmIsScript ==
  ASSUME NEW s, Calm(s)
  PROVE  Script(s)
BY DEF Calm, Script

LEMMA CalmScript ==
  ASSUME NEW S, NEW s \in Seq(S), \A a \in S : Safe(a) /\ Harmless(a)
  PROVE  Calm(s)
BY DEF Calm

LEMMA CalmTail ==
  ASSUME NEW s, Calm(s), s # <<>>
  PROVE  Harmless(Head(s)) /\ Calm(Tail(s))
<1>1. PICK S : s \in Seq(S) /\ \A a \in S : Safe(a) /\ Harmless(a)
  BY DEF Calm
<1>2. Head(s) \in S /\ Tail(s) \in Seq(S)
  BY <1>1
<1> QED
  BY <1>1, <1>2 DEF Calm

LEMMA CalmConcat ==
  ASSUME NEW s, NEW t, Calm(s), Calm(t)
  PROVE  Calm(s \o t)
<1>1. PICK S : s \in Seq(S) /\ \A a \in S : Safe(a) /\ Harmless(a)
  BY DEF Calm
<1>2. PICK T : t \in Seq(T) /\ \A a \in T : Safe(a) /\ Harmless(a)
  BY DEF Calm
<1>3. s \in Seq(S \cup T) /\ t \in Seq(S \cup T)
  BY <1>1, <1>2
<1>4. s \o t \in Seq(S \cup T)
  BY <1>3
<1>5. \A a \in S \cup T : Safe(a) /\ Harmless(a)
  BY <1>1, <1>2
<1> QED
  BY <1>4, <1>5 DEF Calm

LEMMA EmptyCalm == Calm(<<>>)
<1> DEFINE S == {}
<1>1. <<>> \in Seq(S)
  OBVIOUS
<1>2. \A b \in S : Safe(b) /\ Harmless(b)
  OBVIOUS
<1> HIDE DEF S
<1> QED
  BY <1>1, <1>2 DEF Calm

LEMMA OneCalm ==
  ASSUME NEW a, Safe(a), Harmless(a)
  PROVE  Calm(<<a>>)
<1> DEFINE S == {a}
<1>1. <<a>> \in Seq(S)
  OBVIOUS
<1>2. \A b \in S : Safe(b) /\ Harmless(b)
  OBVIOUS
<1> HIDE DEF S
<1> QED
  BY <1>1, <1>2 DEF Calm

\* The bits of a register's bank are bank bits.
LEMMA GivenBank ==
  ASSUME NEW reg \in Registers
  PROVE  givenBank(reg) \subseteq BSEL
BY DEF givenBank, BSEL, Registers

\* With the driver's memory right, checkBank selects the register's bank.
LEMMA BankSelected ==
  ASSUME NEW reg \in Registers, econ1 \cap BSEL = lastBank
  PROVE  checkBank(reg) \cap BSEL = givenBank(reg)
<1>1. givenBank(reg) \subseteq BSEL
  BY GivenBank
<1>2. CASE givenBank(reg) = lastBank
  BY <1>2 DEF checkBank
<1>3. CASE givenBank(reg) # lastBank
  <2>1. checkBank(reg) = (econ1 \cup givenBank(reg)) \ (BSEL \ givenBank(reg))
    BY <1>3 DEF checkBank
  <2> QED
    BY <1>1, <2>1
<1> QED
  BY <1>2, <1>3

\* The first access of NICsetup is in bank 3, which the driver never takes for
\* selected already.
LEMMA FirstBankSelected ==
  ASSUME lastBank = {}
  PROVE  checkBank("ECOCON") \cap BSEL = givenBank("ECOCON")
<1>1. givenBank("ECOCON") = BSEL
  BY DEF givenBank, AllBanks, Bank0, Bank1, Bank2, Bank3
<1>2. "BSEL0" \in BSEL
  BY DEF BSEL
<1> QED
  BY <1>1, <1>2 DEF checkBank

-----------------------------------------------------------------------------
(* The functions are scripts of safe accesses.                             *)

LEMMA PHYScripts ==
  Calm(WritePHY) /\ Calm(ReadPHY)
<1>1. Calm(WritePHY)
  <2> DEFINE S == {Await("MISTAT", "BUSY"), Write("MIREGADR", 0), Write("MIWR", 0)}
  <2>1. \A a \in S : Safe(a) /\ Harmless(a)
    BY DEF Safe, Harmless, Await, Write, RegisterOps, Registers, Bank2, Bank3
  <2>2. WritePHY \in Seq(S)
    BY DEF WritePHY
  <2> QED
    BY <2>1, <2>2, CalmScript
<1>2. Calm(ReadPHY)
  <2> DEFINE S == {Await("MISTAT", "BUSY"), Write("MIREGADR", 0), Write("MICMD", {"MIIRD"}),
                   Write("MICMD", {}), Read("MIRDH", "any"), Read("MIRDL", "any")}
  <2>1. \A a \in S : Safe(a) /\ Harmless(a)
    BY DEF Safe, Harmless, Await, Write, Read, RegisterOps, Registers, Bank2, Bank3
  <2>2. ReadPHY \in Seq(S)
    BY DEF ReadPHY
  <2> QED
    BY <2>1, <2>2, CalmScript
<1> QED
  BY <1>1, <1>2

LEMMA PHYScanScripts ==
  Calm(StartPHYscan) /\ Calm(ReadPHYscan) /\ Calm(StopPHYscan)
<1>1. Calm(StartPHYscan)
  <2> DEFINE S == {Await("MISTAT", "BUSY"), Write("MIREGADR", 0), Write("MICMD", {"MIISCAN"}),
                   Await("MISTAT", "NVALID")}
  <2>1. \A a \in S : Safe(a) /\ Harmless(a)
    BY DEF Safe, Harmless, Await, Write, RegisterOps, Registers, Bank2, Bank3
  <2>2. StartPHYscan \in Seq(S)
    BY DEF StartPHYscan
  <2> QED
    BY <2>1, <2>2, CalmScript
<1>2. Calm(ReadPHYscan)
  <2> DEFINE S == {Read("MIRDH", "any"), Read("MIRDL", "any")}
  <2>1. \A a \in S : Safe(a) /\ Harmless(a)
    BY DEF Safe, Harmless, Read, RegisterOps, Registers, Bank2
  <2>2. ReadPHYscan \in Seq(S)
    BY DEF ReadPHYscan
  <2> QED
    BY <2>1, <2>2, CalmScript
<1>3. Calm(StopPHYscan)
  <2> DEFINE S == {Write("MICMD", {})}
  <2>1. \A a \in S : Safe(a) /\ Harmless(a)
    BY DEF Safe, Harmless, Write, RegisterOps, Registers, Bank2
  <2>2. StopPHYscan \in Seq(S)
    BY DEF StopPHYscan
  <2> QED
    BY <2>1, <2>2, CalmScript
<1> QED
  BY <1>1, <1>2, <1>3

\* DMAcopy clears bank bits only when checkBank has just selected bank 0.
LEMMA DMAScripts ==
  Calm(DMAcopy) /\ Calm(DMAchecksum) /\ Calm(getChecksum)
<1>1. Calm(DMAcopy)
  <2> DEFINE S == {Await("ECON1", "DMAST"), ClearBits("ECON1", {"CSUMEN", "BSEL1", "BSEL0"}),
                   Write("EDMAST", 0), Write("EDMAND", 0), Write("EDMADST", 0),
                   SetBits("ECON1", {"DMAST"})}
  <2>1. \A a \in S : Safe(a) /\ Harmless(a)
    BY DEF Safe, Harmless, Await, Write, SetBits, ClearBits, RegisterOps, Registers, AllBanks, Bank0, BSEL
  <2>2. DMAcopy \in Seq(S)
    BY DEF DMAcopy
  <2> QED
    BY <2>1, <2>2, CalmScript
<1>2. Calm(DMAchecksum)
  <2> DEFINE S == {Await("ECON1", "DMAST"), SetBits("ECON1", {"CSUMEN"}), Write("EDMAST", 0),
                   Write("EDMAND", 0), Await("ESTAT", "RXBUSY"), ClearBits("ECON1", {"RXEN"}),
                   SetBits("ECON1", {"DMAST"})}
  <2>1. \A a \in S : Safe(a) /\ Harmless(a)
    BY DEF Safe, Harmless, Await, Write, SetBits, ClearBits, RegisterOps, Registers, AllBanks, Bank0, BSEL
  <2>2. DMAchecksum \in Seq(S)
    BY DEF DMAchecksum
  <2> QED
    BY <2>1, <2>2, CalmScript
<1>3. Calm(getChecksum)
  <2> DEFINE S == {Await("ECON1", "DMAST"), SetBits("ECON1", {"RXEN"}), Read("EDMACS", "any")}
  <2>1. \A a \in S : Safe(a) /\ Harmless(a)
    BY DEF Safe, Harmless, Await, Read, SetBits, RegisterOps, Registers, AllBanks, Bank0, BSEL
  <2>2. getChecksum \in Seq(S)
    BY DEF getChecksum
  <2> QED
    BY <2>1, <2>2, CalmScript
<1> QED
  BY <1>1, <1>2, <1>3

LEMMA FilterScripts ==
  Calm(startPauseFrames) /\ Calm(stopPauseFrames) /\ Calm(addMACtoTable)
<1>1. Calm(startPauseFrames)
  <2> DEFINE S == {SetBits("EFLOCON", {"FCEN1"}), ClearBits("EFLOCON", {"FCEN0"})}
  <2>1. \A a \in S : Safe(a) /\ Harmless(a)
    BY DEF Safe, Harmless, SetBits, ClearBits, RegisterOps, Registers, Bank3
  <2>2. startPauseFrames \in Seq(S)
    BY DEF startPauseFrames
  <2> QED
    BY <2>1, <2>2, CalmScript
<1>2. Calm(stopPauseFrames)
  <2> DEFINE S == {SetBits("EFLOCON", {"FCEN1", "FCEN0"})}
  <2>1. \A a \in S : Safe(a) /\ Harmless(a)
    BY DEF Safe, Harmless, SetBits, RegisterOps, Registers, Bank3
  <2>2. stopPauseFrames \in Seq(S)
    BY DEF stopPauseFrames
  <2> QED
    BY <2>1, <2>2, CalmScript
<1>3. Calm(addMACtoTable)
  <2> DEFINE S == {SetBits("EHT", {"hash"})}
  <2>1. \A a \in S : Safe(a) /\ Harmless(a)
    BY DEF Safe, Harmless, SetBits, RegisterOps, Registers, Bank1
  <2>2. addMACtoTable \in Seq(S)
    BY DEF addMACtoTable
  <2> QED
    BY <2>1, <2>2, CalmScript
<1> QED
  BY <1>1, <1>2, <1>3

\* Concatenation of scripts is associative.
LEMMA ScriptsJoin ==
  ASSUME NEW s, NEW t, NEW u, Script(s), Script(t), Script(u)
  PROVE  (s \o t) \o u = s \o (t \o u)
<1>1. PICK S : s \in Seq(S)
  BY DEF Script
<1>2. PICK T : t \in Seq(T)
  BY DEF Script
<1>3. PICK U : u \in Seq(U)
  BY DEF Script
<1> DEFINE A == S \cup T \cup U
<1>4. s \in Seq(A) /\ t \in Seq(A) /\ u \in Seq(A)
  BY <1>1, <1>2, <1>3
<1> HIDE DEF A
<1> QED
  BY <1>4, ConcatAssociative

\* The accesses that set up the receive buffer, up to its last pointer.
SetupStart == <<Write("ECOCON", 0), Write("ERXST", RX_BUF_ST), Write("ERXWRPT", RX_BUF_ST),
                Write("ERXND", RX_BUF_END), Write("ERXRDPT", RX_BUF_END)>>

\* A harmless sequence may be cut off behind a script.
LEMMA CalmJoins ==
  ASSUME NEW s, NEW m, NEW c, Script(s), Calm(m), Calm(c)
  PROVE  Calm(m \o c) /\ (s \o m) \o c = s \o (m \o c)
<1>1. Script(m) /\ Script(c)
  BY CalmIsScript
<1> QED
  BY <1>1, CalmConcat, ScriptsJoin

\* NICsetup sets up the receive buffer first; the rest is harmless.
LEMMA SetupScript ==
  Script(SetupStart) /\ \E rest : Calm(rest) /\ NICsetup = SetupStart \o rest
<1> DEFINE Middle == <<Write("ETXST", TX_BUF_ST), Write("EIE", {"PKTIE", "LINKIE"}),
                       Write("EIR", {}), Write("ERXFCON", {"UCEN", "CRCEN", "BCEN", "MCEN"}),
                       Write("MACON2", {}), Write("MACON1", {"MARXEN", "TXPAUS", "RXPAUS"}),
                       Write("MACON3", {"PADCFG0", "TXCRCEN", "FRMLNEN", "FULDPX", "HFRMEN"}),
                       Write("MACON4", {"DEFER"}), Write("MABBIPG", 0), Write("MAIPG", 0),
                       Write("MAMXFL", 0), Write("MAADR", 0), Write("EPAUS", 0)>>
           Last == <<Write("ECON1", {"RXEN"}), Write("ECON2", {"AUTOINC"})>>
           W == WritePHY
<1>1. Script(SetupStart)
  <2> DEFINE S == {SetupStart[k] : k \in 1 .. 5}
  <2>1. \A k \in 1 .. 5 : Safe(SetupStart[k])
    BY DEF Safe, SetupStart, Write, RegisterOps, Registers, AllBanks, Bank0, Bank3
  <2>2. SetupStart \in Seq(S)
    BY DEF SetupStart
  <2>3. \A a \in S : Safe(a)
    BY <2>1
  <2> HIDE DEF S
  <2> QED
    BY <2>2, <2>3, SafeScript
<1>2. Calm(Middle)
  <2> DEFINE S == {Middle[k] : k \in 1 .. 13}
  <2>1. \A k \in 1 .. 13 : Safe(Middle[k]) /\ Harmless(Middle[k])
    BY DEF Safe, Harmless, Write, RegisterOps, Registers, AllBanks, Bank0, Bank1, Bank2, Bank3
  <2>2. Middle \in Seq(S)
    OBVIOUS
  <2>3. \A a \in S : Safe(a) /\ Harmless(a)
    BY <2>1
  <2> HIDE DEF Middle, S
  <2> QED
    BY <2>2, <2>3, CalmScript
<1>3. Calm(Last)
  <2> DEFINE S == {Write("ECON1", {"RXEN"}), Write("ECON2", {"AUTOINC"})}
  <2>1. \A a \in S : Safe(a) /\ Harmless(a)
    BY DEF Safe, Harmless, Write, RegisterOps, Registers, AllBanks, BSEL
  <2>2. Last \in Seq(S)
    OBVIOUS
  <2> HIDE DEF Last
  <2> QED
    BY <2>1, <2>2, CalmScript
<1> DEFINE First == <<Write("ECOCON", 0), Write("ERXST", RX_BUF_ST), Write("ERXWRPT", RX_BUF_ST),
                      Write("ERXND", RX_BUF_END), Write("ERXRDPT", RX_BUF_END),
                      Write("ETXST", TX_BUF_ST), Write("EIE", {"PKTIE", "LINKIE"}),
                      Write("EIR", {}), Write("ERXFCON", {"UCEN", "CRCEN", "BCEN", "MCEN"}),
                      Write("MACON2", {}), Write("MACON1", {"MARXEN", "TXPAUS", "RXPAUS"}),
                      Write("MACON3", {"PADCFG0", "TXCRCEN", "FRMLNEN", "FULDPX", "HFRMEN"}),
                      Write("MACON4", {"DEFER"}), Write("MABBIPG", 0), Write("MAIPG", 0),
                      Write("MAMXFL", 0), Write("MAADR", 0), Write("EPAUS", 0)>>
<1>4. NICsetup = (SetupStart \o Middle) \o W \o W \o W \o W \o Last
  <2>1. SetupStart \o Middle = First
    <3> DEFINE s == SetupStart
               S == {First[k] : k \in 1 .. 18}
    <3>1. s \in Seq(S) /\ Middle \in Seq(S) /\ First \in Seq(S)
      BY DEF SetupStart
    <3>2. Len(s) = 5 /\ Len(Middle) = 13 /\ Len(First) = 18
      BY DEF SetupStart
    <3>3. \A k \in 1 .. 5 : First[k] = s[k]
      BY DEF SetupStart
    <3>4. \A k \in 6 .. 18 : First[k] = Middle[k - 5]
      OBVIOUS
    <3> HIDE DEF S, s, Middle, First
    <3>5. /\ s \o Middle \in Seq(S) /\ Len(s \o Middle) = Len(s) + Len(Middle)
          /\ \A k \in 1 .. Len(s) + Len(Middle) :
                (s \o Middle)[k] = IF k <= Len(s) THEN s[k] ELSE Middle[k - Len(s)]
      BY <3>1, ConcatProperties
    <3>6. Len(s) + Len(Middle) = 18
      BY <3>2
    <3>7. ASSUME NEW k \in 1 .. 18 PROVE (s \o Middle)[k] = First[k]
      <4>1. (s \o Middle)[k] = IF k <= Len(s) THEN s[k] ELSE Middle[k - Len(s)]
        BY <3>5, <3>6
      <4>2. CASE k <= 5
        <5>1. k \in 1 .. 5
          BY <4>2
        <5> QED
          BY <3>2, <3>3, <4>1, <4>2, <5>1
      <4>3. CASE ~(k <= 5)
        <5>1. k \in 6 .. 18
          BY <4>3
        <5> QED
          BY <3>2, <3>4, <4>1, <4>3, <5>1
      <4> QED
        BY <4>2, <4>3
    <3> DEFINE v == s \o Middle
    <3>8. v \in Seq(S) /\ Len(v) = Len(First) /\ \A k \in 1 .. Len(v) : v[k] = First[k]
      BY <3>2, <3>5, <3>6, <3>7
    <3> HIDE DEF v
    <3>9. v = First
      BY <3>1, <3>8, SeqEqual
    <3> QED
      BY <3>9 DEF v, s
  <2>2. NICsetup = First \o W \o W \o W \o W \o Last
    BY DEF NICsetup
  <2> HIDE DEF First, Middle, W, Last
  <2> QED
    BY <2>1, <2>2
<1>5. Calm(W)
  BY PHYScripts
<1> DEFINE m1 == Middle \o W  m2 == m1 \o W  m3 == m2 \o W  m4 == m3 \o W  rest == m4 \o Last
<1> HIDE DEF Middle, Last, W
<1>6. Calm(m1) /\ (SetupStart \o Middle) \o W = SetupStart \o m1
  BY <1>1, <1>2, <1>5, CalmJoins
<1> HIDE DEF m1
<1>7. Calm(m2) /\ (SetupStart \o m1) \o W = SetupStart \o m2
  BY <1>1, <1>5, <1>6, CalmJoins
<1> HIDE DEF m2
<1>8. Calm(m3) /\ (SetupStart \o m2) \o W = SetupStart \o m3
  BY <1>1, <1>5, <1>7, CalmJoins
<1> HIDE DEF m3
<1>9. Calm(m4) /\ (SetupStart \o m3) \o W = SetupStart \o m4
  BY <1>1, <1>5, <1>8, CalmJoins
<1> HIDE DEF m4
<1>10. Calm(rest) /\ (SetupStart \o m4) \o Last = SetupStart \o rest
  BY <1>1, <1>3, <1>9, CalmJoins
<1> HIDE DEF rest
<1> QED
  BY <1>1, <1>4, <1>6, <1>7, <1>8, <1>9, <1>10

\* What the functions of packetHandler make up from what they have read.
LEMMA FrameScripts ==
  /\ Calm(<<Read("EPKTCNT", "pkts")>>)
  /\ Calm(<<Read("EREVID", "any")>>)
  /\ \A a : Script(<<Write("ERDPT", a), [op |-> "vector", reg |-> "none", arg |-> 0]>>)
  /\ \A n : Script(<<[op |-> "RBM", reg |-> "none", arg |-> n], Release, SetBits("ECON2", {"PKTDEC"})>>)
<1> USE DEF RegisterOps, Registers
<1>1. /\ Safe(Read("EPKTCNT", "pkts")) /\ Harmless(Read("EPKTCNT", "pkts"))
      /\ Safe(Read("EREVID", "any")) /\ Harmless(Read("EREVID", "any"))
  BY DEF Safe, Harmless, Read, Bank1, Bank3
<1>2. ASSUME NEW a
      PROVE  Script(<<Write("ERDPT", a), [op |-> "vector", reg |-> "none", arg |-> 0]>>)
  <2> DEFINE S == {Write("ERDPT", a), [op |-> "vector", reg |-> "none", arg |-> 0]}
             s == <<Write("ERDPT", a), [op |-> "vector", reg |-> "none", arg |-> 0]>>
  <2>1. \A b \in S : Safe(b)
    BY DEF Safe, Write, Bank0
  <2>2. s \in Seq(S)
    OBVIOUS
  <2> HIDE DEF S, s
  <2>3. Script(s)
    BY <2>1, <2>2, SafeScript
  <2> QED
    BY <2>3 DEF s
<1>3. ASSUME NEW n
      PROVE  Script(<<[op |-> "RBM", reg |-> "none", arg |-> n], Release, SetBits("ECON2", {"PKTDEC"})>>)
  <2> DEFINE S == {[op |-> "RBM", reg |-> "none", arg |-> n], Release, SetBits("ECON2", {"PKTDEC"})}
             s == <<[op |-> "RBM", reg |-> "none", arg |-> n], Release, SetBits("ECON2", {"PKTDEC"})>>
  <2>1. \A b \in S : Safe(b)
    BY DEF Safe, Write, SetBits, Release, AllBanks, Bank0
  <2>2. s \in Seq(S)
    OBVIOUS
  <2> HIDE DEF S, s
  <2>3. Script(s)
    BY <2>1, <2>2, SafeScript
  <2> QED
    BY <2>3 DEF s
<1> QED
  BY <1>1, <1>2, <1>3, OneCalm

LEMMA SendScripts ==
  ASSUME NEW blocks, Len(blocks) \in Nat
  PROVE  /\ Calm(<<Await("ECON1", "TXRTS"), Write("EWRPT", TX_BUF_ST), WriteBlock(<<0>>)>>
                   \o [k \in 1 .. Len(blocks) |-> WriteBlock(blocks[k])]
                   \o <<Read("EWRPT", "end")>>)
         /\ \A a : Calm(<<Write("ETXND", a), Await("ECON1", "DMAST"), ClearBits("EIR", {"TXIF"}),
                             SetBits("ECON1", {"TXRST"}), ClearBits("ECON1", {"TXRST"}),
                             SetBits("ECON1", {"TXRTS"})>>)
<1> USE DEF RegisterOps, Registers
<1> DEFINE First == <<Await("ECON1", "TXRTS"), Write("EWRPT", TX_BUF_ST), WriteBlock(<<0>>)>>
           Written == [k \in 1 .. Len(blocks) |-> WriteBlock(blocks[k])]
           Last == <<Read("EWRPT", "end")>>
<1>1. Calm(First)
  <2> DEFINE S == {Await("ECON1", "TXRTS"), Write("EWRPT", TX_BUF_ST), WriteBlock(<<0>>)}
  <2>1. \A b \in S : Safe(b) /\ Harmless(b)
    BY DEF Safe, Harmless, Await, Write, WriteBlock, AllBanks, Bank0
  <2>2. First \in Seq(S)
    OBVIOUS
  <2> HIDE DEF First
  <2> QED
    BY <2>1, <2>2, CalmScript
<1>2. Calm(Written)
  <2> DEFINE S == {WriteBlock(blocks[k]) : k \in 1 .. Len(blocks)}
  <2>1. \A b \in S : Safe(b) /\ Harmless(b)
    BY DEF Safe, Harmless, WriteBlock
  <2>2. Written \in Seq(S)
    OBVIOUS
  <2> HIDE DEF Written, S
  <2> QED
    BY <2>1, <2>2, CalmScript
<1>3. Calm(Last)
  <2>1. Safe(Read("EWRPT", "end")) /\ Harmless(Read("EWRPT", "end"))
    BY DEF Safe, Harmless, Read, Bank0
  <2> QED
    BY <2>1, OneCalm
<1>4. ASSUME NEW a
      PROVE  Calm(<<Write("ETXND", a), Await("ECON1", "DMAST"), ClearBits("EIR", {"TXIF"}),
                      SetBits("ECON1", {"TXRST"}), ClearBits("ECON1", {"TXRST"}),
                      SetBits("ECON1", {"TXRTS"})>>)
  <2> DEFINE S == {Write("ETXND", a), Await("ECON1", "DMAST"), ClearBits("EIR", {"TXIF"}),
                   SetBits("ECON1", {"TXRST"}), ClearBits("ECON1", {"TXRST"}),
                   SetBits("ECON1", {"TXRTS"})}
             s == <<Write("ETXND", a), Await("ECON1", "DMAST"), ClearBits("EIR", {"TXIF"}),
                    SetBits("ECON1", {"TXRST"}), ClearBits("ECON1", {"TXRST"}),
                    SetBits("ECON1", {"TXRTS"})>>
  <2>1. \A b \in S : Safe(b) /\ Harmless(b)
    BY DEF Safe, Harmless, Await, Write, SetBits, ClearBits, AllBanks, Bank0, BSEL
  <2>2. s \in Seq(S)
    OBVIOUS
  <2> HIDE DEF S, s
  <2>3. Calm(s)
    BY <2>1, <2>2, CalmScript
  <2> QED
    BY <2>3 DEF s
<1> HIDE DEF First, Written, Last
<1>5. Calm(First \o Written \o Last)
  BY <1>1, <1>2, <1>3, CalmConcat
<1> QED
  BY <1>4, <1>5 DEF First, Written, Last

LEMMA SpaceScripts ==
  ASSUME NEW reads \in ReadWritePointer
  PROVE  Calm(reads) /\ Calm(<<Read("ERXRDPT", "rdpt")>> \o reads)
<1> DEFINE S == {Read("EPKTCNT", "prev"), Read("ERXWRPTL", "wrL"), Read("ERXWRPTH", "wrH"),
                 Read("EPKTCNT", "now")}
<1>1. \A a \in S : Safe(a) /\ Harmless(a)
  BY DEF Safe, Harmless, Read, RegisterOps, Registers, Bank0, Bank1
<1>2. reads \in Seq(S)
  <2>1. CASE reads = <<Read("EPKTCNT", "prev"), Read("ERXWRPTL", "wrL"), Read("ERXWRPTH", "wrH"),
                       Read("EPKTCNT", "now")>>
    BY <2>1
  <2>2. CASE reads = <<Read("EPKTCNT", "prev"), Read("ERXWRPTH", "wrH"), Read("ERXWRPTL", "wrL"),
                       Read("EPKTCNT", "now")>>
    BY <2>2
  <2> QED
    BY <2>1, <2>2 DEF ReadWritePointer
<1>3. Calm(reads)
  BY <1>1, <1>2, CalmScript
<1>4. Safe(Read("ERXRDPT", "rdpt")) /\ Harmless(Read("ERXRDPT", "rdpt"))
  BY DEF Safe, Harmless, Read, RegisterOps, Registers, Bank0
<1> QED
  BY <1>3, <1>4, OneCalm, CalmConcat

\* The setup starts in bank 3.
LEMMA SetupHead == NICsetup # <<>> /\ Head(NICsetup) = Write("ECOCON", 0)
BY DEF NICsetup

-----------------------------------------------------------------------------
(* The driver remembers the bank.                                          *)

\* What is left of the running function is safe, and the driver's memory is
\* right, but for the time before the first access of NICsetup.
BankInv ==
    /\ Script(todo)
    /\ ~stray
    /\ \/ econ1 \cap BSEL = lastBank
       \/ lastBank = {} /\ todo # <<>> /\ Head(todo) = Write("ECOCON", 0)

\* An access of any kind selects the bank of its register.
LEMMA AccessRight ==
  ASSUME BankInv, NEW op \in RegisterOps, Access(op)
  PROVE  LET a == Head(todo) IN
         /\ Safe(a) /\ a.op = op /\ Script(Tail(todo)) /\ Script(todo)
         /\ checkBank(a.reg) \cap BSEL = lastBank'
         /\ a.reg = "ECON1" => lastBank' = {}
         /\ ~stray'
<1> DEFINE a == Head(todo)
<1>1. Safe(a) /\ Script(Tail(todo)) /\ a.op = op /\ a.reg \in Registers
  BY ScriptTail DEF BankInv, Access, Safe
<1>2. lastBank' = givenBank(a.reg)
  BY DEF Access
<1>3. checkBank(a.reg) \cap BSEL = givenBank(a.reg)
  <2>1. CASE econ1 \cap BSEL = lastBank
    BY <1>1, <2>1, BankSelected
  <2>2. CASE lastBank = {} /\ Head(todo) = Write("ECOCON", 0)
    BY <2>2, FirstBankSelected DEF Write
  <2> QED
    BY <2>1, <2>2 DEF BankInv
<1>4. a.reg = "ECON1" => givenBank(a.reg) = {}
  BY DEF givenBank, AllBanks, Bank0, Bank1, Bank2, Bank3
<1>5. ~stray'
  <2>1. Reached(a.reg, checkBank(a.reg))
    BY <1>3 DEF Reached
  <2>2. ~stray
    BY DEF BankInv
  <2>3. stray' = (stray \/ ~Reached(a.reg, checkBank(a.reg)))
    BY DEF Access
  <2> HIDE DEF a
  <2> QED
    BY <2>1, <2>2, <2>3, Zenon
<1> QED
  BY <1>1, <1>2, <1>3, <1>4, <1>5 DEF BankInv

LEMMA AccessKeeps ==
  ASSUME BankInv, AccessStep
  PROVE  BankInv'
<1> USE DEF RegisterOps
<1>1. CASE WriteReg
  <2> DEFINE a == Head(todo)
  <2>1. Access("write") /\ todo' = Tail(todo)
        /\ econ1' = IF a.reg = "ECON1" THEN a.arg ELSE checkBank(a.reg)
    BY <1>1 DEF WriteReg
  <2>2. /\ Safe(a) /\ a.op = "write" /\ Script(Tail(todo)) /\ ~stray'
        /\ checkBank(a.reg) \cap BSEL = lastBank'
        /\ a.reg = "ECON1" => lastBank' = {}
    BY <2>1, AccessRight
  <2>3. a.reg = "ECON1" => a.arg \cap BSEL = {}
    BY <2>2 DEF Safe
  <2> HIDE DEF a
  <2>4. econ1' \cap BSEL = lastBank'
    BY <2>1, <2>2, <2>3
  <2> QED
    BY <2>1, <2>2, <2>4 DEF BankInv
<1>2. CASE ReadReg
  <2>1. Access("read") /\ todo' = Tail(todo) /\ econ1' = checkBank(Head(todo).reg)
    BY <1>2 DEF ReadReg
  <2> QED
    BY <2>1, AccessRight DEF BankInv
<1>3. CASE SetRegBit
  <2> DEFINE a == Head(todo)
  <2>1. Access("set") /\ todo' = Tail(todo)
        /\ econ1' = checkBank(a.reg) \cup (IF a.reg = "ECON1" THEN a.arg ELSE {})
    BY <1>3 DEF SetRegBit
  <2>2. /\ Safe(a) /\ a.op = "set" /\ Script(Tail(todo)) /\ ~stray'
        /\ checkBank(a.reg) \cap BSEL = lastBank'
    BY <2>1, AccessRight
  <2>3. a.reg = "ECON1" => a.arg \cap BSEL = {}
    BY <2>2 DEF Safe
  <2> HIDE DEF a
  <2>4. econ1' \cap BSEL = lastBank'
    BY <2>1, <2>2, <2>3
  <2> QED
    BY <2>1, <2>2, <2>4 DEF BankInv
<1>4. CASE ClearRegBit
  <2> DEFINE a == Head(todo)
  <2>1. Access("clear") /\ todo' = Tail(todo)
        /\ econ1' = checkBank(a.reg) \ (IF a.reg = "ECON1" THEN a.arg ELSE {})
    BY <1>4 DEF ClearRegBit
  <2>2. /\ Script(Tail(todo)) /\ ~stray'
        /\ checkBank(a.reg) \cap BSEL = lastBank'
        /\ a.reg = "ECON1" => lastBank' = {}
    BY <2>1, AccessRight
  <2> HIDE DEF a
  <2>3. econ1' \cap BSEL = lastBank'
    BY <2>1, <2>2
  <2> QED
    BY <2>1, <2>2, <2>3 DEF BankInv
<1>5. CASE AwaitClear
  <2>1. Access("await") /\ todo' \in {todo, Tail(todo)} /\ econ1' = checkBank(Head(todo).reg)
    BY <1>5 DEF AwaitClear
  <2> QED
    BY <2>1, AccessRight DEF BankInv
<1>6. CASE ReadVector \/ readBuffer \/ writeBuffer
  <2>1. /\ todo # <<>> /\ Head(todo).op \in {"vector", "RBM", "WBM"}
        /\ todo' = Tail(todo) /\ UNCHANGED <<econ1, lastBank, stray>>
    BY <1>6 DEF ReadVector, readBuffer, writeBuffer
  <2>2. Head(todo) # Write("ECOCON", 0)
    BY <2>1 DEF Write
  <2>3. Script(Tail(todo))
    BY <2>1, ScriptTail DEF BankInv
  <2> QED
    BY <2>1, <2>2, <2>3 DEF BankInv
<1> QED
  BY <1>1, <1>2, <1>3, <1>4, <1>5, <1>6 DEF AccessStep

\* A function begins or goes on when no access is left to make.
LEMMA GoOnKeeps ==
  ASSUME BankInv, NEW from, NEW script, NEW to, GoOn(from, script, to), Script(script)
  PROVE  BankInv'
BY DEF BankInv, GoOn, chip

LEMMA CallKeeps ==
  ASSUME BankInv, NEW script, NEW to, Call(script, to), Script(script)
  PROVE  BankInv'
BY GoOnKeeps DEF Call

LEMMA OtherCallKeeps ==
  ASSUME BankInv, OtherCall
  PROVE  BankInv'
<1>1. CASE \/ Call(WritePHY, "none") \/ Call(ReadPHY, "none")
  BY <1>1, PHYScripts, CalmIsScript, CallKeeps
<1>2. CASE Call(StartPHYscan \o ReadPHYscan \o StopPHYscan, "none")
  <2>1. Script(StartPHYscan \o ReadPHYscan \o StopPHYscan)
    BY PHYScanScripts, CalmIsScript, CalmConcat
  <2> QED
    BY <1>2, <2>1, CallKeeps
<1>3. CASE Call(DMAcopy, "none") \/ Call(DMAchecksum, "none") \/ Call(getChecksum, "none")
  BY <1>3, DMAScripts, CalmIsScript, CallKeeps
<1>4. CASE \/ Call(startPauseFrames, "none") \/ Call(stopPauseFrames, "none")
           \/ Call(addMACtoTable, "none")
  BY <1>4, FilterScripts, CalmIsScript, CallKeeps
<1>5. CASE FreeBufferSpace
  <2>1. PICK reads \in ReadWritePointer :
          Call(<<Read("ERXRDPT", "rdpt")>> \o reads, "freeBufferSpace")
    BY <1>5 DEF FreeBufferSpace
  <2> QED
    BY <2>1, SpaceScripts, CalmIsScript, CallKeeps
<1> QED
  BY <1>1, <1>2, <1>3, <1>4, <1>5 DEF OtherCall

LEMMA SendKeeps ==
  ASSUME BankInv, NEW blocks, Len(blocks) \in Nat, sendEthernetFrame(blocks)
  PROVE  BankInv'
BY SendScripts, CalmIsScript, CallKeeps DEF sendEthernetFrame

LEMMA AnyCallKeeps ==
  ASSUME BankInv, AnyCall
  PROVE  BankInv'
<1>1. CASE packetPending
  BY <1>1, FrameScripts, CalmIsScript, CallKeeps DEF packetPending
<1>2. CASE getFrameSize
  BY <1>2, FrameScripts, CalmIsScript, CallKeeps DEF getFrameSize
<1>3. CASE readFrame
  BY <1>3, FrameScripts, CalmIsScript, CallKeeps DEF readFrame
<1>4. ASSUME NEW b \in Frames, sendEthernetFrame(<<<<b>>>>) PROVE BankInv'
  <2> DEFINE blocks == <<<<b>>>>
  <2>1. Len(blocks) \in Nat /\ sendEthernetFrame(blocks)
    BY <1>4
  <2> HIDE DEF blocks
  <2> QED
    BY <2>1, SendKeeps
<1>5. CASE OtherCall
  BY <1>5, OtherCallKeeps
<1> QED
  BY <1>1, <1>2, <1>3, <1>4, <1>5 DEF AnyCall

LEMMA ContinueKeeps ==
  ASSUME BankInv, Continue
  PROVE  BankInv'
<1>1. CASE WaitForLink
  BY <1>1, PHYScripts, FrameScripts, CalmIsScript, GoOnKeeps DEF WaitForLink
<1>2. CASE FrameThere
  <2> DEFINE script == IF seen.pkts = 0 THEN <<>>
                       ELSE <<Write("ERDPT", npp), [op |-> "vector", reg |-> "none", arg |-> 0]>>
  <2>1. Script(script)
    BY EmptyScript, FrameScripts
  <2>2. GoOn("getFrameSize", script, "none")
    BY <1>2 DEF FrameThere
  <2> HIDE DEF script
  <2> QED
    BY <2>1, <2>2, GoOnKeeps
<1>3. CASE FrameWritten
  <2> DEFINE script == <<Write("ETXND", seen.end - 1), Await("ECON1", "DMAST"),
                         ClearBits("EIR", {"TXIF"}), SetBits("ECON1", {"TXRST"}),
                         ClearBits("ECON1", {"TXRST"}), SetBits("ECON1", {"TXRTS"})>>
  <2>1. Script(script)
    <3>1. Len(<<>>) \in Nat
      OBVIOUS
    <3> QED
      BY <3>1, SendScripts, CalmIsScript
  <2>2. GoOn("sendEthernetFrame", script, "none")
    BY <1>3 DEF FrameWritten
  <2> HIDE DEF script
  <2> QED
    BY <2>1, <2>2, GoOnKeeps
<1>4. CASE SpaceKnown
  BY <1>4, EmptyScript, SpaceScripts, CalmIsScript, GoOnKeeps DEF SpaceKnown
<1> QED
  BY <1>1, <1>2, <1>3, <1>4 DEF Continue

\* The controller changes no bank bits of its own.
LEMMA ChipKeeps ==
  ASSUME BankInv, ChipStep
  PROVE  BankInv'
<1>1. ASSUME NEW bit \in {"TXRTS", "DMAST"}, Finish(bit) PROVE BankInv'
  <2>1. econ1' = econ1 \ {bit} /\ UNCHANGED <<todo, lastBank, stray>>
    BY <1>1 DEF Finish, driver
  <2>2. bit \notin BSEL
    BY DEF BSEL
  <2> QED
    BY <2>1, <2>2 DEF BankInv
<1>2. ASSUME NEW f \in Frames, Receive(f) PROVE BankInv'
  BY <1>2 DEF Receive, driver, BankInv
<1>3. CASE PHYdone
  BY <1>3 DEF PHYdone, driver, BankInv
<1> QED
  BY <1>1, <1>2, <1>3 DEF ChipStep

\* The setup's script is safe and its first access selects a bank.
LEMMA BankInit == NicInit => BankInv
<1> SUFFICES ASSUME NicInit PROVE BankInv
  OBVIOUS
<1>1. todo = NICsetup /\ lastBank = {} /\ stray = FALSE
  BY DEF NicInit
<1>2. NICsetup # <<>> /\ Head(NICsetup) = Write("ECOCON", 0)
  BY SetupHead
<1>3. Script(NICsetup)
  BY SetupScript, CalmIsScript, ScriptConcat
<1> QED
  BY <1>1, <1>2, <1>3 DEF BankInv

LEMMA BankStep == BankInv /\ [NicNext]_nicVars => BankInv'
<1> SUFFICES ASSUME BankInv, [NicNext]_nicVars PROVE BankInv'
  OBVIOUS
<1>1. CASE UNCHANGED nicVars
  BY <1>1 DEF nicVars, chip, driver, BankInv
<1> QED
  BY <1>1, AccessKeeps, AnyCallKeeps, ContinueKeeps, ChipKeeps DEF NicNext

\* Each access reaches the register it names, since the driver's memory of the
\* selected bank is right from the first access on, which is one that selects.
THEOREM AccessesReach == NicSpec => []RightRegister
<1>1. BankInv => RightRegister
  BY DEF BankInv, RightRegister
<1> QED
  BY BankInit, BankStep, <1>1, PTL DEF NicSpec

-----------------------------------------------------------------------------
(* The checksum.                                                           *)

\* Every byte of memory that is read is a byte, so each word has 16 bits.
LEMMA WordRange ==
  ASSUME SumTypeInv, current > 0
  PROVE  Word \in Under(65536)
<1>1. X \in Nat /\ buffers \in Seq(Buffer) /\ current \in 1 .. Len(buffers)
  BY DEF SumTypeInv
<1>2. buffers[current] \in Buffer
  BY <1>1
<1>3. ASSUME NEW n \in Nat PROVE At(n) \in Byte
  BY <1>2 DEF At, Buffer
<1>4. At(X) \in Byte /\ At(X + 1) \in Byte
  BY <1>1, <1>3
<1> QED
  BY <1>4 DEF Word, Byte, Under

\* Adding a word with the carry around keeps the sum modulo 65535, and leaves 0
\* only when 0 was added to 0.
LEMMA EndAroundExact ==
  ASSUME NEW a \in Under(65536), NEW w \in Under(65536)
  PROVE  /\ EndAround(a + w) \in Under(65536)
         /\ EndAround(a + w) = 0 <=> a = 0 /\ w = 0
         /\ EndAround(a + w) = a + w \/ EndAround(a + w) = a + w - 65535
<1>1. CASE a + w < 65536
  <2>1. EndAround(a + w) = a + w
    BY <1>1 DEF EndAround, Under
  <2> QED
    BY <1>1, <2>1 DEF Under
<1>2. CASE a + w >= 65536
  <2>1. EndAround(a + w) = a + w - 65535
    BY <1>2 DEF EndAround, Under
  <2> QED
    BY <1>2, <2>1 DEF Under
<1> QED
  BY <1>1, <1>2 DEF Under

LEMMA SumTypeStep == SumTypeInv /\ [SumStep]_sumVars => SumTypeInv'
<1> SUFFICES ASSUME SumTypeInv, [SumStep]_sumVars PROVE SumTypeInv'
  OBVIOUS
<1>1. CASE checksumUpdate
  <2>1. Entry(Len(buffers[current + 1].data)) \in Blocks \cup {"zeroLeftover"}
    <3>1. buffers[current + 1] \in Buffer
      <4>1. buffers \in Seq(Buffer) /\ current + 1 \in 1 .. Len(buffers)
        BY <1>1 DEF checksumUpdate, SumTypeInv
      <4> QED
        BY <4>1
    <3> DEFINE n == Len(buffers[current + 1].data)
    <3>2. n \in Nat
      BY <3>1 DEF Buffer
    <3> HIDE DEF n
    <3>3. (n \div 2) % 4 \in {0, 1, 2, 3}
      BY <3>2
    <3>4. Entry(n) \in Blocks \cup {"zeroLeftover"}
      BY <3>3 DEF Entry, Blocks
    <3> QED
      BY <3>4 DEF n
  <2> QED
    BY <1>1, <2>1 DEF checksumUpdate, SumTypeInv
<1>2. CASE AddWord
  <2>1. current > 0
    BY <1>2 DEF AddWord, SumTypeInv, Blocks
  <2>2. Word \in Under(65536)
    BY <2>1, WordRange
  <2>3. EndAround(acc + Word) \in Under(65536)
    BY <2>2, EndAroundExact DEF SumTypeInv
  <2>4. After(label) \in Blocks \cup {"zeroLeftover"}
    BY <1>2 DEF AddWord, After, Blocks
  <2> QED
    BY <1>2, <2>1, <2>2, <2>3, <2>4 DEF AddWord, SumTypeInv, Under
<1>3. CASE Compare
  BY <1>3 DEF Compare, SumTypeInv, Blocks
<1>4. CASE UNCHANGED sumVars
  BY <1>4 DEF sumVars, SumTypeInv
<1> QED
  BY <1>1, <1>2, <1>3, <1>4 DEF SumStep

\* The loop keeps its types: in particular the sum stays within 16 bits and no
\* jump leaves the loop's blocks.
THEOREM SumTypeCorrect == SumSpec => []SumTypeInv
<1>1. SumInit => SumTypeInv
  BY MessageAssumption DEF SumInit, SumTypeInv, Under
<1> QED
  BY <1>1, SumTypeStep, PTL DEF SumSpec

LEMMA ContextStep == SumTypeInv /\ ContextExact /\ [SumStep]_sumVars => ContextExact'
<1> SUFFICES ASSUME SumTypeInv, ContextExact, [SumStep]_sumVars PROVE ContextExact'
  OBVIOUS
<1>1. CASE AddWord
  <2> DEFINE w == Word
  <2>1. current > 0
    BY <1>1 DEF AddWord, SumTypeInv, Blocks
  <2>2. w \in Under(65536)
    BY <2>1, WordRange
  <2> HIDE DEF w
  <2>3. acc \in Under(65536) /\ total \in Nat
    BY DEF SumTypeInv
  <2>4. acc' = EndAround(acc + w) /\ total' = total + w
    BY <1>1 DEF AddWord, w
  <2>5. /\ acc' = 0 <=> acc = 0 /\ w = 0
        /\ acc' = acc + w \/ acc' = acc + w - 65535
    BY <2>2, <2>3, <2>4, EndAroundExact
  <2>6. acc' \in Int /\ total' \in Int
    BY <2>2, <2>3, <2>4, <2>5 DEF Under
  <2>7. (total' - acc') % 65535 = 0
    BY <2>2, <2>3, <2>4, <2>5 DEF ContextExact, Under
  <2>8. total' = 0 <=> total = 0 /\ w = 0
    BY <2>2, <2>3, <2>4 DEF Under
  <2> QED
    BY <2>5, <2>7, <2>8 DEF ContextExact
<1>2. CASE checksumUpdate \/ Compare \/ UNCHANGED sumVars
  BY <1>2 DEF checksumUpdate, Compare, sumVars, ContextExact
<1> QED
  BY <1>1, <1>2 DEF SumStep

\* The running context is the sum so far modulo 65535, with the one zero that
\* one's complement has for a sum that is not 0.
THEOREM ContextIsSum == SumSpec => []ContextExact
<1>1. SumInit => ContextExact
  BY DEF SumInit, ContextExact
<1> QED
  BY <1>1, ContextStep, SumTypeCorrect, PTL DEF SumSpec

-----------------------------------------------------------------------------

\* How many bytes of the buffer are left, modulo the bytes of a round, where
\* each block starts; and that the words of its round are there.
LeftAt(n, x, block) ==
    /\ x <= n
    /\ block = "zeroLeftover" => (n - x) % 8 = 0
    /\ block = "oneLeftover" => (n - x) % 8 = 2
    /\ block = "twoLeftover" => (n - x) % 8 = 4
    /\ block = "threeLeftover" => (n - x) % 8 = 6
    /\ block = "addLoop" => (n - x) % 8 = 0 /\ x < n
    /\ block = "ret" => x = n

LoopInv == EvenBuffers /\ current > 0 => LeftAt(Len(buffers[current].data), X, label)

LEMMA LoopStep == SumTypeInv /\ LoopInv /\ [SumStep]_sumVars => LoopInv'
<1> SUFFICES ASSUME SumTypeInv, LoopInv, [SumStep]_sumVars, EvenBuffers', current' > 0
             PROVE  LeftAt(Len(buffers'[current'].data), X', label')
  BY DEF LoopInv
<1>1. buffers' = buffers /\ EvenBuffers
  BY DEF SumStep, checksumUpdate, AddWord, Compare, sumVars, EvenBuffers
<1> DEFINE n == Len(buffers'[current'].data)
<1>2. n \in Nat /\ n % 2 = 0
  <2>1. buffers \in Seq(Buffer) /\ current' \in 1 .. Len(buffers)
    BY <1>1 DEF SumTypeInv, SumStep, checksumUpdate, AddWord, Compare, sumVars
  <2>2. buffers[current'] \in Buffer
    BY <2>1
  <2>3. Len(buffers[current'].data) \in Nat
    BY <2>2 DEF Buffer
  <2> QED
    BY <1>1, <2>1, <2>3 DEF EvenBuffers
<1>3. X \in Nat
  BY DEF SumTypeInv
<1>4. ASSUME current' = current, current > 0 PROVE LeftAt(n, X, label)
  BY <1>1, <1>4 DEF LoopInv
<1> HIDE DEF n
<1> SUFFICES LeftAt(n, X', label')
  BY DEF n
<1>5. CASE checksumUpdate
  <2>1. X' = 0 /\ label' = Entry(n)
    BY <1>1, <1>5 DEF checksumUpdate, n
  <2>2. (n \div 2) % 4 \in {0, 1, 2, 3} /\ n % 8 = 2 * ((n \div 2) % 4)
    BY <1>2
  <2> QED
    BY <1>2, <2>1, <2>2 DEF Entry, LeftAt
<1>6. CASE AddWord
  <2>1. current' = current /\ current > 0
    BY <1>6 DEF AddWord, SumTypeInv, Blocks
  <2>2. LeftAt(n, X, label)
    BY <1>4, <2>1
  <2>3. X' = X + 2 /\ label' = After(label) /\ label \in Blocks
    BY <1>6 DEF AddWord
  <2>4. \A left \in Nat :
          /\ left % 8 = 0 /\ left > 0 => left >= 8 /\ (left - 2) % 8 = 6
          /\ left % 8 = 6 => left >= 6 /\ (left - 2) % 8 = 4
          /\ left % 8 = 4 => left >= 4 /\ (left - 2) % 8 = 2
          /\ left % 8 = 2 => left >= 2 /\ (left - 2) % 8 = 0
    OBVIOUS
  <2>5. n - X \in Nat /\ n - X' = (n - X) - 2
    BY <1>2, <1>3, <2>2, <2>3 DEF LeftAt
  <2>6. CASE label = "addLoop"
    BY <1>2, <1>3, <2>2, <2>3, <2>4, <2>5, <2>6 DEF After, LeftAt
  <2>7. CASE label = "threeLeftover"
    BY <1>2, <1>3, <2>2, <2>3, <2>4, <2>5, <2>7 DEF After, LeftAt
  <2>8. CASE label = "twoLeftover"
    BY <1>2, <1>3, <2>2, <2>3, <2>4, <2>5, <2>8 DEF After, LeftAt
  <2>9. CASE label = "oneLeftover"
    BY <1>2, <1>3, <2>2, <2>3, <2>4, <2>5, <2>9 DEF After, LeftAt
  <2> QED
    BY <2>3, <2>6, <2>7, <2>8, <2>9 DEF Blocks
<1>7. CASE Compare
  <2>1. current' = current /\ current > 0
    BY <1>7 DEF Compare, SumTypeInv, Blocks
  <2>2. LeftAt(n, X, label)
    BY <1>4, <2>1
  <2>3. X' = X /\ label = "zeroLeftover" /\ label' = IF X < n THEN "addLoop" ELSE "ret"
    BY <1>1, <1>7 DEF Compare, n
  <2> QED
    BY <1>2, <1>3, <2>2, <2>3 DEF LeftAt
<1>8. CASE UNCHANGED sumVars
  BY <1>4, <1>8 DEF sumVars, LeftAt, SumTypeInv
<1> QED
  BY <1>5, <1>6, <1>7, <1>8 DEF SumStep

\* Entered in the middle, the loop reads each word of a buffer of even length
\* and nothing behind it, however long the buffer.
THEOREM ReadsExactly == SumSpec => []ReadsItsData
<1>1. SumInit => LoopInv
  BY DEF SumInit, LoopInv
<1>2. LoopInv => ReadsItsData
  BY DEF LoopInv, LeftAt, ReadsItsData
<1> QED
  BY <1>1, <1>2, LoopStep, SumTypeCorrect, PTL DEF SumSpec

-----------------------------------------------------------------------------
(* Both in packetHandler.                                                  *)

\* A message of bytes is given to checksumUpdate, or the last one is dropped.
NewSum ==
    /\ buffers' \in Seq(Buffer)
    /\ current' = 0 /\ X' = 0 /\ label' = "ret" /\ acc' = 0 /\ total' = 0

LEMMA SumIsNew ==
  ASSUME NEW data \in Seq(Byte), Sum(data)
  PROVE  NewSum
<1>1. PICK after \in MemoryAfter : buffers' = <<[data |-> data, after |-> after]>>
  BY DEF Sum
<1>2. [data |-> data, after |-> after] \in Buffer
  BY EchoAssumption DEF Buffer
<1> QED
  BY <1>1, <1>2 DEF Sum, NewSum

\* Of all steps of packetHandler these are the ones that matter to a checksum.
LEMMA HandlerSums ==
  ASSUME [Next]_vars
  PROVE  [SumStep]_sumVars \/ NewSum
<1>1. CASE Enter \/ NonePending \/ SizeOfFrame \/ SizeKnown \/ OtherFrame \/ Sent
  BY <1>1 DEF Enter, NonePending, SizeOfFrame, SizeKnown, OtherFrame, Sent, Forget
<1>2. CASE ICMPv4processor
  <2>1. rx[1] \in DOMAIN Echo /\ Sum(reply')
        /\ reply' = <<0, 0, 0, 0>> \o SubSeq(Echo[rx[1]], 5, Len(Echo[rx[1]]))
    BY <1>2 DEF ICMPv4processor
  <2> DEFINE echo == Echo[rx[1]]
  <2>2. echo \in Seq(Byte)
    BY <2>1, EchoAssumption
  <2> HIDE DEF echo
  <2>3. SubSeq(echo, 5, Len(echo)) \in Seq(Byte)
    <3>1. \A k \in 5 .. Len(echo) : echo[k] \in Byte
      BY <2>2, ElementOfSeq, LenProperties
    <3>2. Len(echo) \in Int
      BY <2>2, LenProperties
    <3> QED
      BY <3>1, <3>2, SubSeqProperties
  <2>4. <<0, 0, 0, 0>> \in Seq(Byte)
    BY DEF Byte, Under
  <2>5. reply' \in Seq(Byte)
    BY <2>1, <2>3, <2>4, ConcatProperties DEF echo
  <2> QED
    BY <2>1, <2>5, SumIsNew
<1>3. CASE checksumRuns
  BY <1>3 DEF checksumRuns
<1>4. CASE sendIPv4packet
  <2>1. Sum(packet') /\ packet' = IP_HEADER
    BY <1>4 DEF sendIPv4packet
  <2> QED
    BY <2>1, EchoAssumption, SumIsNew
<1>5. CASE NoRouter \/ SendPacket
  BY <1>5, EmptySeq DEF NoRouter, SendPacket, NoSum, NewSum
<1>6. CASE \/ Elsewhere
           \/ (AccessStep \/ Continue) /\ UNCHANGED <<sumVars, handlerVars>>
           \/ ChipStep /\ UNCHANGED <<sumVars, pc, reply, packet, routerMAC>>
           \/ UNCHANGED vars
  BY <1>6 DEF Elsewhere, vars
<1> QED
  BY <1>1, <1>2, <1>3, <1>4, <1>5, <1>6 DEF Next

LEMMA HandlerTypes == Spec => []SumTypeInv
<1>1. Init => SumTypeInv
  BY MessageAssumption DEF Init, SumInit, SumTypeInv, Under
<1>2. SumTypeInv /\ [Next]_vars => SumTypeInv'
  <2>1. NewSum => SumTypeInv'
    BY LenProperties DEF NewSum, SumTypeInv, Under
  <2> QED
    BY <2>1, HandlerSums, SumTypeStep
<1> QED
  BY <1>1, <1>2, PTL DEF Spec

\* The checksums of every reply, and of the header before it, are exact sums,
\* whatever is asked and whatever lies behind it in memory.
THEOREM HandlerContexts == Spec => []ContextExact
<1>1. Init => ContextExact
  BY DEF Init, SumInit, ContextExact
<1>2. SumTypeInv /\ ContextExact /\ [Next]_vars => ContextExact'
  <2>1. NewSum => ContextExact'
    BY DEF NewSum, ContextExact
  <2> QED
    BY <2>1, HandlerSums, ContextStep
<1> QED
  BY <1>1, <1>2, HandlerTypes, PTL DEF Spec

\* No checksum is read beyond its message, if that is of even length.
THEOREM HandlerReads == Spec => []ReadsItsData
<1>1. Init => LoopInv
  BY DEF Init, SumInit, LoopInv
<1>2. SumTypeInv /\ LoopInv /\ [Next]_vars => LoopInv'
  <2>1. NewSum => LoopInv'
    BY DEF NewSum, LoopInv
  <2> QED
    BY <2>1, HandlerSums, LoopStep
<1>3. LoopInv => ReadsItsData
  BY DEF LoopInv, LeftAt, ReadsItsData
<1> QED
  BY <1>1, <1>2, <1>3, HandlerTypes, PTL DEF Spec

\* All the accesses of packetHandler, and of what is called between its turns,
\* reach their registers.
THEOREM HandlerAccessesReach == Spec => []RightRegister
<1>1. Init => BankInv
  BY BankInit DEF Init
<1>2. BankInv /\ [Next]_vars => BankInv'
  <2> SUFFICES ASSUME BankInv, [Next]_vars PROVE BankInv'
    OBVIOUS
  <2>1. ASSUME UNCHANGED nicVars PROVE BankInv'
    BY <2>1, BankStep
  <2>2. CASE Enter \/ SizeOfFrame \/ OtherFrame \/ Sent \/ NoRouter
    <3>1. packetPending \/ getFrameSize
      BY <2>2 DEF Enter, SizeOfFrame, OtherFrame, Sent, NoRouter
    <3> QED
      BY <3>1, AnyCallKeeps DEF AnyCall
  <2>3. CASE SizeKnown
    <3>1. UNCHANGED nicVars \/ readFrame
      BY <2>3 DEF SizeKnown
    <3> QED
      BY <2>1, <3>1, AnyCallKeeps DEF AnyCall
  <2>4. CASE SendPacket
    <3> DEFINE blocks == <<ETHERNET, WithChecksum(packet, 11, acc), reply>>
    <3>1. sendEthernetFrame(blocks) /\ Len(blocks) \in Nat
      BY <2>4 DEF SendPacket
    <3> HIDE DEF blocks
    <3> QED
      BY <3>1, SendKeeps
  <2>5. CASE NonePending \/ ICMPv4processor \/ checksumRuns \/ sendIPv4packet \/ UNCHANGED vars
    BY <2>1, <2>5 DEF NonePending, ICMPv4processor, checksumRuns, sendIPv4packet, vars
  <2>6. CASE Elsewhere
    BY <2>6, OtherCallKeeps DEF Elsewhere
  <2>7. CASE AccessStep \/ Continue
    BY <2>7, AccessKeeps, ContinueKeeps
  <2>8. CASE ChipStep
    BY <2>8, ChipKeeps
  <2> QED
    BY <2>2, <2>3, <2>4, <2>5, <2>6, <2>7, <2>8 DEF Next
<1>3. BankInv => RightRegister
  BY DEF BankInv, RightRegister
<1> QED
  BY <1>1, <1>2, <1>3, PTL DEF Spec

-----------------------------------------------------------------------------
(* Frames in the receive buffer.  The proof speaks of positions, which only *)
(* grow, where the controller speaks of their places in the ring.           *)

Position == {p \in Nat : p % 2 = 0}
Place(p) == p % RX_LEN
Addresses == {n \in 0 .. RX_BUF_END : n % 2 = 0}

\* What a frame holds, and what the frames of a sequence hold.
Content(f) == [k \in 1 .. DataCells(f) |-> f]
Held(w) == [k \in 1 .. Len(w) |-> Content(w[k])]

\* Memory m holds frame f, vector and data, from position p on.
Holds(m, p, f) ==
    /\ m[Place(p)] = Place(p + Extent(f))
    /\ m[Place(p + 2)] = FrameSize(f) + 4
    /\ \A k \in 1 .. DataCells(f) : m[Place(p + (6 + 2 * (k - 1)))] = f

\* Memory m holds the frames of w, one behind the other, the i-th from position
\* s[i] on.
Stored(w, s, m) ==
    /\ s \in [1 .. Len(w) + 1 -> Position]
    /\ \A i \in 1 .. Len(w) : s[i + 1] = s[i] + Extent(w[i]) /\ Holds(m, s[i], w[i])
    /\ \A i, j \in 1 .. Len(w) + 1 : i <= j => s[i] <= s[j]

\* They lie between position base, which the controller does not reach, and
\* where the controller writes, less than the ring apart.
Ring(w, s, base) ==
    /\ mem \in [Addresses -> Nat]
    /\ DOMAIN ptr = Pointers /\ "pkts" \in DOMAIN seen
    /\ Stored(w, s, mem)
    /\ base \in Position /\ base <= s[1] /\ s[Len(w) + 1] < base + RX_LEN
    /\ ptr.ERXWRPT = Place(s[Len(w) + 1])

Guarded(base) == ptr.ERXRDPT = Place(base + (RX_LEN - 1))

Vector == [op |-> "vector", reg |-> "none", arg |-> 0]
CopyFrame == [op |-> "RBM", reg |-> "none", arg |-> frameSize]
CountOff == SetBits("ECON2", {"PKTDEC"})

\* The accesses of SetupStart from the k-th on.
SetupFrom(k) == SubSeq(SetupStart, k, 5)

\* NICsetup has not set up the buffer yet.
Setting(w) ==
    /\ pc = "setup" /\ fn = "NICsetup" /\ "RXEN" \notin econ1
    /\ w = <<>> /\ npp = 0 /\ epktcnt = 0 /\ at = "none" /\ seen.pkts = 0
    /\ ptr.ERXWRPT = 0
    /\ \E k \in 1 .. 5 : \E rest : Calm(rest) /\ todo = SetupFrom(k) \o rest

\* No frame is at hand, and what runs leaves the frames alone.
Quiet(w, s, base) ==
    /\ at = "none" /\ Calm(todo)
    /\ base = s[1] /\ npp = Place(s[1]) /\ epktcnt = Len(w) /\ seen.pkts \in 0 .. epktcnt
    /\ fn = "getFrameSize" => pc = "size"
    /\ pc = "size" => fn = "getFrameSize" \/ (fn = "none" /\ todo = <<>> /\ frameSize = 0)

\* The vector of the first frame is about to be read.
VectorWaits(w, s, base) ==
    /\ at = "none" /\ pc = "size" /\ fn = "none" /\ seen.pkts = 0
    /\ w # <<>> /\ base = s[1] /\ npp = Place(s[1]) /\ epktcnt = Len(w)
    /\ \/ todo = <<Write("ERDPT", npp), Vector>>
       \/ todo = <<Vector>> /\ ptr.ERDPT = npp

\* The vector was read, the data was not.
Sized(w, s, base) ==
    /\ at = "sized" /\ fn = "none" /\ seen.pkts = 0
    /\ w # <<>> /\ base = s[1] /\ npp = Place(s[2]) /\ epktcnt = Len(w)
    /\ ptr.ERDPT = Place(s[1] + 6) /\ frameSize = FrameSize(Head(w))
    /\ \/ pc = "size" /\ todo = <<>>
       \/ pc = "frame" /\ todo = <<CopyFrame, Release, CountOff>>

\* The data was read; the frame is not counted off.
Copied(w, s, base) ==
    /\ at = "copied" /\ pc = "frame" /\ fn = "none" /\ seen.pkts = 0
    /\ npp = Place(s[1]) /\ epktcnt = Len(w) + 1
    /\ \/ todo = <<Release, CountOff>>
       \/ todo = <<CountOff>> /\ base = s[1]

Phase(w, s, base) ==
    \/ Setting(w)
    \/ Guarded(base) /\ (Quiet(w, s, base) \/ VectorWaits(w, s, base)
                         \/ Sized(w, s, base) \/ Copied(w, s, base))

\* The frames of w are those accepted and not handed over.
QueueIs(w) == w \in Seq(Frames) /\ \E s, base : Ring(w, s, base) /\ Phase(w, s, base)

\* What a step does to them: nothing, one arrives, or the first is handed over.
Moves(w, v) ==
    \/ v = w /\ rx' = rx
    \/ \E f \in Frames : v = Append(w, f) /\ rx' = rx
    \/ w # <<>> /\ v = Tail(w) /\ rx' = Content(Head(w))

LEMMA RingSize == RX_LEN \in Nat \ {0} /\ RX_LEN % 2 = 0
BY BufferAssumption DEF RX_LEN

LEMMA Extents ==
  ASSUME NEW f \in Frames
  PROVE  /\ f \in Nat /\ FrameSize(f) \in Nat \ {0} /\ DataCells(f) \in Nat
         /\ Extent(f) \in Nat /\ Extent(f) % 2 = 0 /\ 6 + 2 * DataCells(f) <= Extent(f)
<1> DEFINE n == FrameSize(f)
<1>1. f \in Nat /\ n \in Nat \ {0}
  BY FrameAssumption
<1> HIDE DEF n
<1> DEFINE c == (n + 1) \div 2  x == (n + 5) \div 2
<1>2. c \in Nat /\ x \in Nat /\ c + 2 = x
  BY <1>1
<1> HIDE DEF c, x
<1>3. DataCells(f) = c /\ Extent(f) = 6 + 2 * x
  BY DEF DataCells, Extent, n, c, x
<1>. QED  BY <1>1, <1>2, <1>3 DEF n

LEMMA PlaceIsAddress ==
  ASSUME NEW p \in Position
  PROVE  p \in Nat /\ Place(p) \in Addresses /\ Place(p) \in Nat
<1>1. p \in Nat /\ p % 2 = 0
  BY DEF Position
<1>2. Place(p) \in 0 .. RX_LEN - 1 /\ Place(p) % 2 = 0
  BY <1>1, RingSize, PlaceInRing, EvenPlace DEF Place
<1>3. RX_LEN - 1 = RX_BUF_END /\ RX_BUF_END \in Nat
  BY BufferAssumption DEF RX_LEN
<1>. QED  BY <1>1, <1>2, <1>3 DEF Addresses

LEMMA PositionOn ==
  ASSUME NEW p \in Position, NEW n \in Nat, n % 2 = 0
  PROVE  p + n \in Position
BY DEF Position

\* What the driver finds some bytes on from a place.
LEMMA CellAt ==
  ASSUME NEW p \in Nat, NEW n \in Nat
  PROVE  Cell(Place(p) + n) = mem[Place(p + n)]
<1>1. (Place(p) + n) % RX_LEN = Place(p + n)
  BY RingSize, PlaceOn DEF Place
<1>. QED  BY <1>1 DEF Cell

LEMMA VectorAt ==
  ASSUME NEW p \in Position, NEW f \in Frames, Holds(mem, p, f)
  PROVE  /\ Cell(Place(p)) = Place(p + Extent(f))
         /\ Cell(Place(p) + 2) - 4 = FrameSize(f)
<1>1. p \in Nat /\ Place(p) \in Nat /\ p + 0 = p /\ Place(p) + 0 = Place(p)
  BY PlaceIsAddress
<1>2. Cell(Place(p) + 0) = mem[Place(p + 0)]
  BY <1>1, CellAt
<1>3. Cell(Place(p) + 2) = mem[Place(p + 2)]
  BY <1>1, CellAt
<1>4. FrameSize(f) \in Nat
  BY Extents
<1>5. mem[Place(p)] = Place(p + Extent(f)) /\ mem[Place(p + 2)] = FrameSize(f) + 4
  BY DEF Holds
<1>. QED  BY <1>1, <1>2, <1>3, <1>4, <1>5

LEMMA DataAt ==
  ASSUME NEW p \in Position, NEW f \in Frames, Holds(mem, p, f)
  PROVE  /\ Data(Place(p) + 6, FrameSize(f)) = Content(f)
         /\ Data(Place(p + 6), FrameSize(f)) = Content(f)
<1>1. p \in Nat /\ Place(p) \in Nat /\ p + 6 \in Position
  BY PlaceIsAddress, PositionOn
<1>2. DataCells(f) = (FrameSize(f) + 1) \div 2
  BY DEF DataCells
<1>3. ASSUME NEW k \in 1 .. DataCells(f)
      PROVE  /\ Cell((Place(p) + 6) + 2 * (k - 1)) = f
             /\ Cell(Place(p + 6) + 2 * (k - 1)) = f
  <2> DEFINE n == 2 * (k - 1)
  <2>1. n \in Nat /\ 6 + n \in Nat
    BY Extents
  <2>2. mem[Place(p + (6 + n))] = f
    BY DEF Holds
  <2> HIDE DEF n
  <2>3. Cell(Place(p) + (6 + n)) = mem[Place(p + (6 + n))]
    BY <1>1, <2>1, CellAt
  <2>4. Cell(Place(p + 6) + n) = mem[Place((p + 6) + n)]
    BY <1>1, <2>1, CellAt, PlaceIsAddress
  <2>5. Place(p) + (6 + n) = (Place(p) + 6) + n /\ p + (6 + n) = (p + 6) + n
    BY <1>1, <2>1
  <2>. QED  BY <2>2, <2>3, <2>4, <2>5 DEF n
<1>4. Data(Place(p) + 6, FrameSize(f)) = [k \in 1 .. DataCells(f) |-> f]
  BY <1>2, <1>3, Zenon DEF Data
<1>5. Data(Place(p + 6), FrameSize(f)) = [k \in 1 .. DataCells(f) |-> f]
  BY <1>2, <1>3, Zenon DEF Data
<1>. QED  BY <1>4, <1>5 DEF Content

LEMMA StoredRange ==
  ASSUME NEW w \in Seq(Frames), NEW s, NEW m, Stored(w, s, m)
  PROVE  /\ Len(w) \in Nat
         /\ \A i \in 1 .. Len(w) + 1 : s[i] \in Position /\ s[i] \in Nat /\ s[1] <= s[i]
                                        /\ s[i] <= s[Len(w) + 1]
<1>1. Len(w) \in Nat
  BY LenProperties
<1>2. ASSUME NEW i \in 1 .. Len(w) + 1
      PROVE  s[i] \in Position /\ s[i] \in Nat /\ s[1] <= s[i] /\ s[i] <= s[Len(w) + 1]
  <2>1. 1 \in 1 .. Len(w) + 1 /\ Len(w) + 1 \in 1 .. Len(w) + 1 /\ 1 <= i /\ i <= Len(w) + 1
    BY <1>1
  <2>2. s[i] \in Position
    BY DEF Stored
  <2>3. s[1] <= s[i] /\ s[i] <= s[Len(w) + 1]
    BY <2>1 DEF Stored
  <2>. QED  BY <2>2, <2>3 DEF Position
<1>. QED  BY <1>1, <1>2

LEMMA TailStored ==
  ASSUME NEW w \in Seq(Frames), w # <<>>, NEW s, NEW m, Stored(w, s, m)
  PROVE  Stored(Tail(w), [i \in 1 .. Len(w) |-> s[i + 1]], m)
<1> DEFINE v == Tail(w)  n == Len(w)  t == [i \in 1 .. n |-> s[i + 1]]
<1>1. /\ n \in Nat /\ Len(v) = n - 1 /\ n >= 1 /\ Len(v) + 1 = n
      /\ \A i \in 1 .. n - 1 : v[i] = w[i + 1]
  BY HeadTailProperties, EmptySeq, LenProperties
<1> HIDE DEF v
<1>2. /\ s \in [1 .. n + 1 -> Position]
      /\ \A i \in 1 .. n : s[i + 1] = s[i] + Extent(w[i]) /\ Holds(m, s[i], w[i])
      /\ \A i, j \in 1 .. n + 1 : i <= j => s[i] <= s[j]
  BY DEF Stored
<1> HIDE DEF n
<1>3. t \in [1 .. n -> Position]
  BY <1>1, <1>2
<1>4. ASSUME NEW i \in 1 .. n - 1
      PROVE  t[i + 1] = t[i] + Extent(v[i]) /\ Holds(m, t[i], v[i])
  <2> DEFINE j == i + 1
  <2>1. j \in 1 .. n /\ i \in 1 .. n
    BY <1>1
  <2>2. t[i] = s[j] /\ t[j] = s[j + 1] /\ v[i] = w[j]
    BY <1>1, <2>1
  <2> HIDE DEF j, t
  <2>3. s[j + 1] = s[j] + Extent(w[j]) /\ Holds(m, s[j], w[j])
    BY <1>2, <2>1
  <2>. QED  BY <2>2, <2>3 DEF j
<1>5. ASSUME NEW i \in 1 .. n, NEW j \in 1 .. n, i <= j
      PROVE  t[i] <= t[j]
  <2>1. i + 1 \in 1 .. n + 1 /\ j + 1 \in 1 .. n + 1 /\ i + 1 <= j + 1
    BY <1>1, <1>5
  <2>2. s[i + 1] <= s[j + 1]
    BY <1>2, <2>1
  <2>. QED  BY <2>2
<1> HIDE DEF t
<1>6. Stored(v, t, m)
  BY <1>1, <1>3, <1>4, <1>5 DEF Stored
<1>. QED  BY <1>6 DEF v, t, n

\* The chain of frames in memory is a function that is fixed by its recursion.
Follows(g, address, n) == g = [k \in 0 .. n |-> IF k = 0 THEN address ELSE Cell(g[k - 1])]

LEMMA FollowsUnique ==
  ASSUME NEW n \in Nat, NEW a, NEW g, NEW h, Follows(g, a, n), Follows(h, a, n)
  PROVE  \A k \in 0 .. n : g[k] = h[k]
<1> DEFINE S == {k \in 0 .. n : g[k] # h[k]}
<1>1. SUFFICES ASSUME S # {} PROVE FALSE
  OBVIOUS
<1>2. PICK x \in S : \A k \in S : x <= k
  <2>1. S \in SUBSET Nat
    OBVIOUS
  <2> HIDE DEF S
  <2>. QED  BY <1>1, <2>1, LowestIsFirst
<1>3. x \in 0 .. n /\ g[x] # h[x]
  BY <1>2
<1>4. /\ g[x] = IF x = 0 THEN a ELSE Cell(g[x - 1])
      /\ h[x] = IF x = 0 THEN a ELSE Cell(h[x - 1])
  BY <1>3 DEF Follows
<1>5. x # 0
  BY <1>3, <1>4
<1>6. x - 1 \in 0 .. n /\ x - 1 \notin S
  BY <1>2, <1>3, <1>5
<1>7. g[x - 1] = h[x - 1]
  BY <1>6
<1>. QED  BY <1>3, <1>4, <1>5, <1>7

\* From the place of the first frame on, the controller's chain is what the
\* frames hold.
LEMMA ChainHeld ==
  ASSUME NEW w \in Seq(Frames), NEW s, Stored(w, s, mem)
  PROVE  Chain(Place(s[1]), Len(w)) = Held(w)
<1> DEFINE n == Len(w)  a == Place(s[1])
           g == [k \in 0 .. n |-> Place(s[k + 1])]
           start == CHOOSE h : Follows(h, a, n)
<1>1. n \in Nat /\ \A i \in 1 .. n + 1 : s[i] \in Position
  BY StoredRange
<1>2. ASSUME NEW k \in 1 .. n
      PROVE  /\ w[k] \in Frames /\ s[k] \in Position
             /\ s[k + 1] = s[k] + Extent(w[k]) /\ Holds(mem, s[k], w[k])
  BY <1>1, ElementOfSeq DEF Stored
<1>3. ASSUME NEW k \in 1 .. n
      PROVE  Cell(Place(s[k])) = Place(s[k + 1])
  BY <1>2, VectorAt
<1>4. Follows(g, a, n)
  <2>1. ASSUME NEW k \in 0 .. n
        PROVE  g[k] = IF k = 0 THEN a ELSE Cell(g[k - 1])
    <3>1. CASE k = 0
      BY <3>1
    <3>2. CASE k # 0
      <4>1. k \in 1 .. n /\ k - 1 \in 0 .. n /\ (k - 1) + 1 = k
        BY <1>1, <3>2
      <4>2. g[k] = Place(s[k + 1]) /\ g[k - 1] = Place(s[k])
        BY <4>1
      <4> HIDE DEF g
      <4>3. Cell(Place(s[k])) = Place(s[k + 1])
        BY <1>3, <4>1
      <4>. QED  BY <3>2, <4>2, <4>3
    <3>. QED  BY <3>1, <3>2
  <2> DEFINE r == [k \in 0 .. n |-> IF k = 0 THEN a ELSE Cell(g[k - 1])]
  <2>2. g = r
    BY <2>1
  <2> HIDE DEF g, a
  <2>. QED  BY <2>2 DEF Follows
<1>5. Follows(start, a, n)
  <2> HIDE DEF g, a
  <2>. QED  BY <1>4
<1>6. \A k \in 0 .. n : start[k] = g[k]
  <2> HIDE DEF g, a, start
  <2>. QED  BY <1>1, <1>4, <1>5, FollowsUnique
<1>7. Chain(a, n) = [k \in 1 .. n |-> Data(start[k - 1] + 6, Cell(start[k - 1] + 2) - 4)]
  <2> HIDE DEF a, n
  <2>. QED  BY Zenon DEF Chain, Follows
<1>8. ASSUME NEW k \in 1 .. n
      PROVE  Data(start[k - 1] + 6, Cell(start[k - 1] + 2) - 4) = Content(w[k])
  <2>1. k - 1 \in 0 .. n /\ (k - 1) + 1 = k
    BY <1>1
  <2>2. start[k - 1] = Place(s[k])
    BY <1>6, <2>1
  <2> HIDE DEF start
  <2>3. Cell(Place(s[k]) + 2) - 4 = FrameSize(w[k])
    BY <1>2, VectorAt
  <2>4. Data(Place(s[k]) + 6, FrameSize(w[k])) = Content(w[k])
    BY <1>2, DataAt
  <2>. QED  BY <2>2, <2>3, <2>4
<1> HIDE DEF start, a, n
<1>9. Chain(a, n) = [k \in 1 .. n |-> Content(w[k])]
  BY <1>7, <1>8, Zenon
<1>. QED  BY <1>9 DEF Held, a, n

LEMMA HeldIs ==
  ASSUME NEW w \in Seq(Frames)
  PROVE  /\ Len(w) \in Nat /\ Held(w) \in Seq({Content(f) : f \in Frames})
         /\ Len(Held(w)) = Len(w) /\ \A k \in 1 .. Len(w) : Held(w)[k] = Content(w[k])
<1> DEFINE n == Len(w)  C == {Content(f) : f \in Frames}
<1>1. n \in Nat /\ \A k \in 1 .. n : w[k] \in Frames
  BY LenProperties, ElementOfSeq
<1> DEFINE e(k) == Content(w[k])
<1>2. \A k \in 1 .. n : e(k) \in C
  BY <1>1
<1> HIDE DEF C, n, e
<1>3. [k \in 1 .. n |-> e(k)] \in Seq(C)
  BY <1>1, <1>2, IsASeq
<1>4. Held(w) = [k \in 1 .. n |-> e(k)]
  BY DEF Held, n, e
<1>5. Len(Held(w)) = n
  BY <1>1, <1>4
<1>. QED  BY <1>1, <1>3, <1>4, <1>5 DEF n, C, e

LEMMA HeldTail ==
  ASSUME NEW w \in Seq(Frames), w # <<>>
  PROVE  /\ Held(w) = <<Content(Head(w))>> \o Held(Tail(w))
         /\ Held(w) # <<>> /\ Head(Held(w)) = Content(Head(w)) /\ Tail(Held(w)) = Held(Tail(w))
<1> DEFINE C == {Content(f) : f \in Frames}
           h == Held(w)  v == Tail(w)  t == Held(v)  c == Content(Head(w))  n == Len(w)
<1>1. /\ v \in Seq(Frames) /\ n \in Nat /\ n >= 1 /\ Len(v) = n - 1 /\ Head(w) = w[1]
      /\ \A k \in 1 .. n - 1 : v[k] = w[k + 1]
  BY HeadTailProperties, EmptySeq, LenProperties
<1>2. h \in Seq(C) /\ Len(h) = n /\ \A k \in 1 .. n : h[k] = Content(w[k])
  BY HeldIs
<1> HIDE DEF v
<1>3. t \in Seq(C) /\ Len(t) = n - 1 /\ \A k \in 1 .. n - 1 : t[k] = Content(v[k])
  BY <1>1, HeldIs
<1> HIDE DEF C, h, t, n
<1>4. h # <<>> /\ h[1] = c
  BY <1>1, <1>2
<1>5. /\ Tail(h) \in Seq(C) /\ Len(Tail(h)) = n - 1 /\ Head(h) = h[1]
      /\ \A k \in 1 .. n - 1 : Tail(h)[k] = h[k + 1]
  BY <1>2, <1>4, HeadTailProperties
<1>6. \A k \in 1 .. n - 1 : Tail(h)[k] = t[k]
  <2>1. TAKE k \in 1 .. n - 1
  <2>2. k + 1 \in 1 .. n
    BY <1>1
  <2>. QED  BY <1>1, <1>2, <1>3, <1>5, <2>2
<1>7. Tail(h) = t
  <2> DEFINE u == Tail(h)
  <2>1. u \in Seq(C) /\ Len(u) = Len(t) /\ \A k \in 1 .. Len(u) : u[k] = t[k]
    BY <1>3, <1>5, <1>6
  <2> HIDE DEF u
  <2>2. u = t
    BY <1>3, <2>1, SeqEqual
  <2>. QED  BY <2>2 DEF u
<1>8. h = <<h[1]>> \o Tail(h)
  BY <1>2, <1>4
<1>. QED  BY <1>4, <1>5, <1>7, <1>8 DEF h, t, v

LEMMA HeldAppend ==
  ASSUME NEW w \in Seq(Frames), NEW f \in Frames
  PROVE  Held(Append(w, f)) = Append(Held(w), Content(f))
<1> DEFINE C == {Content(g) : g \in Frames}
           v == Append(w, f)  n == Len(w)  a == Held(v)  b == Append(Held(w), Content(f))
<1>1. /\ n \in Nat /\ v \in Seq(Frames) /\ Len(v) = n + 1 /\ v[n + 1] = f
      /\ \A k \in 1 .. n : v[k] = w[k]
  BY LenProperties
<1>2. Held(w) \in Seq(C) /\ Len(Held(w)) = n /\ \A k \in 1 .. n : Held(w)[k] = Content(w[k])
  BY HeldIs
<1> HIDE DEF v
<1>3. a \in Seq(C) /\ Len(a) = n + 1 /\ \A k \in 1 .. n + 1 : a[k] = Content(v[k])
  BY <1>1, HeldIs
<1>4. Content(f) \in C
  OBVIOUS
<1> HIDE DEF C, a, n
<1>5. /\ b \in Seq(C) /\ Len(b) = n + 1 /\ b[n + 1] = Content(f)
      /\ \A k \in 1 .. n : b[k] = Held(w)[k]
  BY <1>1, <1>2, <1>4
<1> HIDE DEF b
<1>6. \A k \in 1 .. n + 1 : a[k] = b[k]
  <2>1. TAKE k \in 1 .. n + 1
  <2>2. k \in 1 .. n \/ k = n + 1
    BY <1>1
  <2>. QED  BY <1>1, <1>2, <1>3, <1>5, <2>2
<1>7. a = b
  BY <1>3, <1>5, <1>6, SeqEqual
<1>. QED  BY <1>7 DEF a, b, v

\* The first frame in memory, and the frames behind it.
LEMMA FirstStored ==
  ASSUME NEW w \in Seq(Frames), w # <<>>, NEW s, Stored(w, s, mem)
  PROVE  /\ Head(w) \in Frames /\ Tail(w) \in Seq(Frames) /\ Len(Tail(w)) = Len(w) - 1
         /\ s[1] \in Position /\ s[2] = s[1] + Extent(Head(w)) /\ Holds(mem, s[1], Head(w))
         /\ Chain(Place(s[2]), Len(w) - 1) = Held(Tail(w))
<1> DEFINE n == Len(w)  t == [i \in 1 .. n |-> s[i + 1]]
<1>1. /\ n \in Nat /\ n >= 1 /\ Head(w) = w[1] /\ w[1] \in Frames
      /\ Tail(w) \in Seq(Frames) /\ Len(Tail(w)) = n - 1
  BY HeadTailProperties, EmptySeq, LenProperties
<1>2. 1 \in 1 .. n /\ 1 \in 1 .. n + 1 /\ 1 + 1 = 2
  BY <1>1
<1>3. s[1] \in Position /\ s[2] = s[1] + Extent(w[1]) /\ Holds(mem, s[1], w[1])
  BY <1>2 DEF Stored
<1>4. t[1] = s[2]
  BY <1>2
<1> HIDE DEF t
<1>5. Stored(Tail(w), t, mem)
  BY TailStored DEF t
<1>6. Chain(Place(t[1]), Len(Tail(w))) = Held(Tail(w))
  BY <1>1, <1>5, ChainHeld
<1>. QED  BY <1>1, <1>3, <1>4, <1>6

\* What is pending is what the frames hold.
LEMMA PendingHeld ==
  ASSUME NEW w, QueueIs(w)
  PROVE  Pending = Held(w)
<1>1. w \in Seq(Frames)
  BY DEF QueueIs
<1>2. PICK s, base : Ring(w, s, base) /\ Phase(w, s, base)
  BY DEF QueueIs
<1>3. Stored(w, s, mem) /\ ptr.ERXWRPT = Place(s[Len(w) + 1])
  BY <1>2 DEF Ring
<1>4. Chain(Place(s[1]), Len(w)) = Held(w)
  BY <1>1, <1>3, ChainHeld
<1>5. CASE Setting(w)
  <2>1. w = <<>> /\ npp = 0 /\ epktcnt = 0 /\ at = "none"
    BY <1>5 DEF Setting
  <2>2. Pending = Chain(npp, 0)
    BY <2>1 DEF Pending
  <2>3. Chain(npp, 0) = <<>>
    BY DEF Chain
  <2>4. Held(w) = <<>>
    BY <2>1 DEF Held
  <2>. QED  BY <2>2, <2>3, <2>4
<1>6. CASE Quiet(w, s, base) \/ VectorWaits(w, s, base)
  <2>1. at = "none" /\ npp = Place(s[1]) /\ epktcnt = Len(w)
    BY <1>6 DEF Quiet, VectorWaits
  <2>. QED  BY <1>4, <2>1 DEF Pending
<1>7. CASE Sized(w, s, base)
  <2>1. /\ at = "sized" /\ w # <<>> /\ npp = Place(s[2]) /\ epktcnt = Len(w)
        /\ ptr.ERDPT = Place(s[1] + 6) /\ frameSize = FrameSize(Head(w))
    BY <1>7 DEF Sized
  <2>2. Pending = <<Data(ptr.ERDPT, frameSize)>> \o Chain(npp, epktcnt - 1)
    BY <2>1 DEF Pending
  <2>3. /\ Head(w) \in Frames /\ s[1] \in Position /\ Holds(mem, s[1], Head(w))
        /\ Chain(Place(s[2]), Len(w) - 1) = Held(Tail(w))
    BY <1>1, <1>3, <2>1, FirstStored
  <2>4. Data(ptr.ERDPT, frameSize) = Content(Head(w))
    BY <2>1, <2>3, DataAt
  <2>5. Held(w) = <<Content(Head(w))>> \o Held(Tail(w))
    BY <1>1, <2>1, HeldTail
  <2>. QED  BY <2>1, <2>2, <2>3, <2>4, <2>5
<1>8. CASE Copied(w, s, base)
  <2>1. at = "copied" /\ npp = Place(s[1]) /\ epktcnt = Len(w) + 1
    BY <1>8 DEF Copied
  <2>2. Pending = Chain(npp, epktcnt - 1)
    BY <2>1 DEF Pending
  <2>3. epktcnt - 1 = Len(w)
    BY <1>1, <2>1, LenProperties
  <2>. QED  BY <1>4, <2>1, <2>2, <2>3
<1>. QED  BY <1>2, <1>5, <1>6, <1>7, <1>8 DEF Phase

-----------------------------------------------------------------------------
(* A frame arrives.                                                        *)

\* What Receive(f) leaves at an address.
Received(f, a) ==
    LET offset == (a - ptr.ERXWRPT) % RX_LEN IN
    CASE offset >= Extent(f) -> mem[a]
      [] offset = 0 -> (ptr.ERXWRPT + Extent(f)) % RX_LEN
      [] offset = 2 -> FrameSize(f) + 4
      [] offset >= 6 /\ offset < 6 + 2 * DataCells(f) -> f
      [] OTHER -> 0

\* The ring has room for the frame, all of it behind the frames that are there.
LEMMA RoomBehind ==
  ASSUME NEW w \in Seq(Frames), NEW s, NEW base, Ring(w, s, base), Guarded(base),
         NEW f \in Frames, Extent(f) <= Room
  PROVE  s[Len(w) + 1] + Extent(f) < base + RX_LEN
<1> DEFINE e == s[Len(w) + 1]  p == base + (RX_LEN - 1)  d == p - e
<1>1. Len(w) \in Nat /\ e \in Nat /\ base \in Nat /\ base <= e /\ e < base + RX_LEN
  <2>1. Stored(w, s, mem) /\ base \in Position /\ base <= s[1] /\ e < base + RX_LEN
    BY DEF Ring
  <2>2. Len(w) \in Nat /\ 1 \in 1 .. Len(w) + 1 /\ Len(w) + 1 \in 1 .. Len(w) + 1
    BY LenProperties
  <2>3. s[1] \in Nat /\ s[1] <= e /\ e \in Nat
    BY <2>1, <2>2, StoredRange
  <2>. QED  BY <2>1, <2>2, <2>3 DEF Position
<1>2. RX_LEN \in Nat \ {0}
  BY RingSize
<1>3. Room = (Place(p) - Place(e)) % RX_LEN
  BY DEF Room, Ring, Guarded
<1> HIDE DEF e
<1>4. p \in Nat /\ d \in 0 .. RX_LEN - 1 /\ p = e + d
  BY <1>1, <1>2
<1> HIDE DEF p, d
<1>5. (Place(p) - Place(e)) % RX_LEN = d
  BY <1>1, <1>2, <1>4, PlacesApart DEF Place
<1>6. d \in Nat /\ Extent(f) \in Nat /\ Extent(f) <= d
  BY <1>3, <1>4, <1>5, Extents
<1>. QED  BY <1>1, <1>2, <1>4, <1>6 DEF p, e

\* The frame's own cells, by their offset.
LEMMA NewCell ==
  ASSUME NEW e \in Nat, NEW d \in 0 .. RX_LEN - 1, ptr.ERXWRPT = Place(e)
  PROVE  (Place(e + d) - ptr.ERXWRPT) % RX_LEN = d
<1>1. RX_LEN \in Nat \ {0}
  BY RingSize
<1>2. e + d \in Nat /\ d \in Nat
  BY <1>1
<1>. QED  BY <1>1, <1>2, PlacesApart DEF Place

LEMMA ReceivedHolds ==
  ASSUME NEW e \in Position, NEW f \in Frames, Extent(f) <= RX_LEN - 1,
         ptr.ERXWRPT = Place(e),
         NEW m, \A a \in Addresses : m[a] = Received(f, a)
  PROVE  Holds(m, e, f)
<1> DEFINE x == Extent(f)  c == DataCells(f)  z == FrameSize(f)
<1>1. /\ RX_LEN \in Nat \ {0} /\ x \in Nat /\ c \in Nat /\ 6 + 2 * c <= x /\ x <= RX_LEN - 1
      /\ e \in Nat
  BY RingSize, Extents DEF Position
<1> HIDE DEF x, c, z
<1>2. ASSUME NEW d \in Nat, d % 2 = 0, d < x
      PROVE  /\ Place(e + d) \in Addresses
             /\ m[Place(e + d)] = CASE d = 0 -> Place(e + x)
                                    [] d = 2 -> z + 4
                                    [] d >= 6 /\ d < 6 + 2 * c -> f
                                    [] OTHER -> 0
  <2>1. d \in 0 .. RX_LEN - 1
    BY <1>1, <1>2
  <2>2. e + d \in Position
    BY <1>2, PositionOn
  <2>3. Place(e + d) \in Addresses
    BY <2>2, PlaceIsAddress
  <2>4. (Place(e + d) - ptr.ERXWRPT) % RX_LEN = d
    BY <1>1, <2>1, NewCell
  <2>5. (ptr.ERXWRPT + x) % RX_LEN = Place(e + x)
    <3>1. ((e % RX_LEN) + x) % RX_LEN = (e + x) % RX_LEN
      BY <1>1, PlaceOn
    <3>. QED  BY <3>1 DEF Place
  <2> DEFINE a == Place(e + d)  o == (a - ptr.ERXWRPT) % RX_LEN
  <2>6. m[a] = Received(f, a)
    BY <2>3
  <2>7. Received(f, a) = CASE o >= x -> mem[a]
                           [] o = 0 -> (ptr.ERXWRPT + x) % RX_LEN
                           [] o = 2 -> z + 4
                           [] o >= 6 /\ o < 6 + 2 * c -> f
                           [] OTHER -> 0
    BY DEF Received, x, c, z
  <2>8. o = d
    BY <2>4
  <2> HIDE DEF o, a
  <2>9. ~(o >= x)
    BY <1>1, <1>2, <2>8
  <2>10. Received(f, a) = CASE d = 0 -> (ptr.ERXWRPT + x) % RX_LEN
                            [] d = 2 -> z + 4
                            [] d >= 6 /\ d < 6 + 2 * c -> f
                            [] OTHER -> 0
    BY <2>7, <2>8, <2>9
  <2>. QED  BY <2>3, <2>5, <2>6, <2>10 DEF a
<1>3. e + 0 = e /\ 0 % 2 = 0 /\ 2 % 2 = 0 /\ 0 < x /\ 2 < x
  BY <1>1
<1>4. m[Place(e)] = Place(e + x)
  BY <1>2, <1>3
<1>5. m[Place(e + 2)] = z + 4
  BY <1>2, <1>3
<1>6. ASSUME NEW k \in 1 .. c
      PROVE  m[Place(e + (6 + 2 * (k - 1)))] = f
  <2> DEFINE d == 6 + 2 * (k - 1)
  <2>1. d \in Nat /\ d % 2 = 0 /\ d < 6 + 2 * c /\ d >= 6 /\ d < x
    BY <1>1
  <2> HIDE DEF d
  <2>2. m[Place(e + d)] = CASE d = 0 -> Place(e + x)
                            [] d = 2 -> z + 4
                            [] d >= 6 /\ d < 6 + 2 * c -> f
                            [] OTHER -> 0
    BY <1>2, <2>1
  <2>3. m[Place(e + d)] = f
    BY <2>1, <2>2
  <2>. QED  BY <2>3 DEF d
<1>. QED  BY <1>4, <1>5, <1>6 DEF Holds, x, c, z

\* A cell of a frame that is there stays what it is.
LEMMA ReceivedKeeps ==
  ASSUME NEW e \in Nat, NEW base \in Nat, base <= e, e < base + RX_LEN,
         ptr.ERXWRPT = Place(e),
         NEW f \in Frames, e + Extent(f) < base + RX_LEN,
         NEW q \in Nat, base <= q, q < e
  PROVE  Received(f, Place(q)) = mem[Place(q)]
<1> DEFINE x == Extent(f)  d == q + RX_LEN - e  o == (Place(q) - ptr.ERXWRPT) % RX_LEN
<1>1. RX_LEN \in Nat \ {0} /\ x \in Nat
  BY RingSize, Extents
<1>2. d \in 0 .. RX_LEN - 1 /\ q + RX_LEN = e + d /\ d >= x
  BY <1>1
<1> HIDE DEF d
<1>3. ((q % RX_LEN) - (e % RX_LEN)) % RX_LEN = d
  BY <1>1, <1>2, PlacesApart
<1>4. o = d
  BY <1>3 DEF Place
<1> DEFINE c == DataCells(f)
<1>5. c \in Nat /\ 6 + 2 * c <= x
  BY Extents
<1>6. Received(f, Place(q)) = CASE o >= x -> mem[Place(q)]
                                [] o = 0 -> (ptr.ERXWRPT + x) % RX_LEN
                                [] o = 2 -> FrameSize(f) + 4
                                [] o >= 6 /\ o < 6 + 2 * c -> f
                                [] OTHER -> 0
  BY DEF Received
<1> HIDE DEF x, o, c
<1>7. o >= x /\ o # 0 /\ o # 2 /\ ~(o < 6 + 2 * c)
  BY <1>1, <1>2, <1>4, <1>5
<1>. QED  BY <1>6, <1>7

LEMMA ReceivedStored ==
  ASSUME NEW p \in Position, NEW g \in Frames, Holds(mem, p, g),
         NEW e \in Nat, NEW base \in Nat, base <= p, p + Extent(g) <= e, e < base + RX_LEN,
         ptr.ERXWRPT = Place(e),
         NEW f \in Frames, e + Extent(f) < base + RX_LEN,
         NEW m, \A a \in Addresses : m[a] = Received(f, a)
  PROVE  Holds(m, p, g)
<1> DEFINE x == Extent(g)  c == DataCells(g)
<1>1. p \in Nat /\ x \in Nat /\ c \in Nat /\ 6 + 2 * c <= x
  BY Extents, PlaceIsAddress
<1>2. RX_LEN \in Nat /\ Extent(f) \in Nat
  BY RingSize, Extents
<1> HIDE DEF x, c
<1>3. ASSUME NEW d \in Nat, d % 2 = 0, d < x
      PROVE  m[Place(p + d)] = mem[Place(p + d)]
  <2> DEFINE q == p + d
  <2>1. q \in Nat /\ base <= q /\ q < e /\ base <= e
    BY <1>1, <1>3 DEF x
  <2>2. q \in Position
    BY <1>3, PositionOn
  <2> HIDE DEF q
  <2>3. m[Place(q)] = Received(f, Place(q))
    BY <2>2, PlaceIsAddress
  <2>4. Received(f, Place(q)) = mem[Place(q)]
    BY <2>1, ReceivedKeeps
  <2>. QED  BY <2>3, <2>4 DEF q
<1>4. p + 0 = p /\ 0 % 2 = 0 /\ 2 % 2 = 0 /\ 0 < x /\ 2 < x
  BY <1>1
<1>5. m[Place(p)] = mem[Place(p)] /\ m[Place(p + 2)] = mem[Place(p + 2)]
  BY <1>3, <1>4
<1>6. ASSUME NEW k \in 1 .. c
      PROVE  m[Place(p + (6 + 2 * (k - 1)))] = mem[Place(p + (6 + 2 * (k - 1)))]
  <2> DEFINE d == 6 + 2 * (k - 1)
  <2>1. d \in Nat /\ d % 2 = 0 /\ d < x
    BY <1>1
  <2> HIDE DEF d
  <2>2. m[Place(p + d)] = mem[Place(p + d)]
    BY <1>3, <2>1
  <2>. QED  BY <2>2 DEF d
<1>. QED  BY <1>5, <1>6 DEF Holds, c

\* The frames with one behind them.
LEMMA StoredAppend ==
  ASSUME NEW w \in Seq(Frames), NEW s, NEW m, NEW f \in Frames,
         s \in [1 .. Len(w) + 1 -> Position],
         \A i \in 1 .. Len(w) : s[i + 1] = s[i] + Extent(w[i]) /\ Holds(m, s[i], w[i]),
         \A i, j \in 1 .. Len(w) + 1 : i <= j => s[i] <= s[j],
         Holds(m, s[Len(w) + 1], f)
  PROVE  LET v == Append(w, f)
             t == [i \in 1 .. Len(w) + 2 |->
                     IF i <= Len(w) + 1 THEN s[i] ELSE s[Len(w) + 1] + Extent(f)]
         IN  /\ Stored(v, t, m)
             /\ t[1] = s[1] /\ (w # <<>> => t[2] = s[2])
             /\ t[Len(v) + 1] = s[Len(w) + 1] + Extent(f)
<1> DEFINE n == Len(w)  v == Append(w, f)
           z == s[n + 1] + Extent(f)
           t == [i \in 1 .. n + 2 |-> IF i <= n + 1 THEN s[i] ELSE z]
<1>1. /\ n \in Nat /\ Len(v) = n + 1 /\ v[n + 1] = f
      /\ \A i \in 1 .. n : v[i] = w[i]
      /\ w # <<>> => n >= 1
  BY LenProperties, EmptySeq
<1>2. Extent(f) \in Nat /\ Extent(f) % 2 = 0
  BY Extents
<1>3. /\ s \in [1 .. n + 1 -> Position]
      /\ \A i \in 1 .. n : s[i + 1] = s[i] + Extent(w[i]) /\ Holds(m, s[i], w[i])
      /\ \A i, j \in 1 .. n + 1 : i <= j => s[i] <= s[j]
      /\ Holds(m, s[n + 1], f)
  OBVIOUS
<1> HIDE DEF n, v
<1>4. n + 1 \in 1 .. n + 1 /\ s[n + 1] \in Position
  BY <1>1, <1>3
<1>5. z \in Position /\ z \in Nat /\ s[n + 1] <= z /\ s[n + 1] \in Nat
  <2>1. z \in Position
    BY <1>2, <1>4, PositionOn
  <2>2. s[n + 1] \in Nat
    BY <1>4, PlaceIsAddress
  <2>. QED  BY <1>2, <2>1, <2>2
<1> HIDE DEF z
<1>6. /\ \A i \in 1 .. n + 1 : t[i] = s[i]
      /\ t[n + 2] = z
  BY <1>1
<1>7. t \in [1 .. n + 2 -> Position]
  <2>1. ASSUME NEW i \in 1 .. n + 2, i <= n + 1 PROVE s[i] \in Position
    <3>1. i \in 1 .. n + 1
      BY <1>1, <2>1
    <3>. QED  BY <1>3, <3>1
  <2>2. \A i \in 1 .. n + 2 : (IF i <= n + 1 THEN s[i] ELSE z) \in Position
    BY <1>5, <2>1
  <2>. QED  BY <2>2
<1> HIDE DEF t
<1>8. ASSUME NEW i \in 1 .. n + 1
      PROVE  t[i + 1] = t[i] + Extent(v[i]) /\ Holds(m, t[i], v[i])
  <2>1. CASE i \in 1 .. n
    <3>1. i + 1 \in 1 .. n + 1
      BY <1>1, <2>1
    <3>2. t[i] = s[i] /\ t[i + 1] = s[i + 1] /\ v[i] = w[i]
      BY <1>1, <1>6, <2>1, <3>1
    <3>. QED  BY <1>3, <2>1, <3>2
  <2>2. CASE i = n + 1
    <3>1. t[i] = s[n + 1] /\ t[i + 1] = z /\ v[i] = f
      <4>1. (n + 1) + 1 = n + 2
        BY <1>1
      <4>. QED  BY <1>1, <1>4, <1>6, <2>2, <4>1
    <3>. QED  BY <1>3, <3>1 DEF z
  <2>3. i \in 1 .. n \/ i = n + 1
    BY <1>1
  <2>. QED  BY <2>1, <2>2, <2>3
<1>9. ASSUME NEW i \in 1 .. n + 2, NEW j \in 1 .. n + 2, i <= j
      PROVE  t[i] <= t[j]
  <2>1. CASE j \in 1 .. n + 1
    <3>1. i \in 1 .. n + 1
      BY <1>1, <1>9, <2>1
    <3>. QED  BY <1>3, <1>6, <1>9, <2>1, <3>1
  <2>2. CASE j = n + 2 /\ i \in 1 .. n + 1
    <3>1. s[i] <= s[n + 1] /\ s[i] \in Nat
      <4>1. i <= n + 1
        BY <1>1, <2>2
      <4>. QED  BY <1>3, <1>4, <2>2, <4>1 DEF Position
    <3>2. t[i] = s[i] /\ t[j] = z
      BY <1>6, <2>2
    <3>. QED  BY <1>5, <3>1, <3>2
  <2>3. CASE i = n + 2 /\ j = n + 2
    <3>. QED  BY <1>5, <1>6, <2>3
  <2>4. j \in 1 .. n + 1 \/ (j = n + 2 /\ i \in 1 .. n + 1) \/ (i = n + 2 /\ j = n + 2)
    BY <1>1, <1>9
  <2>. QED  BY <2>1, <2>2, <2>3, <2>4
<1>10. Stored(v, t, m)
  <2>1. Len(v) + 1 = n + 2
    BY <1>1
  <2>. QED  BY <1>1, <1>7, <1>8, <1>9, <2>1 DEF Stored
<1>11. t[1] = s[1] /\ (w # <<>> => t[2] = s[2]) /\ t[Len(v) + 1] = z
  <2>1. 1 \in 1 .. n + 1 /\ (w # <<>> => 2 \in 1 .. n + 1) /\ Len(v) + 1 = n + 2
    BY <1>1
  <2>. QED  BY <1>6, <2>1
<1>. QED  BY <1>10, <1>11 DEF t, v, z, n

\* The ring takes a frame.
LEMMA RingReceives ==
  ASSUME NEW w \in Seq(Frames), NEW s, NEW base, Ring(w, s, base), Guarded(base),
         NEW f \in Frames, Receive(f)
  PROVE  \E t : /\ Ring(Append(w, f), t, base)'
                /\ t[1] = s[1] /\ (w # <<>> => t[2] = s[2])
<1> DEFINE n == Len(w)  e == s[n + 1]
           t == [i \in 1 .. n + 2 |-> IF i <= n + 1 THEN s[i] ELSE s[n + 1] + Extent(f)]
<1>1. /\ Stored(w, s, mem) /\ base \in Position /\ base <= s[1]
      /\ e < base + RX_LEN /\ ptr.ERXWRPT = Place(e)
      /\ DOMAIN ptr = Pointers /\ "pkts" \in DOMAIN seen
      /\ mem \in [Addresses -> Nat]
  BY DEF Ring
<1>2. n \in Nat /\ 1 \in 1 .. n + 1 /\ n + 1 \in 1 .. n + 1
  BY LenProperties
<1>3. /\ base \in Nat /\ base <= e /\ e \in Nat /\ e \in Position
      /\ \A i \in 1 .. n + 1 : s[i] \in Position /\ s[i] \in Nat /\ s[1] <= s[i] /\ s[i] <= e
  <2>1. \A i \in 1 .. n + 1 : s[i] \in Position /\ s[i] \in Nat /\ s[1] <= s[i] /\ s[i] <= e
    BY <1>1, StoredRange
  <2>2. base \in Nat
    BY <1>1 DEF Position
  <2>. QED  BY <1>1, <1>2, <2>1, <2>2
<1>4. /\ Extent(f) <= Room
      /\ mem' = [a \in DOMAIN mem |-> Received(f, a)]
      /\ ptr' = [ptr EXCEPT !.ERXWRPT = (ptr.ERXWRPT + Extent(f)) % RX_LEN]
      /\ seen' = seen
  BY DEF Receive, Received, driver
<1>5. e + Extent(f) < base + RX_LEN
  BY <1>4, RoomBehind
<1>6. \A a \in Addresses : mem'[a] = Received(f, a)
  BY <1>1, <1>4
<1>7. RX_LEN \in Nat \ {0} /\ Extent(f) \in Nat /\ Extent(f) <= RX_LEN - 1
  <2>1. RX_LEN \in Nat \ {0} /\ Extent(f) \in Nat
    BY RingSize, Extents
  <2>. QED  BY <1>3, <1>5, <2>1
<1>8. Holds(mem', e, f)
  BY <1>1, <1>3, <1>6, <1>7, ReceivedHolds
<1>9. ASSUME NEW i \in 1 .. n
      PROVE  s[i + 1] = s[i] + Extent(w[i]) /\ Holds(mem', s[i], w[i])
  <2>1. s[i + 1] = s[i] + Extent(w[i]) /\ Holds(mem, s[i], w[i])
    BY <1>1 DEF Stored
  <2>2. i \in 1 .. n + 1 /\ i + 1 \in 1 .. n + 1
    BY <1>2
  <2>3. w[i] \in Frames
    BY ElementOfSeq
  <2>4. s[i] \in Position /\ base <= s[i] /\ s[i] + Extent(w[i]) <= e
    <3>1. s[i] \in Position /\ s[i] \in Nat /\ s[1] <= s[i] /\ s[1] \in Nat
      BY <1>2, <1>3, <2>2
    <3>2. s[i + 1] <= e
      BY <1>3, <2>2
    <3>. QED  BY <1>1, <1>3, <2>1, <3>1, <3>2
  <2> DEFINE p == s[i]  g == w[i]
  <2>5. p \in Position /\ g \in Frames /\ Holds(mem, p, g) /\ base <= p /\ p + Extent(g) <= e
    BY <2>1, <2>3, <2>4
  <2> HIDE DEF p, g, e
  <2>6. Holds(mem', p, g)
    BY <1>1, <1>3, <1>5, <1>6, <2>5, ReceivedStored
  <2>. QED  BY <2>1, <2>6 DEF p, g
<1>10. /\ Stored(Append(w, f), t, mem')
       /\ t[1] = s[1] /\ (w # <<>> => t[2] = s[2])
       /\ t[Len(Append(w, f)) + 1] = e + Extent(f)
  <2>1. /\ s \in [1 .. n + 1 -> Position]
        /\ \A i, j \in 1 .. n + 1 : i <= j => s[i] <= s[j]
    BY <1>1 DEF Stored
  <2>. QED  BY <1>8, <1>9, <2>1, StoredAppend
<1>11. mem' \in [Addresses -> Nat]
  <2>1. ASSUME NEW a \in Addresses PROVE Received(f, a) \in Nat
    <3>1. mem[a] \in Nat
      BY <1>1
    <3>2. f \in Nat /\ FrameSize(f) \in Nat
      BY Extents
    <3>3. (ptr.ERXWRPT + Extent(f)) % RX_LEN \in Nat
      <4>1. Place(e) \in Nat
        BY <1>3, PlaceIsAddress
      <4>. QED  BY <1>1, <1>7, <4>1
    <3> DEFINE y == (ptr.ERXWRPT + Extent(f)) % RX_LEN
               o == (a - ptr.ERXWRPT) % RX_LEN
    <3>4. Received(f, a) = CASE o >= Extent(f) -> mem[a]
                             [] o = 0 -> y
                             [] o = 2 -> FrameSize(f) + 4
                             [] o >= 6 /\ o < 6 + 2 * DataCells(f) -> f
                             [] OTHER -> 0
      BY DEF Received
    <3>5. y \in Nat /\ FrameSize(f) + 4 \in Nat
      BY <3>2, <3>3
    <3> HIDE DEF y, o
    <3>. QED  BY <3>1, <3>2, <3>4, <3>5
  <2>2. mem' = [a \in Addresses |-> Received(f, a)]
    BY <1>1, <1>4
  <2>. QED  BY <2>1, <2>2
<1>12. ptr'.ERXWRPT = Place(e + Extent(f)) /\ DOMAIN ptr' = Pointers
  <2>1. (Place(e) + Extent(f)) % RX_LEN = Place(e + Extent(f))
    <3>1. ((e % RX_LEN) + Extent(f)) % RX_LEN = (e + Extent(f)) % RX_LEN
      BY <1>3, <1>7, PlaceOn
    <3>. QED  BY <3>1 DEF Place
  <2>2. "ERXWRPT" \in DOMAIN ptr
    BY <1>1 DEF Pointers
  <2> HIDE DEF e
  <2>. QED  BY <1>1, <1>4, <2>1, <2>2
<1> HIDE DEF t, e, n
<1>13. Ring(Append(w, f), t, base)'
  BY <1>1, <1>4, <1>5, <1>10, <1>11, <1>12 DEF Ring
<1>. QED  BY <1>10, <1>13

-----------------------------------------------------------------------------
(* The accesses and the frames.                                            *)

LEMMA RingSame ==
  ASSUME NEW w, NEW s, NEW base, Ring(w, s, base),
         mem' = mem, DOMAIN ptr' = Pointers, ptr'.ERXWRPT = ptr.ERXWRPT, "pkts" \in DOMAIN seen'
  PROVE  Ring(w, s, base)'
BY DEF Ring

\* The ring may begin at the first frame.
LEMMA Rebase ==
  ASSUME NEW w \in Seq(Frames), NEW s, NEW base, Ring(w, s, base)
  PROVE  Ring(w, s, s[1]) /\ s[1] \in Position
<1>1. Stored(w, s, mem) /\ base \in Position /\ base <= s[1] /\ s[Len(w) + 1] < base + RX_LEN
  BY DEF Ring
<1>2. 1 \in 1 .. Len(w) + 1 /\ Len(w) + 1 \in 1 .. Len(w) + 1
  BY LenProperties
<1>3. s[1] \in Position /\ s[1] \in Nat /\ s[Len(w) + 1] \in Nat
  BY <1>1, <1>2, StoredRange
<1>4. s[1] <= s[1] /\ s[Len(w) + 1] < s[1] + RX_LEN
  BY <1>1, <1>3, RingSize DEF Position
<1>. QED  BY <1>3, <1>4 DEF Ring

\* The place before a place.
LEMMA PlaceBefore ==
  ASSUME NEW p \in Position
  PROVE  Place(p + (RX_LEN - 1)) = IF Place(p) # 0 THEN Place(p) - 1 ELSE RX_BUF_END
<1> DEFINE r == p % RX_LEN  q == p \div RX_LEN  a == p + (RX_LEN - 1)
<1>1. RX_LEN \in Nat \ {0} /\ RX_BUF_END = RX_LEN - 1 /\ p \in Nat
  BY RingSize, PlaceIsAddress, BufferAssumption DEF RX_LEN
<1>2. r \in 0 .. RX_LEN - 1 /\ q \in Int /\ p = RX_LEN * q + r
  BY <1>1
<1> HIDE DEF r, q
<1>3. CASE r # 0
  <2>1. a = RX_LEN * (q + 1) + (r - 1) /\ r - 1 \in 0 .. RX_LEN - 1 /\ q + 1 \in Int /\ a \in Int
    BY <1>1, <1>2, <1>3, SMT
  <2> HIDE DEF a
  <2>2. a % RX_LEN = r - 1
    BY <1>1, <2>1, LeftOver
  <2>. QED  BY <1>3, <2>2 DEF Place, r, a
<1>4. CASE r = 0
  <2>1. a = RX_LEN * q + (RX_LEN - 1) /\ RX_LEN - 1 \in 0 .. RX_LEN - 1 /\ a \in Int
    BY <1>1, <1>2, <1>4, SMT
  <2> HIDE DEF a
  <2>2. a % RX_LEN = RX_LEN - 1
    BY <1>1, <1>2, <2>1, LeftOver
  <2>. QED  BY <1>1, <1>4, <2>2 DEF Place, r, a
<1>. QED  BY <1>3, <1>4

\* A harmless access leaves the frames, their count and the receive pointers.
LEMMA HarmlessStep ==
  ASSUME Harmless(Head(todo)), DOMAIN ptr = Pointers, "pkts" \in DOMAIN seen, AccessStep
  PROVE  /\ todo # <<>> /\ todo' \in {todo, Tail(todo)}
         /\ UNCHANGED <<mem, epktcnt, npp, at, rx, frameSize, fn>>
         /\ DOMAIN ptr' = Pointers /\ "pkts" \in DOMAIN seen'
         /\ ptr'.ERXWRPT = ptr.ERXWRPT /\ ptr'.ERXRDPT = ptr.ERXRDPT
         /\ seen'.pkts \in {seen.pkts, epktcnt}
<1> DEFINE a == Head(todo)
<1>1. /\ a.op \in {"write", "read", "set", "clear", "await", "WBM"}
      /\ a.op = "write" => a.reg \notin {"ERXST", "ERXRDPT"}
      /\ a.op = "set" => a.arg # {"PKTDEC"}
      /\ a.op = "read" /\ a.arg = "pkts" => a.reg = "EPKTCNT"
  BY DEF Harmless, RegisterOps
<1> HIDE DEF a
<1>2. CASE WriteReg
  <2>1. /\ a.op = "write" /\ todo # <<>> /\ todo' = Tail(todo)
        /\ UNCHANGED <<mem, epktcnt, npp, at, rx, frameSize, fn, seen>>
        /\ ptr' = CASE a.reg = "ERXST" -> [ptr EXCEPT !.ERXWRPT = a.arg]
                    [] a.reg \in Pointers \ {"ERXWRPT"} -> [ptr EXCEPT ![a.reg] = a.arg]
                    [] OTHER -> ptr
    BY <1>2 DEF WriteReg, Access, a
  <2>2. ptr' = ptr \/ (a.reg \in Pointers \ {"ERXWRPT"} /\ ptr' = [ptr EXCEPT ![a.reg] = a.arg])
    BY <1>1, <2>1
  <2>3. "ERXWRPT" \in Pointers /\ "ERXRDPT" \in Pointers
    BY DEF Pointers
  <2>4. /\ DOMAIN ptr' = Pointers
        /\ ptr'.ERXWRPT = ptr.ERXWRPT /\ ptr'.ERXRDPT = ptr.ERXRDPT
    BY <1>1, <2>1, <2>2, <2>3
  <2>. QED  BY <2>1, <2>4
<1>3. CASE ReadReg
  <2>1. /\ a.op = "read" /\ todo # <<>> /\ todo' = Tail(todo)
        /\ UNCHANGED <<mem, epktcnt, npp, at, rx, frameSize, fn, ptr>>
        /\ seen' = [seen EXCEPT ![a.arg] = Value(a.reg)]
    BY <1>3 DEF ReadReg, Access, a
  <2>2. a.arg = "pkts" => Value(a.reg) = epktcnt
    BY <1>1, <2>1 DEF Value, Pointers
  <2> DEFINE x == Value(a.reg)
  <2> HIDE DEF x
  <2>3. "pkts" \in DOMAIN seen' /\ seen'.pkts \in {seen.pkts, epktcnt}
    BY <2>1, <2>2 DEF x
  <2>. QED  BY <2>1, <2>3
<1>4. CASE SetRegBit
  BY <1>1, <1>4 DEF SetRegBit, Access, a
<1>5. CASE ClearRegBit \/ AwaitClear
  BY <1>5 DEF ClearRegBit, AwaitClear, Access
<1>6. CASE writeBuffer
  <2>1. /\ todo # <<>> /\ todo' = Tail(todo)
        /\ UNCHANGED <<mem, epktcnt, npp, at, rx, frameSize, fn, seen>>
        /\ ptr' = [ptr EXCEPT !.EWRPT = @ + Len(a.arg)]
    BY <1>6 DEF writeBuffer, a
  <2>2. "ERXWRPT" \in Pointers /\ "ERXRDPT" \in Pointers
    BY DEF Pointers
  <2>. QED  BY <2>1, <2>2
<1>7. ~ReadVector /\ ~readBuffer
  BY <1>1 DEF ReadVector, readBuffer, a
<1>. QED  BY <1>2, <1>3, <1>4, <1>5, <1>6, <1>7 DEF AccessStep

\* Nothing happens to the frames.
LEMMA Stays ==
  ASSUME NEW w \in Seq(Frames), NEW s, NEW base, Ring(w, s, base)', Phase(w, s, base)', rx' = rx
  PROVE  \E v : QueueIs(v)' /\ Moves(w, v)
BY DEF QueueIs, Moves

LEMMA QuietAccess ==
  ASSUME NEW w \in Seq(Frames), NEW s, NEW base, Ring(w, s, base), Guarded(base),
         Quiet(w, s, base), AccessStep, pc' = pc
  PROVE  \E v : QueueIs(v)' /\ Moves(w, v)
<1>1. DOMAIN ptr = Pointers /\ "pkts" \in DOMAIN seen
  BY DEF Ring
<1>2. todo # <<>>
  BY DEF AccessStep, WriteReg, ReadReg, SetRegBit, ClearRegBit, AwaitClear, Access, ReadVector,
         readBuffer, writeBuffer
<1>3. Calm(todo) /\ Harmless(Head(todo)) /\ Calm(Tail(todo))
  BY <1>2, CalmTail DEF Quiet
<1>4. /\ todo' \in {todo, Tail(todo)}
      /\ UNCHANGED <<mem, epktcnt, npp, at, rx, frameSize, fn>>
      /\ DOMAIN ptr' = Pointers /\ "pkts" \in DOMAIN seen'
      /\ ptr'.ERXWRPT = ptr.ERXWRPT /\ ptr'.ERXRDPT = ptr.ERXRDPT
      /\ seen'.pkts \in {seen.pkts, epktcnt}
  BY <1>1, <1>3, HarmlessStep
<1>5. Ring(w, s, base)'
  BY <1>4, RingSame
<1>6. Guarded(base)'
  BY <1>4 DEF Guarded
<1>7. Calm(todo')
  BY <1>3, <1>4
<1>8. seen'.pkts \in 0 .. epktcnt
  BY <1>4, LenProperties DEF Quiet
<1>9. Quiet(w, s, base)'
  BY <1>2, <1>4, <1>7, <1>8 DEF Quiet
<1>. QED  BY <1>4, <1>5, <1>6, <1>9, Stays DEF Phase

\* The head of what is left, by its kind, says which access is made.
LEMMA WriteIsMade ==
  ASSUME AccessStep, Head(todo).op = "write", DOMAIN ptr = Pointers
  PROVE  LET reg == Head(todo).reg IN
         /\ todo' = Tail(todo)
         /\ UNCHANGED <<mem, epktcnt, npp, at, rx, frameSize, fn, seen>>
         /\ econ1' = IF reg = "ECON1" THEN Head(todo).arg ELSE checkBank(reg)
         /\ DOMAIN ptr' = Pointers
         /\ reg = "ERXST" => ptr'.ERXWRPT = Head(todo).arg
         /\ reg # "ERXST" => ptr'.ERXWRPT = ptr.ERXWRPT
         /\ reg \in {"ERDPT", "ERXRDPT"} => ptr'[reg] = Head(todo).arg
         /\ reg # "ERXRDPT" => ptr'.ERXRDPT = ptr.ERXRDPT
<1> DEFINE a == Head(todo)
<1>1. WriteReg
  BY DEF AccessStep, ReadReg, SetRegBit, ClearRegBit, AwaitClear, Access, ReadVector,
         readBuffer, writeBuffer
<1>2. /\ todo' = Tail(todo)
      /\ UNCHANGED <<mem, epktcnt, npp, at, rx, frameSize, fn, seen>>
      /\ econ1' = IF a.reg = "ECON1" THEN a.arg ELSE checkBank(a.reg)
      /\ ptr' = CASE a.reg = "ERXST" -> [ptr EXCEPT !.ERXWRPT = a.arg]
                  [] a.reg \in Pointers \ {"ERXWRPT"} -> [ptr EXCEPT ![a.reg] = a.arg]
                  [] OTHER -> ptr
  BY <1>1 DEF WriteReg
<1> HIDE DEF a
<1>3. \A x \in {"ERDPT", "ERXRDPT", "ERXWRPT"} : x \in Pointers
  BY DEF Pointers
<1>4. "ERXST" \notin Pointers
  BY DEF Pointers
<1>5. CASE a.reg = "ERXST"
  <2>1. ptr' = [ptr EXCEPT !.ERXWRPT = a.arg]
    BY <1>2, <1>4, <1>5
  <2>. QED  BY <1>2, <1>3, <1>5, <2>1 DEF a
<1>6. CASE a.reg \in Pointers \ {"ERXWRPT"}
  <2>1. ptr' = [ptr EXCEPT ![a.reg] = a.arg]
    BY <1>2, <1>4, <1>6
  <2>2. DOMAIN ptr' = Pointers /\ ptr'[a.reg] = a.arg
    BY <1>6, <2>1
  <2>3. ptr'.ERXWRPT = ptr.ERXWRPT /\ (a.reg # "ERXRDPT" => ptr'.ERXRDPT = ptr.ERXRDPT)
    BY <1>3, <1>6, <2>1
  <2>. QED  BY <1>2, <1>4, <1>6, <2>2, <2>3 DEF a
<1>7. CASE a.reg # "ERXST" /\ a.reg \notin Pointers \ {"ERXWRPT"}
  <2>1. ptr' = ptr
    BY <1>2, <1>7
  <2>2. a.reg \notin {"ERDPT", "ERXRDPT"}
    BY <1>3, <1>7
  <2>. QED  BY <1>2, <1>7, <2>1, <2>2 DEF a
<1>. QED  BY <1>5, <1>6, <1>7

LEMMA HeadOfJoin ==
  ASSUME NEW S, NEW s \in Seq(S), NEW t \in Seq(S), s # <<>>
  PROVE  Head(s \o t) = Head(s) /\ Tail(s \o t) = Tail(s) \o t /\ s \o t # <<>>
<1> DEFINE n == Len(s)  m == Len(t)  j == s \o t  u == Tail(j)  v == Tail(s) \o t
<1>1. n \in Nat /\ m \in Nat /\ n >= 1 /\ Head(s) = s[1]
  BY EmptySeq, LenProperties
<1>2. /\ j \in Seq(S) /\ Len(j) = n + m
      /\ \A i \in 1 .. n + m : j[i] = IF i <= n THEN s[i] ELSE t[i - n]
  BY ConcatProperties
<1>3. /\ Tail(s) \in Seq(S) /\ Len(Tail(s)) = n - 1
      /\ \A i \in 1 .. n - 1 : Tail(s)[i] = s[i + 1]
  BY HeadTailProperties
<1>4. /\ v \in Seq(S) /\ Len(v) = (n - 1) + m
      /\ \A i \in 1 .. (n - 1) + m : v[i] = IF i <= n - 1 THEN Tail(s)[i] ELSE t[i - (n - 1)]
  BY <1>3, ConcatProperties
<1> HIDE DEF j, n, m, v
<1>5. j # <<>> /\ j[1] = s[1]
  BY <1>1, <1>2
<1>6. /\ u \in Seq(S) /\ Len(u) = n + m - 1 /\ Head(j) = j[1]
      /\ \A i \in 1 .. n + m - 1 : u[i] = j[i + 1]
  BY <1>1, <1>2, <1>5, HeadTailProperties
<1> HIDE DEF u
<1>7. ASSUME NEW i \in 1 .. n + m - 1 PROVE u[i] = v[i]
  <2>1. i + 1 \in 1 .. n + m /\ (n - 1) + m = n + m - 1 /\ (i + 1) - n = i - (n - 1)
    BY <1>1
  <2>2. u[i] = IF i + 1 <= n THEN s[i + 1] ELSE t[i - (n - 1)]
    BY <1>2, <1>6, <2>1
  <2>3. v[i] = IF i <= n - 1 THEN Tail(s)[i] ELSE t[i - (n - 1)]
    BY <1>4, <2>1
  <2>4. CASE i <= n - 1
    <3>1. i \in 1 .. n - 1 /\ i + 1 <= n
      BY <1>1, <2>4
    <3>. QED  BY <1>3, <2>2, <2>3, <2>4, <3>1
  <2>5. CASE ~(i <= n - 1)
    <3>1. ~(i + 1 <= n)
      BY <1>1, <2>5
    <3>. QED  BY <2>2, <2>3, <2>5, <3>1
  <2>. QED  BY <2>4, <2>5
<1>8. Len(u) = Len(v) /\ \A i \in 1 .. Len(u) : u[i] = v[i]
  BY <1>1, <1>4, <1>6, <1>7
<1>9. u = v
  BY <1>4, <1>6, <1>8, SeqEqual
<1>. QED  BY <1>1, <1>5, <1>6, <1>9 DEF j, u, v

\* The accesses of NICsetup, one by one.
LEMMA SetupAccess ==
  ASSUME NEW k \in 1 .. 5
  PROVE  /\ SetupStart[k].op = "write"
         /\ SetupStart[k].reg \in {"ECOCON", "ERXST", "ERXWRPT", "ERXND", "ERXRDPT"}
         /\ SetupStart[k].reg = "ERXST" => SetupStart[k].arg = 0
         /\ SetupStart[k].reg = "ERXRDPT" <=> k = 5
         /\ k = 5 => SetupStart[k].arg = RX_BUF_END
<1>1. k = 1 \/ k = 2 \/ k = 3 \/ k = 4 \/ k = 5
  OBVIOUS
<1>. QED  BY <1>1 DEF SetupStart, Write, RX_BUF_ST

LEMMA SetupLeft ==
  ASSUME NEW k \in 1 .. 5, NEW rest, Calm(rest)
  PROVE  LET left == SetupFrom(k) \o rest IN
         /\ left # <<>> /\ Head(left) = SetupStart[k]
         /\ Tail(left) = IF k = 5 THEN rest ELSE SetupFrom(k + 1) \o rest
<1>1. PICK A : rest \in Seq(A)
  BY DEF Calm
<1>2. PICK B : SetupStart \in Seq(B)
  BY SetupScript DEF Script
<1> DEFINE S == A \cup B  s == SetupFrom(k)
<1>3. rest \in Seq(S) /\ SetupStart \in Seq(S)
  BY <1>1, <1>2, SeqMonotonic
<1> HIDE DEF S
<1>4. Len(SetupStart) = 5
  BY DEF SetupStart
<1>5. /\ Head(s) = SetupStart[k] /\ Tail(s) = SetupFrom(k + 1)
      /\ s \in Seq(S) /\ s # <<>>
  <2>1. 5 \in k .. 5 /\ k \in 1 .. Len(SetupStart) /\ 5 \in k .. Len(SetupStart)
    BY <1>4
  <2>2. Head(s) = SetupStart[k] /\ Tail(s) = SetupFrom(k + 1)
    BY <1>3, <2>1, HeadTailOfSubSeq DEF SetupFrom
  <2>3. ASSUME NEW i \in k .. 5 PROVE SetupStart[i] \in S
    <3>1. i \in 1 .. Len(SetupStart)
      BY <1>4
    <3>. QED  BY <1>3, <3>1, ElementOfSeq
  <2>4. s \in Seq(S) /\ Len(s) = 5 - k + 1
    BY <2>3, SubSeqProperties DEF SetupFrom
  <2> HIDE DEF s
  <2>5. s # <<>>
    BY <2>4
  <2>. QED  BY <2>2, <2>4, <2>5
<1> HIDE DEF s
<1>6. Head(s \o rest) = Head(s) /\ Tail(s \o rest) = Tail(s) \o rest /\ s \o rest # <<>>
  BY <1>3, <1>5, HeadOfJoin
<1>7. k = 5 => Tail(s) \o rest = rest
  <2>1. k = 5 => SetupFrom(k + 1) = <<>>
    BY SubSeqEmpty DEF SetupFrom
  <2>. QED  BY <1>3, <1>5, <2>1, ConcatEmptySeq
<1>. QED  BY <1>5, <1>6, <1>7 DEF s

LEMMA SettingAccess ==
  ASSUME NEW w \in Seq(Frames), NEW s, NEW base, Ring(w, s, base),
         Setting(w), AccessStep, pc' = pc
  PROVE  \E v : QueueIs(v)' /\ Moves(w, v)
<1>1. /\ pc = "setup" /\ fn = "NICsetup" /\ "RXEN" \notin econ1 /\ ptr.ERXWRPT = 0
      /\ w = <<>> /\ npp = 0 /\ epktcnt = 0 /\ at = "none" /\ seen.pkts = 0
  BY DEF Setting
<1>k. PICK k \in 1 .. 5 : \E r : Calm(r) /\ todo = SetupFrom(k) \o r
  BY DEF Setting
<1>2. PICK rest : Calm(rest) /\ todo = SetupFrom(k) \o rest
  BY <1>k
<1> DEFINE a == SetupStart[k]
<1>3. Head(todo) = a /\ Tail(todo) = IF k = 5 THEN rest ELSE SetupFrom(k + 1) \o rest
  BY <1>2, SetupLeft
<1>4. /\ a.op = "write" /\ a.reg \in {"ECOCON", "ERXST", "ERXWRPT", "ERXND", "ERXRDPT"}
      /\ a.reg = "ERXST" => a.arg = 0
      /\ a.reg = "ERXRDPT" <=> k = 5
      /\ k = 5 => a.arg = RX_BUF_END
  BY SetupAccess
<1> HIDE DEF a
<1>5. DOMAIN ptr = Pointers /\ "pkts" \in DOMAIN seen
  BY DEF Ring
<1>6. /\ todo' = Tail(todo)
      /\ UNCHANGED <<mem, epktcnt, npp, at, rx, frameSize, fn, seen>>
      /\ econ1' = checkBank(a.reg)
      /\ DOMAIN ptr' = Pointers /\ ptr'.ERXWRPT = 0
      /\ k = 5 => ptr'.ERXRDPT = RX_BUF_END
  <2>1. Head(todo).op = "write" /\ a.reg # "ECON1"
    BY <1>3, <1>4
  <2>. QED  BY <1>1, <1>3, <1>4, <1>5, <2>1, WriteIsMade
<1>7. Ring(w, s, base)'
  BY <1>1, <1>5, <1>6, RingSame
<1>8. CASE k # 5
  <2>1. "RXEN" \notin econ1'
    <3>1. a.reg \in Registers
      BY <1>4 DEF Registers, Bank0, Bank3
    <3>2. givenBank(a.reg) \subseteq BSEL /\ "RXEN" \notin BSEL
      BY <3>1, GivenBank DEF BSEL
    <3>. QED  BY <1>1, <1>6, <3>2 DEF checkBank
  <2>2. k + 1 \in 1 .. 5 /\ todo' = SetupFrom(k + 1) \o rest
    BY <1>3, <1>6, <1>8
  <2>3. \E i \in 1 .. 5 : \E r : Calm(r) /\ todo' = SetupFrom(i) \o r
    BY <1>2, <2>2
  <2>4. Setting(w)'
    BY <1>1, <1>6, <2>1, <2>3 DEF Setting
  <2>. QED  BY <1>6, <1>7, <2>4, Stays DEF Phase
<1>9. CASE k = 5
  <2>1. Place(s[1]) = 0 /\ s[1] \in Position /\ Ring(w, s, s[1])'
    <3>1. s[1] \in Position /\ Ring(w, s, s[1])
      BY Rebase
    <3>2. ptr.ERXWRPT = Place(s[Len(w) + 1]) /\ Len(w) + 1 = 1
      BY <1>1 DEF Ring
    <3>3. Ring(w, s, s[1])'
      BY <1>1, <1>5, <1>6, <3>1, RingSame
    <3>. QED  BY <1>1, <3>1, <3>2, <3>3
  <2>2. Guarded(s[1])'
    BY <1>6, <1>9, <2>1, PlaceBefore DEF Guarded
  <2>3. todo' = rest /\ Len(w) = 0
    BY <1>1, <1>3, <1>6, <1>9
  <2>4. epktcnt' = 0 /\ seen'.pkts \in 0 .. epktcnt'
    BY <1>1, <1>6
  <2>5. Quiet(w, s, s[1])'
    BY <1>1, <1>2, <1>6, <2>1, <2>3, <2>4 DEF Quiet
  <2>. QED  BY <1>6, <2>1, <2>2, <2>5, Stays DEF Phase
<1>. QED  BY <1>8, <1>9

LEMMA VectorAccess ==
  ASSUME NEW w \in Seq(Frames), NEW s, NEW base, Ring(w, s, base), Guarded(base),
         VectorWaits(w, s, base), AccessStep, pc' = pc
  PROVE  \E v : QueueIs(v)' /\ Moves(w, v)
<1>1. /\ at = "none" /\ pc = "size" /\ fn = "none" /\ seen.pkts = 0
      /\ w # <<>> /\ base = s[1] /\ npp = Place(s[1]) /\ epktcnt = Len(w)
  BY DEF VectorWaits
<1>2. DOMAIN ptr = Pointers /\ "pkts" \in DOMAIN seen /\ Stored(w, s, mem)
  BY DEF Ring
<1>3. CASE todo = <<Write("ERDPT", npp), Vector>>
  <2>1. /\ Head(todo).op = "write" /\ Head(todo).reg = "ERDPT" /\ Head(todo).arg = npp
        /\ Tail(todo) = <<Vector>>
    BY <1>3 DEF Write
  <2>2. /\ todo' = <<Vector>>
        /\ UNCHANGED <<mem, epktcnt, npp, at, rx, frameSize, fn, seen>>
        /\ DOMAIN ptr' = Pointers /\ ptr'.ERXWRPT = ptr.ERXWRPT /\ ptr'.ERXRDPT = ptr.ERXRDPT
        /\ ptr'.ERDPT = npp
    BY <1>2, <2>1, WriteIsMade
  <2>3. Ring(w, s, base)' /\ Guarded(base)'
    BY <1>2, <2>2, RingSame DEF Guarded
  <2>4. VectorWaits(w, s, base)'
    BY <1>1, <2>2 DEF VectorWaits
  <2>. QED  BY <2>2, <2>3, <2>4, Stays DEF Phase
<1>4. CASE todo = <<Vector>> /\ ptr.ERDPT = npp
  <2>1. Head(todo).op = "vector" /\ Tail(todo) = <<>>
    BY <1>4 DEF Vector
  <2>2. ReadVector
    BY <2>1 DEF AccessStep, WriteReg, ReadReg, SetRegBit, ClearRegBit, AwaitClear, Access,
                readBuffer, writeBuffer
  <2>3. /\ npp' = Cell(ptr.ERDPT) /\ frameSize' = Cell(ptr.ERDPT + 2) - 4
        /\ ptr' = [ptr EXCEPT !.ERDPT = (@ + 6) % RX_LEN]
        /\ at' = "sized" /\ todo' = <<>>
        /\ UNCHANGED <<mem, epktcnt, rx, fn, seen>>
    BY <2>1, <2>2 DEF ReadVector
  <2>4. /\ Head(w) \in Frames /\ s[1] \in Position /\ s[2] = s[1] + Extent(Head(w))
        /\ Holds(mem, s[1], Head(w))
    BY <1>1, <1>2, FirstStored
  <2>5. Cell(Place(s[1])) = Place(s[2]) /\ Cell(Place(s[1]) + 2) - 4 = FrameSize(Head(w))
    BY <2>4, VectorAt
  <2>6. (Place(s[1]) + 6) % RX_LEN = Place(s[1] + 6)
    <3>1. s[1] \in Nat /\ 6 \in Nat /\ RX_LEN \in Nat \ {0}
      BY <2>4, PlaceIsAddress, RingSize
    <3>2. ((s[1] % RX_LEN) + 6) % RX_LEN = (s[1] + 6) % RX_LEN
      BY <3>1, PlaceOn
    <3>. QED  BY <3>2 DEF Place
  <2>7. "ERXWRPT" \in Pointers /\ "ERXRDPT" \in Pointers /\ "ERDPT" \in Pointers
    BY DEF Pointers
  <2>8. /\ DOMAIN ptr' = Pointers /\ ptr'.ERXWRPT = ptr.ERXWRPT /\ ptr'.ERXRDPT = ptr.ERXRDPT
        /\ ptr'.ERDPT = Place(s[1] + 6)
    BY <1>1, <1>2, <1>4, <2>3, <2>6, <2>7
  <2>9. Ring(w, s, base)' /\ Guarded(base)'
    BY <1>2, <2>3, <2>8, RingSame DEF Guarded
  <2>10. Sized(w, s, base)'
    BY <1>1, <1>4, <2>3, <2>5, <2>8 DEF Sized
  <2>. QED  BY <2>3, <2>9, <2>10, Stays DEF Phase
<1>. QED  BY <1>3, <1>4 DEF VectorWaits

LEMMA SizedAccess ==
  ASSUME NEW w \in Seq(Frames), NEW s, NEW base, Ring(w, s, base), Guarded(base),
         Sized(w, s, base), AccessStep, pc' = pc
  PROVE  \E v : QueueIs(v)' /\ Moves(w, v)
<1> DEFINE n == Len(w)  t == [i \in 1 .. n |-> s[i + 1]]
<1>1. /\ at = "sized" /\ fn = "none" /\ seen.pkts = 0
      /\ w # <<>> /\ base = s[1] /\ npp = Place(s[2]) /\ epktcnt = n
      /\ ptr.ERDPT = Place(s[1] + 6) /\ frameSize = FrameSize(Head(w))
  BY DEF Sized
<1>2. /\ DOMAIN ptr = Pointers /\ "pkts" \in DOMAIN seen /\ Stored(w, s, mem)
      /\ mem \in [Addresses -> Nat] /\ base \in Position
      /\ s[n + 1] < base + RX_LEN /\ ptr.ERXWRPT = Place(s[n + 1])
  BY DEF Ring
<1>3. pc = "frame" /\ todo = <<CopyFrame, Release, CountOff>>
  BY DEF Sized, AccessStep, WriteReg, ReadReg, SetRegBit, ClearRegBit, AwaitClear, Access,
         ReadVector, readBuffer, writeBuffer
<1>4. Head(todo) = CopyFrame /\ CopyFrame.op = "RBM" /\ CopyFrame.arg = frameSize
      /\ Tail(todo) = <<Release, CountOff>>
  BY <1>3 DEF CopyFrame
<1>5. readBuffer
  BY <1>4 DEF AccessStep, WriteReg, ReadReg, SetRegBit, ClearRegBit, AwaitClear, Access,
              ReadVector, writeBuffer
<1>6. /\ rx' = Data(ptr.ERDPT, frameSize)
      /\ ptr' = [ptr EXCEPT !.ERDPT = (@ + frameSize) % RX_LEN]
      /\ at' = "copied" /\ todo' = <<Release, CountOff>>
      /\ UNCHANGED <<mem, epktcnt, npp, fn, seen>>
  BY <1>4, <1>5 DEF readBuffer
<1>7. /\ Head(w) \in Frames /\ Tail(w) \in Seq(Frames) /\ Len(Tail(w)) = n - 1
      /\ s[1] \in Position /\ Holds(mem, s[1], Head(w))
  BY <1>1, <1>2, FirstStored
<1>8. rx' = Content(Head(w))
  BY <1>1, <1>6, <1>7, DataAt
<1>9. /\ DOMAIN ptr' = Pointers /\ ptr'.ERXWRPT = ptr.ERXWRPT /\ ptr'.ERXRDPT = ptr.ERXRDPT
  <2>1. "ERXWRPT" \in Pointers /\ "ERXRDPT" \in Pointers
    BY DEF Pointers
  <2>. QED  BY <1>2, <1>6, <2>1
<1>10. Stored(Tail(w), t, mem)
  BY <1>1, <1>2, TailStored
<1>11. n \in Nat /\ n >= 1
  BY <1>1, EmptySeq
<1>12. t[1] = s[2] /\ t[(n - 1) + 1] = s[n + 1] /\ s[1] <= s[2]
  <2>1. 1 \in 1 .. n /\ n \in 1 .. n /\ (n - 1) + 1 = n /\ 1 + 1 = 2
    BY <1>11
  <2>2. 1 \in 1 .. n + 1 /\ 2 \in 1 .. n + 1
    BY <1>11
  <2>3. s[1] <= s[2]
    BY <1>2, <2>2, StoredRange
  <2>. QED  BY <2>1, <2>3
<1> HIDE DEF t, n
<1>13. Ring(Tail(w), t, base)'
  BY <1>1, <1>2, <1>6, <1>7, <1>9, <1>10, <1>12 DEF Ring
<1>14. Guarded(base)'
  BY <1>9 DEF Guarded
<1>15. Copied(Tail(w), t, base)'
  <2>1. epktcnt' = Len(Tail(w)) + 1 /\ npp' = Place(t[1])
    BY <1>1, <1>6, <1>7, <1>11, <1>12
  <2>2. todo' = <<Release', CountOff>>
    BY <1>6 DEF Release
  <2>. QED  BY <1>1, <1>3, <1>6, <2>1, <2>2 DEF Copied
<1>16. QueueIs(Tail(w))'
  BY <1>7, <1>13, <1>14, <1>15 DEF QueueIs, Phase
<1>. QED  BY <1>1, <1>8, <1>16 DEF Moves

LEMMA CopiedAccess ==
  ASSUME NEW w \in Seq(Frames), NEW s, NEW base, Ring(w, s, base), Guarded(base),
         Copied(w, s, base), AccessStep, pc' = pc
  PROVE  \E v : QueueIs(v)' /\ Moves(w, v)
<1>1. /\ at = "copied" /\ pc = "frame" /\ fn = "none" /\ seen.pkts = 0
      /\ npp = Place(s[1]) /\ epktcnt = Len(w) + 1
  BY DEF Copied
<1>2. DOMAIN ptr = Pointers /\ "pkts" \in DOMAIN seen
  BY DEF Ring
<1>3. CASE todo = <<Release, CountOff>>
  <2>1. /\ Head(todo).op = "write" /\ Head(todo).reg = "ERXRDPT"
        /\ Head(todo).arg = IF npp # RX_BUF_ST THEN npp - 1 ELSE RX_BUF_END
        /\ Tail(todo) = <<CountOff>>
    BY <1>3 DEF Release, Write
  <2>2. /\ todo' = <<CountOff>>
        /\ UNCHANGED <<mem, epktcnt, npp, at, rx, frameSize, fn, seen>>
        /\ DOMAIN ptr' = Pointers /\ ptr'.ERXWRPT = ptr.ERXWRPT
        /\ ptr'.ERXRDPT = Head(todo).arg
    BY <1>2, <2>1, WriteIsMade
  <2>3. s[1] \in Position /\ Ring(w, s, s[1])
    BY Rebase
  <2>4. Ring(w, s, s[1])'
    BY <1>2, <2>2, <2>3, RingSame
  <2>5. Guarded(s[1])'
    BY <1>1, <2>1, <2>2, <2>3, PlaceBefore DEF Guarded, RX_BUF_ST
  <2>6. Copied(w, s, s[1])'
    BY <1>1, <2>2 DEF Copied
  <2>. QED  BY <2>2, <2>4, <2>5, <2>6, Stays DEF Phase
<1>4. CASE todo = <<CountOff>> /\ base = s[1]
  <2>1. Head(todo).op = "set" /\ Head(todo).arg = {"PKTDEC"} /\ Tail(todo) = <<>>
    BY <1>4 DEF CountOff, SetBits
  <2>2. SetRegBit
    BY <2>1 DEF AccessStep, WriteReg, ReadReg, ClearRegBit, AwaitClear, Access, ReadVector,
                readBuffer, writeBuffer
  <2>3. /\ todo' = <<>> /\ epktcnt' = epktcnt - 1 /\ at' = "none"
        /\ UNCHANGED <<mem, ptr, npp, rx, fn, seen>>
    BY <2>1, <2>2 DEF SetRegBit
  <2>4. epktcnt' = Len(w) /\ Len(w) \in Nat
    BY <1>1, <2>3, LenProperties
  <2>5. Ring(w, s, base)' /\ Guarded(base)'
    BY <1>2, <2>3, RingSame DEF Guarded
  <2>6. Quiet(w, s, base)'
    BY <1>1, <1>4, <2>3, <2>4, EmptyCalm DEF Quiet
  <2>. QED  BY <2>3, <2>5, <2>6, Stays DEF Phase
<1>. QED  BY <1>3, <1>4 DEF Copied

-----------------------------------------------------------------------------
(* Calls, and the controller's steps.                                      *)

\* With no access left, no frame is at hand, or packetHandler knows its size.
LEMMA AtRest ==
  ASSUME NEW w, NEW s, NEW base, Phase(w, s, base), todo = <<>>
  PROVE  /\ Guarded(base)
         /\ Quiet(w, s, base) \/ (Sized(w, s, base) /\ pc = "size" /\ fn = "none")
<1>1. ~Setting(w)
  BY SetupLeft DEF Setting
<1>2. ~VectorWaits(w, s, base) /\ ~Copied(w, s, base)
  BY DEF VectorWaits, Copied
<1>3. Sized(w, s, base) => pc = "size" /\ fn = "none"
  BY DEF Sized
<1>. QED  BY <1>1, <1>2, <1>3 DEF Phase

\* A function that leaves the frames alone begins, or goes on.
LEMMA QuietGoesOn ==
  ASSUME NEW w \in Seq(Frames), NEW s, NEW base, Ring(w, s, base), Guarded(base),
         Quiet(w, s, base), Calm(todo'),
         UNCHANGED <<mem, ptr, epktcnt, npp, rx, at>>, seen' \in {seen, NothingSeen},
         fn' = "getFrameSize" => pc' = "size",
         pc' = "size" => fn' = "getFrameSize" \/ (fn' = "none" /\ todo' = <<>> /\ frameSize' = 0)
  PROVE  \E v : QueueIs(v)' /\ Moves(w, v)
<1>1. "pkts" \in DOMAIN NothingSeen /\ NothingSeen.pkts = 0
  BY DEF NothingSeen
<1>2. DOMAIN ptr = Pointers /\ "pkts" \in DOMAIN seen
  BY DEF Ring
<1>3. Ring(w, s, base)' /\ Guarded(base)'
  BY <1>1, <1>2, RingSame DEF Guarded
<1>4. Len(w) \in Nat /\ epktcnt = Len(w)
  BY LenProperties DEF Quiet
<1>5. seen'.pkts \in 0 .. epktcnt'
  BY <1>1, <1>4 DEF Quiet
<1>6. Quiet(w, s, base)'
  BY <1>5 DEF Quiet
<1>. QED  BY <1>3, <1>6, Stays DEF Phase

\* A call of packetHandler or of another function, when no frame is at hand.
LEMMA CalmCall ==
  ASSUME NEW w, QueueIs(w), NEW script, NEW to, Calm(script), GoOn("none", script, to),
         pc # "size", to = "getFrameSize" <=> pc' = "size"
  PROVE  \E v : QueueIs(v)' /\ Moves(w, v)
<1>1. w \in Seq(Frames)
  BY DEF QueueIs
<1>2. PICK s, base : Ring(w, s, base) /\ Phase(w, s, base)
  BY DEF QueueIs
<1>3. /\ todo = <<>> /\ todo' = script /\ fn' = to
      /\ UNCHANGED <<mem, ptr, epktcnt, npp, rx, at>> /\ seen' \in {seen, NothingSeen}
  BY DEF GoOn, chip
<1>4. Guarded(base) /\ Quiet(w, s, base)
  BY <1>2, <1>3, AtRest
<1>. QED  BY <1>1, <1>2, <1>3, <1>4, QuietGoesOn

\* A function goes on, other than getFrameSize.
LEMMA CalmGoOn ==
  ASSUME NEW w, QueueIs(w), NEW from, NEW script, NEW to, Calm(script), GoOn(from, script, to),
         from \notin {"none", "getFrameSize"}, to # "getFrameSize", pc' = pc
  PROVE  \E v : QueueIs(v)' /\ Moves(w, v)
<1>1. w \in Seq(Frames)
  BY DEF QueueIs
<1>2. PICK s, base : Ring(w, s, base) /\ Phase(w, s, base)
  BY DEF QueueIs
<1>3. /\ todo = <<>> /\ fn = from /\ todo' = script /\ fn' = to
      /\ UNCHANGED <<mem, ptr, epktcnt, npp, rx, at>> /\ seen' \in {seen, NothingSeen}
  BY DEF GoOn, chip
<1>4. Guarded(base) /\ Quiet(w, s, base)
  BY <1>2, <1>3, AtRest
<1>5. pc # "size"
  BY <1>3, <1>4 DEF Quiet
<1>. QED  BY <1>1, <1>2, <1>3, <1>4, <1>5, QuietGoesOn

\* The functions called besides packetHandler's leave the frames alone.
LEMMA OtherCallCalm ==
  ASSUME OtherCall
  PROVE  \E script, to : Calm(script) /\ GoOn("none", script, to) /\ to # "getFrameSize"
<1>1. CASE Call(WritePHY, "none") \/ Call(ReadPHY, "none")
  BY <1>1, PHYScripts DEF Call
<1>2. CASE Call(StartPHYscan \o ReadPHYscan \o StopPHYscan, "none")
  <2> DEFINE script == StartPHYscan \o ReadPHYscan \o StopPHYscan
  <2>1. Calm(script)
    BY PHYScanScripts, CalmConcat
  <2>2. GoOn("none", script, "none")
    BY <1>2 DEF Call
  <2> HIDE DEF script
  <2>. QED  BY <2>1, <2>2
<1>3. CASE Call(DMAcopy, "none") \/ Call(DMAchecksum, "none") \/ Call(getChecksum, "none")
  BY <1>3, DMAScripts DEF Call
<1>4. CASE \/ Call(startPauseFrames, "none") \/ Call(stopPauseFrames, "none")
           \/ Call(addMACtoTable, "none")
  BY <1>4, FilterScripts DEF Call
<1>5. CASE FreeBufferSpace
  <2>1. PICK reads \in ReadWritePointer :
          Call(<<Read("ERXRDPT", "rdpt")>> \o reads, "freeBufferSpace")
    BY <1>5 DEF FreeBufferSpace
  <2> DEFINE script == <<Read("ERXRDPT", "rdpt")>> \o reads
  <2>2. Calm(script)
    BY SpaceScripts
  <2>3. GoOn("none", script, "freeBufferSpace")
    BY <2>1 DEF Call
  <2> HIDE DEF script
  <2>. QED  BY <2>2, <2>3
<1>. QED  BY <1>1, <1>2, <1>3, <1>4, <1>5 DEF OtherCall

LEMMA FrameThereMoves ==
  ASSUME NEW w, QueueIs(w), FrameThere, pc' = pc
  PROVE  \E v : QueueIs(v)' /\ Moves(w, v)
<1>1. w \in Seq(Frames) /\ Len(w) \in Nat
  BY LenProperties DEF QueueIs
<1>2. PICK s, base : Ring(w, s, base) /\ Phase(w, s, base)
  BY DEF QueueIs
<1>3. /\ todo = <<>> /\ fn = "getFrameSize" /\ fn' = "none" /\ seen' = NothingSeen
      /\ UNCHANGED <<mem, ptr, epktcnt, npp, rx, at>>
      /\ todo' = IF seen.pkts = 0 THEN <<>> ELSE <<Write("ERDPT", npp), Vector>>
      /\ frameSize' = IF seen.pkts = 0 THEN 0 ELSE frameSize
  BY DEF FrameThere, GoOn, chip, Vector
<1>4. Guarded(base) /\ Quiet(w, s, base)
  BY <1>2, <1>3, AtRest
<1>5. CASE seen.pkts = 0
  BY <1>1, <1>2, <1>3, <1>4, <1>5, EmptyCalm, QuietGoesOn
<1>6. CASE seen.pkts # 0
  <2>1. /\ at = "none" /\ base = s[1] /\ npp = Place(s[1]) /\ epktcnt = Len(w) /\ pc = "size"
        /\ seen.pkts \in 0 .. epktcnt
    BY <1>3, <1>4 DEF Quiet
  <2>2. w # <<>>
    <3>1. epktcnt # 0
      BY <1>1, <1>6, <2>1
    <3>. QED  BY <2>1, <3>1
  <2>3. "pkts" \in DOMAIN NothingSeen /\ NothingSeen.pkts = 0
    BY DEF NothingSeen
  <2>4. DOMAIN ptr = Pointers
    BY <1>2 DEF Ring
  <2>5. Ring(w, s, base)' /\ Guarded(base)'
    BY <1>2, <1>3, <1>4, <2>3, <2>4, RingSame DEF Guarded
  <2>6. VectorWaits(w, s, base)'
    BY <1>3, <1>6, <2>1, <2>2, <2>3 DEF VectorWaits, Write
  <2>. QED  BY <1>1, <1>3, <2>5, <2>6, Stays DEF Phase
<1>. QED  BY <1>5, <1>6

LEMMA SizeKnownMoves ==
  ASSUME NEW w, QueueIs(w), SizeKnown
  PROVE  \E v : QueueIs(v)' /\ Moves(w, v)
<1>1. w \in Seq(Frames)
  BY DEF QueueIs
<1>2. PICK s, base : Ring(w, s, base) /\ Phase(w, s, base)
  BY DEF QueueIs
<1>3. /\ todo = <<>> /\ fn = "none" /\ pc = "size"
      /\ IF frameSize = 0 THEN pc' = "idle" /\ UNCHANGED nicVars
                          ELSE pc' = "frame" /\ readFrame
  BY DEF SizeKnown, Idle, Goto
<1>4. /\ Guarded(base)
      /\ Quiet(w, s, base) \/ Sized(w, s, base)
  BY <1>2, <1>3, AtRest
<1>5. CASE Quiet(w, s, base)
  <2>1. frameSize = 0
    BY <1>3, <1>5 DEF Quiet
  <2>2. pc' = "idle" /\ UNCHANGED <<mem, ptr, epktcnt, npp, rx, at, seen, todo, fn>>
    BY <1>3, <2>1 DEF nicVars, chip, driver
  <2>3. Calm(todo')
    BY <1>5, <2>2 DEF Quiet
  <2>. QED  BY <1>1, <1>2, <1>3, <1>4, <1>5, <2>2, <2>3, QuietGoesOn
<1>6. CASE Sized(w, s, base)
  <2>1. /\ at = "sized" /\ w # <<>> /\ base = s[1] /\ npp = Place(s[2]) /\ epktcnt = Len(w)
        /\ ptr.ERDPT = Place(s[1] + 6) /\ frameSize = FrameSize(Head(w))
    BY <1>6 DEF Sized
  <2>2. frameSize # 0
    <3>1. Head(w) \in Frames
      BY <1>1, <2>1, HeadTailProperties
    <3>. QED  BY <2>1, <3>1, Extents
  <2>3. /\ pc' = "frame" /\ fn' = "none" /\ seen' = NothingSeen
        /\ todo' = <<CopyFrame, Release, CountOff>>
        /\ UNCHANGED <<mem, ptr, epktcnt, npp, rx, at, frameSize>>
    BY <1>3, <2>2 DEF readFrame, Call, GoOn, chip, CopyFrame, CountOff
  <2>4. "pkts" \in DOMAIN NothingSeen /\ NothingSeen.pkts = 0
    BY DEF NothingSeen
  <2>5. DOMAIN ptr = Pointers
    BY <1>2 DEF Ring
  <2>6. Ring(w, s, base)' /\ Guarded(base)'
    BY <1>2, <1>4, <2>3, <2>4, <2>5, RingSame DEF Guarded
  <2>7. CopyFrame' = CopyFrame /\ Release' = Release
    BY <2>3 DEF CopyFrame, Release
  <2>8. Sized(w, s, base)'
    BY <2>1, <2>3, <2>4, <2>7 DEF Sized
  <2>. QED  BY <1>1, <2>3, <2>6, <2>8, Stays DEF Phase
<1>. QED  BY <1>4, <1>5, <1>6

\* The controller finishes what it was told to do.
LEMMA FinishMoves ==
  ASSUME NEW w, QueueIs(w), pc' = pc, econ1' \subseteq econ1,
         UNCHANGED <<mem, ptr, epktcnt, npp, rx, at, seen, todo, fn, frameSize>>
  PROVE  \E v : QueueIs(v)' /\ Moves(w, v)
<1>1. w \in Seq(Frames)
  BY DEF QueueIs
<1>2. PICK s, base : Ring(w, s, base) /\ Phase(w, s, base)
  BY DEF QueueIs
<1>3. Ring(w, s, base)'
  BY <1>2 DEF Ring
<1>4. Phase(w, s, base)'
  <2>1. CASE Setting(w)
    BY <2>1 DEF Setting, Phase
  <2>2. CASE Guarded(base) /\ Quiet(w, s, base)
    BY <2>2 DEF Guarded, Quiet, Phase
  <2>3. CASE Guarded(base) /\ VectorWaits(w, s, base)
    BY <2>3 DEF Guarded, VectorWaits, Phase
  <2>4. CASE Guarded(base) /\ Sized(w, s, base)
    <3>1. CopyFrame' = CopyFrame /\ Release' = Release
      BY DEF CopyFrame, Release
    <3>. QED  BY <2>4, <3>1 DEF Guarded, Sized, Phase
  <2>5. CASE Guarded(base) /\ Copied(w, s, base)
    <3>1. Release' = Release
      BY DEF Release
    <3>. QED  BY <2>5, <3>1 DEF Guarded, Copied, Phase
  <2>. QED  BY <1>2, <2>1, <2>2, <2>3, <2>4, <2>5 DEF Phase
<1>. QED  BY <1>1, <1>3, <1>4, Stays

\* No call is under way, and only packetHandler goes on.
LEMMA HandlerMoves ==
  ASSUME NEW w, QueueIs(w), UNCHANGED nicVars,
         pc' = pc \/ ((todo = <<>> \/ pc = "icmp") /\ pc # "size" /\ pc' # "size")
  PROVE  \E v : QueueIs(v)' /\ Moves(w, v)
<1>1. w \in Seq(Frames)
  BY DEF QueueIs
<1>2. PICK s, base : Ring(w, s, base) /\ Phase(w, s, base)
  BY DEF QueueIs
<1>3. UNCHANGED <<econ1, mem, ptr, epktcnt, npp, rx, at, seen, todo, fn, frameSize>>
  BY DEF nicVars, chip, driver
<1>4. CASE pc' = pc
  BY <1>3, <1>4, FinishMoves
<1>5. CASE (todo = <<>> \/ pc = "icmp") /\ pc # "size" /\ pc' # "size"
  <2>1. Guarded(base) /\ Quiet(w, s, base)
    <3>1. CASE todo = <<>>
      BY <1>2, <1>5, <3>1, AtRest
    <3>2. CASE pc = "icmp"
      BY <1>2, <3>2 DEF Phase, Setting, VectorWaits, Sized, Copied
    <3>. QED  BY <1>5, <3>1, <3>2
  <2>2. Calm(todo') /\ fn' # "getFrameSize"
    BY <1>3, <1>5, <2>1 DEF Quiet
  <2>. QED  BY <1>1, <1>2, <1>3, <1>5, <2>1, <2>2, QuietGoesOn
<1>. QED  BY <1>4, <1>5

\* A frame arrives behind those that are there.
LEMMA ReceiveMoves ==
  ASSUME NEW w, QueueIs(w), NEW f \in Frames, Receive(f), pc' = pc
  PROVE  \E v : QueueIs(v)' /\ Moves(w, v)
<1> DEFINE v == Append(w, f)
<1>1. w \in Seq(Frames)
  BY DEF QueueIs
<1>2. PICK s, base : Ring(w, s, base) /\ Phase(w, s, base)
  BY DEF QueueIs
<1>3. /\ "RXEN" \in econ1 /\ epktcnt' = epktcnt + 1
      /\ UNCHANGED <<npp, rx, at, seen, todo, fn, frameSize>>
      /\ ptr' = [ptr EXCEPT !.ERXWRPT = (ptr.ERXWRPT + Extent(f)) % RX_LEN]
  BY DEF Receive, driver
<1>4. /\ Guarded(base)
      /\ Quiet(w, s, base) \/ VectorWaits(w, s, base) \/ Sized(w, s, base) \/ Copied(w, s, base)
  BY <1>2, <1>3 DEF Phase, Setting
<1>5. PICK t : Ring(v, t, base)' /\ t[1] = s[1] /\ (w # <<>> => t[2] = s[2])
  BY <1>1, <1>2, <1>4, RingReceives
<1>6. DOMAIN ptr = Pointers
  BY <1>2 DEF Ring
<1>7. ptr'.ERXRDPT = ptr.ERXRDPT /\ ptr'.ERDPT = ptr.ERDPT
  <2>1. "ERDPT" \in Pointers /\ "ERXRDPT" \in Pointers
    BY DEF Pointers
  <2>. QED  BY <1>3, <1>6, <2>1
<1>8. /\ v \in Seq(Frames) /\ Len(v) = Len(w) + 1 /\ Len(w) \in Nat
      /\ v # <<>> /\ (w # <<>> => Head(v) = Head(w))
  <2>1. v \in Seq(Frames) /\ Len(v) = Len(w) + 1 /\ Len(w) \in Nat /\ v # <<>>
    BY <1>1, LenProperties
  <2>2. w # <<>> => v[1] = w[1]
    BY <1>1, EmptySeq
  <2>. QED  BY <1>1, <2>1, <2>2
<1> HIDE DEF v
<1>9. Guarded(base)'
  BY <1>4, <1>7 DEF Guarded
<1>10. Phase(v, t, base)'
  <2>1. CASE Quiet(w, s, base)
    <3>1. seen'.pkts \in 0 .. epktcnt'
      BY <1>3, <1>8, <2>1 DEF Quiet
    <3>2. Quiet(v, t, base)'
      BY <1>3, <1>5, <1>8, <2>1, <3>1 DEF Quiet
    <3>. QED  BY <1>9, <3>2 DEF Phase
  <2>2. CASE VectorWaits(w, s, base)
    <3>1. VectorWaits(v, t, base)'
      BY <1>3, <1>5, <1>7, <1>8, <2>2 DEF VectorWaits
    <3>. QED  BY <1>9, <3>1 DEF Phase
  <2>3. CASE Sized(w, s, base)
    <3>1. CopyFrame' = CopyFrame /\ Release' = Release
      BY <1>3 DEF CopyFrame, Release
    <3>2. Sized(v, t, base)'
      BY <1>3, <1>5, <1>7, <1>8, <2>3, <3>1 DEF Sized
    <3>. QED  BY <1>9, <3>2 DEF Phase
  <2>4. CASE Copied(w, s, base)
    <3>1. Release' = Release
      BY <1>3 DEF Release
    <3>2. Copied(v, t, base)'
      BY <1>3, <1>5, <1>8, <2>4, <3>1 DEF Copied
    <3>. QED  BY <1>9, <3>2 DEF Phase
  <2>. QED  BY <1>4, <2>1, <2>2, <2>3, <2>4
<1>11. QueueIs(v)'
  BY <1>5, <1>8, <1>10 DEF QueueIs
<1>. QED  BY <1>3, <1>11 DEF Moves, v

LEMMA AccessMoves ==
  ASSUME NEW w, QueueIs(w), AccessStep, pc' = pc
  PROVE  \E v : QueueIs(v)' /\ Moves(w, v)
<1>1. w \in Seq(Frames)
  BY DEF QueueIs
<1>2. PICK s, base : Ring(w, s, base) /\ Phase(w, s, base)
  BY DEF QueueIs
<1>. QED
  BY <1>1, <1>2, SettingAccess, QuietAccess, VectorAccess, SizedAccess, CopiedAccess DEF Phase

LEMMA ContinueMoves ==
  ASSUME NEW w, QueueIs(w), Continue, pc' = pc
  PROVE  \E v : QueueIs(v)' /\ Moves(w, v)
<1>1. CASE WaitForLink
  <2>1. CASE GoOn("NICsetup", ReadPHY, "link") \/ GoOn("link", ReadPHY, "link")
    BY <2>1, PHYScripts, CalmGoOn
  <2>2. CASE GoOn("link", <<Read("EREVID", "any")>>, "none")
    BY <2>2, FrameScripts, CalmGoOn
  <2>. QED  BY <1>1, <2>1, <2>2 DEF WaitForLink
<1>2. CASE FrameThere
  BY <1>2, FrameThereMoves
<1>3. CASE FrameWritten
  <2> DEFINE script == <<Write("ETXND", seen.end - 1), Await("ECON1", "DMAST"),
                         ClearBits("EIR", {"TXIF"}), SetBits("ECON1", {"TXRST"}),
                         ClearBits("ECON1", {"TXRST"}), SetBits("ECON1", {"TXRTS"})>>
  <2>1. Calm(script)
    <3>1. Len(<<>>) \in Nat
      OBVIOUS
    <3>. QED  BY <3>1, SendScripts
  <2>2. GoOn("sendEthernetFrame", script, "none")
    BY <1>3 DEF FrameWritten
  <2> HIDE DEF script
  <2>. QED  BY <2>1, <2>2, CalmGoOn
<1>4. CASE SpaceKnown
  <2>1. ASSUME NEW reads \in ReadWritePointer, GoOn("freeBufferSpace", reads, "freeBufferSpace")
        PROVE  \E v : QueueIs(v)' /\ Moves(w, v)
    BY <2>1, SpaceScripts, CalmGoOn
  <2>2. CASE GoOn("freeBufferSpace", <<>>, "none")
    BY <2>2, EmptyCalm, CalmGoOn
  <2>. QED  BY <1>4, <2>1, <2>2 DEF SpaceKnown
<1>. QED  BY <1>1, <1>2, <1>3, <1>4 DEF Continue

LEMMA ChipMoves ==
  ASSUME NEW w, QueueIs(w), ChipStep, pc' = pc
  PROVE  \E v : QueueIs(v)' /\ Moves(w, v)
<1>1. ASSUME NEW f \in Frames, Receive(f) PROVE \E v : QueueIs(v)' /\ Moves(w, v)
  BY <1>1, ReceiveMoves
<1>2. CASE Finish("TXRTS") \/ Finish("DMAST") \/ PHYdone
  <2>1. econ1' \subseteq econ1 /\ UNCHANGED <<mem, ptr, epktcnt, npp, rx, at, seen, todo, fn, frameSize>>
    BY <1>2 DEF Finish, PHYdone, driver
  <2>. QED  BY <2>1, FinishMoves
<1>. QED  BY <1>1, <1>2 DEF ChipStep

\* Whatever is done, the frames that wait stay, but for the one at the ends.
LEMMA NextMoves ==
  ASSUME NEW w, QueueIs(w), [Next]_vars
  PROVE  \E v : QueueIs(v)' /\ Moves(w, v)
<1>1. CASE Enter \/ OtherFrame \/ NoRouter \/ Sent
  <2>1. packetPending /\ pc # "size" /\ pc' = "pending"
    BY <1>1 DEF Enter, OtherFrame, NoRouter, Sent, Goto
  <2>2. GoOn("none", <<Read("EPKTCNT", "pkts")>>, "none")
    BY <2>1 DEF packetPending, Call
  <2>. QED  BY <2>1, <2>2, FrameScripts, CalmCall
<1>2. CASE SizeOfFrame
  <2>1. getFrameSize /\ pc # "size" /\ pc' = "size"
    BY <1>2 DEF SizeOfFrame, Goto
  <2>2. GoOn("none", <<Read("EPKTCNT", "pkts")>>, "getFrameSize")
    BY <2>1 DEF getFrameSize, Call
  <2>. QED  BY <2>1, <2>2, FrameScripts, CalmCall
<1>3. CASE SizeKnown
  BY <1>3, SizeKnownMoves
<1>4. CASE NonePending \/ ICMPv4processor
  <2>1. UNCHANGED nicVars /\ todo = <<>> /\ pc # "size" /\ pc' # "size"
    BY <1>4 DEF NonePending, ICMPv4processor, Goto, Idle
  <2>. QED  BY <2>1, HandlerMoves
<1>5. CASE checksumRuns \/ UNCHANGED vars
  <2>1. UNCHANGED nicVars /\ pc' = pc
    BY <1>5 DEF checksumRuns, vars, handlerVars
  <2>. QED  BY <2>1, HandlerMoves
<1>6. CASE sendIPv4packet
  <2>1. UNCHANGED nicVars /\ pc = "icmp" /\ pc' = "ip"
    BY <1>6 DEF sendIPv4packet, Goto
  <2>. QED  BY <2>1, HandlerMoves
<1>7. CASE SendPacket
  <2> DEFINE blocks == <<ETHERNET, WithChecksum(packet, 11, acc), reply>>
             script == <<Await("ECON1", "TXRTS"), Write("EWRPT", TX_BUF_ST), WriteBlock(<<0>>)>>
                         \o [k \in 1 .. Len(blocks) |-> WriteBlock(blocks[k])]
                         \o <<Read("EWRPT", "end")>>
  <2>1. Len(blocks) \in Nat /\ sendEthernetFrame(blocks) /\ pc # "size" /\ pc' = "send"
    BY <1>7 DEF SendPacket, Goto
  <2> HIDE DEF blocks
  <2>2. Calm(script)
    BY <2>1, SendScripts
  <2>3. GoOn("none", script, "sendEthernetFrame")
    BY <2>1 DEF sendEthernetFrame, Call
  <2> HIDE DEF script
  <2>. QED  BY <2>1, <2>2, <2>3, CalmCall
<1>8. CASE Elsewhere
  <2>1. OtherCall /\ pc # "size" /\ pc' # "size"
    BY <1>8 DEF Elsewhere, handlerVars
  <2>2. PICK script, to : Calm(script) /\ GoOn("none", script, to) /\ to # "getFrameSize"
    BY <2>1, OtherCallCalm
  <2>. QED  BY <2>1, <2>2, CalmCall
<1>9. CASE (AccessStep \/ Continue) /\ UNCHANGED <<sumVars, handlerVars>>
  <2>1. (AccessStep \/ Continue) /\ pc' = pc
    BY <1>9 DEF handlerVars
  <2>. QED  BY <2>1, AccessMoves, ContinueMoves
<1>10. CASE ChipStep /\ UNCHANGED <<sumVars, pc, reply, packet, routerMAC>>
  <2>. QED  BY <1>10, ChipMoves
<1>. QED  BY <1>1, <1>2, <1>3, <1>4, <1>5, <1>6, <1>7, <1>8, <1>9, <1>10 DEF Next

FifoInv == \E w : QueueIs(w)

LEMMA FifoStart == Init => FifoInv
<1> SUFFICES ASSUME Init PROVE FifoInv
  OBVIOUS
<1> DEFINE w == <<>>  s == [i \in 1 .. 1 |-> 0]
<1>1. /\ NicInit /\ pc = "setup"
  BY DEF Init
<1>2. /\ econ1 \in SUBSET BSEL
      /\ ptr = [ERDPT |-> 0, EWRPT |-> 0, ETXND |-> 0, ERXRDPT |-> 0, ERXWRPT |-> 0]
      /\ epktcnt = 0 /\ npp = 0 /\ todo = NICsetup /\ fn = "NICsetup" /\ seen = NothingSeen
      /\ at = "none"
      /\ mem = [a \in Addresses |-> 0]
  BY <1>1 DEF NicInit, RX_BUF_ST, Addresses
<1>3. w \in Seq(Frames) /\ Len(w) = 0
  OBVIOUS
<1>4. Stored(w, s, mem)
  <2>1. 0 \in Position
    BY DEF Position
  <2>2. s \in [1 .. 1 -> Position] /\ s[1] = 0
    BY <2>1
  <2> HIDE DEF w, s
  <2>3. Len(w) + 1 = 1 /\ 1 .. Len(w) = {}
    BY <1>3
  <2>. QED  BY <2>2, <2>3 DEF Stored
<1>5. ptr.ERXWRPT = 0 /\ DOMAIN ptr = Pointers
  BY <1>2 DEF Pointers
<1>6. Place(0) = 0 /\ s[1] = 0 /\ RX_LEN \in Nat \ {0} /\ 0 \in Position
  BY RingSize DEF Place, Position
<1> HIDE DEF w, s
<1>7. Ring(w, s, 0)
  <2>1. mem \in [Addresses -> Nat]
    BY <1>2
  <2>2. "pkts" \in DOMAIN seen
    BY <1>2 DEF NothingSeen
  <2>3. s[Len(w) + 1] = 0
    BY <1>3, <1>6
  <2>. QED  BY <1>4, <1>5, <1>6, <2>1, <2>2, <2>3 DEF Ring
<1>8. Setting(w)
  <2>1. "RXEN" \notin econ1
    BY <1>2 DEF BSEL
  <2>2. PICK rest : Calm(rest) /\ NICsetup = SetupStart \o rest
    BY SetupScript
  <2>3. SetupFrom(1) = SetupStart
    <3>1. Len(SetupStart) = 5
      BY DEF SetupStart
    <3>2. PICK S : SetupStart \in Seq(S)
      BY SetupScript DEF Script
    <3>. QED  BY <3>1, <3>2, SubSeqFull DEF SetupFrom
  <2>4. \E k \in 1 .. 5 : \E r : Calm(r) /\ todo = SetupFrom(k) \o r
    <3>1. 1 \in 1 .. 5 /\ Calm(rest) /\ todo = SetupFrom(1) \o rest
      BY <1>2, <2>2, <2>3
    <3>. QED  BY <3>1, Zenon
  <2>5. seen.pkts = 0
    BY <1>2 DEF NothingSeen
  <2>. QED  BY <1>1, <1>2, <1>5, <2>1, <2>4, <2>5 DEF Setting, w
<1>. QED  BY <1>3, <1>7, <1>8 DEF FifoInv, QueueIs, Phase

PendingIsHeld == \A w : QueueIs(w) => Pending = Held(w)

LEMMA PendingAlways == PendingIsHeld
BY PendingHeld DEF PendingIsHeld

\* Every step is one of the abstract queue, or none.
LEMMA FifoStep ==
  FifoInv /\ PendingIsHeld /\ PendingIsHeld' /\ [Next]_vars => [Fifo!Next]_(Fifo!vars)
<1> SUFFICES ASSUME FifoInv, PendingIsHeld, PendingIsHeld', [Next]_vars
             PROVE  [Fifo!Next]_(Fifo!vars)
  OBVIOUS
<1>1. PICK w : QueueIs(w)
  BY DEF FifoInv
<1>2. PICK v : QueueIs(v)' /\ Moves(w, v)
  BY <1>1, NextMoves
<1>3. Pending = Held(w) /\ Pending' = Held(v)
  BY <1>1, <1>2 DEF PendingIsHeld
<1>4. w \in Seq(Frames)
  BY <1>1 DEF QueueIs
<1>5. CASE v = w /\ rx' = rx
  BY <1>3, <1>5 DEF Fifo!vars
<1>6. ASSUME NEW f \in Frames, v = Append(w, f), rx' = rx PROVE Fifo!Next
  <2>1. Pending' = Append(Pending, Content(f))
    BY <1>3, <1>4, <1>6, HeldAppend
  <2>2. Content(f) \in {[k \in 1 .. DataCells(g) |-> g] : g \in Frames}
    BY DEF Content
  <2>. QED  BY <1>6, <2>1, <2>2 DEF Fifo!Next, Fifo!Accept
<1>7. CASE w # <<>> /\ v = Tail(w) /\ rx' = Content(Head(w))
  <2>1. Pending # <<>> /\ rx' = Head(Pending) /\ Pending' = Tail(Pending)
    BY <1>3, <1>4, <1>7, HeldTail
  <2>. QED  BY <2>1 DEF Fifo!Next, Fifo!Take
<1>. QED  BY <1>2, <1>5, <1>6, <1>7 DEF Moves

\* Frames reach packetHandler whole, in order and once each, whatever their
\* sizes, the size of the receive buffer and what is called in between.
THEOREM FramesInOrder == Spec => FramesFifo
<1>1. Init => FifoInv
  BY FifoStart
<1>2. Init => Fifo!Init
  <2> SUFFICES ASSUME Init PROVE Fifo!Init
    OBVIOUS
  <2>1. at = "none" /\ epktcnt = 0 /\ rx = <<>>
    BY DEF Init, NicInit
  <2>2. Pending = <<>>
    BY <2>1 DEF Pending, Chain
  <2>. QED  BY <2>1, <2>2 DEF Fifo!Init
<1>3. FifoInv /\ [Next]_vars => FifoInv'
  BY NextMoves DEF FifoInv
<1>. QED  BY <1>1, <1>2, <1>3, FifoStep, PendingAlways, PTL DEF Spec, FramesFifo, Fifo!Spec

-----------------------------------------------------------------------------
(* The space that is free.                                                 *)

ReadL == Read("ERXWRPTL", "wrL")
ReadH == Read("ERXWRPTH", "wrH")
ReadNow == Read("EPKTCNT", "now")

\* Each byte of the write pointer, once read, is right unless a frame came.
LowRight == seen.prev = epktcnt => seen.wrL = ptr.ERXWRPT % BYTE
HighRight == seen.prev = epktcnt => seen.wrH = ptr.ERXWRPT \div BYTE

\* freeBufferSpace has read EPKTCNT and goes on to the write pointer.
PointerRead ==
    /\ seen.prev \in Nat /\ seen.prev <= epktcnt
    /\ \/ todo = <<ReadL, ReadH, ReadNow>> \/ todo = <<ReadH, ReadL, ReadNow>>
       \/ LowRight /\ todo = <<ReadH, ReadNow>>
       \/ HighRight /\ todo = <<ReadL, ReadNow>>
       \/ LowRight /\ HighRight /\ (todo = <<ReadNow>> \/ todo = <<>>)

SpaceInv ==
    /\ DOMAIN seen = DOMAIN NothingSeen
    /\ fn = "freeBufferSpace" =>
          \/ todo \in {<<Read("ERXRDPT", "rdpt")>> \o reads : reads \in ReadWritePointer}
          \/ /\ seen.rdpt = ptr.ERXRDPT
             /\ todo \in ReadWritePointer \/ PointerRead

SeenFields == {"any", "pkts", "rdpt", "prev", "wrL", "wrH", "now", "end"}

LEMMA NothingSeenFields == DOMAIN NothingSeen = SeenFields
BY DEF NothingSeen, SeenFields

\* Outside freeBufferSpace there is nothing to keep.
LEMMA SpaceElsewhere ==
  ASSUME SpaceInv, DOMAIN seen' = DOMAIN seen \/ seen' = NothingSeen, fn' # "freeBufferSpace"
  PROVE  SpaceInv'
BY DEF SpaceInv, NothingSeen

LEMMA SpaceGoOn ==
  ASSUME SpaceInv, NEW from, NEW script, NEW to, GoOn(from, script, to), to # "freeBufferSpace"
  PROVE  SpaceInv'
<1>1. fn' = to /\ seen' \in {seen, NothingSeen}
  BY DEF GoOn
<1>. QED  BY <1>1, SpaceElsewhere

LEMMA SpaceStays ==
  ASSUME SpaceInv, UNCHANGED <<ptr, epktcnt, todo, fn, seen>>
  PROVE  SpaceInv'
BY DEF SpaceInv, PointerRead, LowRight, HighRight, ReadWritePointer, ReadL, ReadH, ReadNow, Read, NothingSeen

LEMMA TupleTails ==
  ASSUME NEW a, NEW b, NEW c, NEW d, NEW e
  PROVE  /\ Head(<<a, b, c, d, e>>) = a /\ Tail(<<a, b, c, d, e>>) = <<b, c, d, e>>
         /\ Head(<<a, b, c, d>>) = a /\ Tail(<<a, b, c, d>>) = <<b, c, d>>
         /\ Head(<<a, b, c>>) = a /\ Tail(<<a, b, c>>) = <<b, c>>
         /\ Head(<<a, b>>) = a /\ Tail(<<a, b>>) = <<b>>
         /\ Head(<<a>>) = a /\ Tail(<<a>>) = <<>>
OBVIOUS

LEMMA TupleJoin ==
  ASSUME NEW a, NEW b, NEW c, NEW d, NEW e
  PROVE  <<a>> \o <<b, c, d, e>> = <<a, b, c, d, e>>
<1> DEFINE S == {a,b,c,d,e} s == <<b,c,d,e>> h == <<a>>
             t == h \o s  u == <<a,b,c,d,e>>
<1>1. s \in Seq(S) /\ Len(s) = 4 /\ h \in Seq(S) /\ u \in Seq(S) /\ Len(u) = 5 /\ Len(h) = 1
  OBVIOUS
<1>2. s[1] = b /\ s[2] = c /\ s[3] = d /\ s[4] = e /\ h[1] = a
  OBVIOUS
<1>3. u[1] = a /\ u[2] = b /\ u[3] = c /\ u[4] = d /\ u[5] = e
  OBVIOUS
<1> HIDE DEF S, s, h, t, u
<1>4. /\ t \in Seq(S) /\ Len(t) = Len(h) + Len(s)
      /\ \A i \in 1 .. Len(h) + Len(s) : t[i] = IF i <= Len(h) THEN h[i] ELSE s[i - Len(h)]
  BY <1>1, ConcatProperties, Zenon DEF t
<1>5. Len(t) = 5 /\ \A i \in 1 .. 5 : t[i] = IF i <= 1 THEN h[i] ELSE s[i - 1]
  BY <1>1, <1>4
<1>6. t[1] = a /\ t[2] = b /\ t[3] = c /\ t[4] = d /\ t[5] = e
  BY <1>2, <1>5
<1>7. \A i \in 1 .. Len(t) : t[i] = u[i]
  BY <1>3, <1>5, <1>6
<1>8. t = u
  BY <1>1, <1>4, <1>5, <1>7, SeqEqual
<1>. QED BY <1>8 DEF t, u, s, h

\* An access of freeBufferSpace.
LEMMA SpaceAccess ==
  ASSUME SpaceInv, AccessStep, epktcnt \in Nat
  PROVE  SpaceInv'
<1>1. fn' = fn /\ DOMAIN seen' = DOMAIN seen
  BY DEF AccessStep, WriteReg, ReadReg, SetRegBit, ClearRegBit, AwaitClear, ReadVector,
         readBuffer, writeBuffer
<1>2. CASE fn # "freeBufferSpace"
  BY <1>1, <1>2, SpaceElsewhere
<1>3. CASE fn = "freeBufferSpace"
  <2> DEFINE P == Read("EPKTCNT", "prev")  R == Read("ERXRDPT", "rdpt")
             W == {<<P, ReadL, ReadH, ReadNow>>, <<P, ReadH, ReadL, ReadNow>>}
  <2>1. ReadWritePointer = W
    BY DEF ReadWritePointer, ReadL, ReadH, ReadNow
  <2>2. \/ todo \in {<<R, P, ReadL, ReadH, ReadNow>>, <<R, P, ReadH, ReadL, ReadNow>>}
        \/ seen.rdpt = ptr.ERXRDPT /\ (todo \in W \/ PointerRead)
    <3>1. {<<R>> \o reads : reads \in W}
            = {<<R>> \o <<P, ReadL, ReadH, ReadNow>>, <<R>> \o <<P, ReadH, ReadL, ReadNow>>}
      OBVIOUS
    <3>2. /\ <<R>> \o <<P, ReadL, ReadH, ReadNow>> = <<R, P, ReadL, ReadH, ReadNow>>
          /\ <<R>> \o <<P, ReadH, ReadL, ReadNow>> = <<R, P, ReadH, ReadL, ReadNow>>
      BY TupleJoin
    <3>. QED  BY <1>3, <2>1, <3>1, <3>2 DEF SpaceInv
  <2>3. todo # <<>>
    BY DEF AccessStep, WriteReg, ReadReg, SetRegBit, ClearRegBit, AwaitClear, Access, ReadVector,
           readBuffer, writeBuffer
  <2>4. Head(todo) \in {R, P, ReadL, ReadH, ReadNow}
    <3> HIDE DEF R, P
    <3>. QED  BY <2>2, <2>3 DEF PointerRead
  <2>5. Head(todo).op = "read"
    BY <2>4 DEF ReadL, ReadH, ReadNow, Read
  <2>6. ReadReg
    BY <2>5 DEF AccessStep, WriteReg, SetRegBit, ClearRegBit, AwaitClear, Access, ReadVector,
                readBuffer, writeBuffer
  <2>7. /\ UNCHANGED <<ptr, epktcnt>> /\ todo' = Tail(todo)
        /\ seen' = [seen EXCEPT ![Head(todo).arg] = Value(Head(todo).reg)]
    BY <2>6 DEF ReadReg
  <2>8. DOMAIN seen = SeenFields
    BY NothingSeenFields DEF SpaceInv
  <2>9. /\ R.reg = "ERXRDPT" /\ R.arg = "rdpt" /\ P.reg = "EPKTCNT" /\ P.arg = "prev"
        /\ ReadL.reg = "ERXWRPTL" /\ ReadL.arg = "wrL" /\ ReadH.reg = "ERXWRPTH" /\ ReadH.arg = "wrH"
        /\ ReadNow.reg = "EPKTCNT" /\ ReadNow.arg = "now"
    BY DEF ReadL, ReadH, ReadNow, Read
  <2>10. /\ Value("ERXRDPT") = ptr.ERXRDPT /\ Value("EPKTCNT") = epktcnt
         /\ Value("ERXWRPTL") = ptr.ERXWRPT % BYTE /\ Value("ERXWRPTH") = ptr.ERXWRPT \div BYTE
    BY DEF Value, Pointers
  <2>11. R # P /\ P # ReadL /\ P # ReadH /\ P # ReadNow /\ ReadL # ReadH /\ ReadL # ReadNow
         /\ ReadH # ReadNow
    BY <2>9
  <2> HIDE DEF R, P
  <2>12. CASE todo \in {<<R, P, ReadL, ReadH, ReadNow>>, <<R, P, ReadH, ReadL, ReadNow>>}
    <3>1. Head(todo) = R /\ Tail(todo) \in W
      <4>1. CASE todo = <<R, P, ReadL, ReadH, ReadNow>>
        <5>1. Head(todo) = R /\ Tail(todo) = <<P, ReadL, ReadH, ReadNow>>
          BY <4>1, TupleTails
        <5>. QED  BY <5>1, Zenon
      <4>2. CASE todo = <<R, P, ReadH, ReadL, ReadNow>>
        <5>1. Head(todo) = R /\ Tail(todo) = <<P, ReadH, ReadL, ReadNow>>
          BY <4>2, TupleTails
        <5>. QED  BY <5>1, Zenon
      <4>. QED  BY <2>12, <4>1, <4>2, Zenon
    <3>2. seen'.rdpt = ptr.ERXRDPT
      BY <2>7, <2>8, <2>9, <2>10, <3>1 DEF SeenFields
    <3>. QED  BY <1>1, <2>1, <2>7, <3>1, <3>2 DEF SpaceInv
  <2>13. CASE seen.rdpt = ptr.ERXRDPT /\ todo \in W
    <3>1. /\ Head(todo) = P
          /\ Tail(todo) = <<ReadL, ReadH, ReadNow>> \/ Tail(todo) = <<ReadH, ReadL, ReadNow>>
      <4>1. CASE todo = <<P, ReadL, ReadH, ReadNow>>
        BY <4>1, TupleTails
      <4>2. CASE todo = <<P, ReadH, ReadL, ReadNow>>
        BY <4>2, TupleTails
      <4>. QED  BY <2>13, <4>1, <4>2, Zenon
    <3>2. seen'.prev = epktcnt /\ seen'.rdpt = ptr.ERXRDPT
      BY <2>7, <2>8, <2>9, <2>10, <2>13, <3>1 DEF SeenFields
    <3>3. PointerRead'
      BY <2>7, <3>1, <3>2 DEF PointerRead, ReadL, ReadH, ReadNow, Read
    <3>. QED  BY <1>1, <2>7, <3>2, <3>3 DEF SpaceInv
  <2>14. CASE seen.rdpt = ptr.ERXRDPT /\ PointerRead
    <3>1. Head(todo) \in {ReadL, ReadH, ReadNow}
      BY <2>3, <2>14, TupleTails DEF PointerRead
    <3>2. seen'.prev = seen.prev /\ seen'.rdpt = seen.rdpt
      BY <2>7, <2>8, <2>9, <3>1 DEF SeenFields
    <3>3. /\ Head(todo) = ReadL => seen'.wrL = ptr.ERXWRPT % BYTE
          /\ Head(todo) # ReadL => seen'.wrL = seen.wrL
          /\ Head(todo) = ReadH => seen'.wrH = ptr.ERXWRPT \div BYTE
          /\ Head(todo) # ReadH => seen'.wrH = seen.wrH
      BY <2>7, <2>8, <2>9, <2>10, <3>1 DEF SeenFields
    <3>4. /\ Head(todo) = ReadL \/ LowRight => LowRight'
          /\ Head(todo) = ReadH \/ HighRight => HighRight'
      BY <2>7, <3>2, <3>3 DEF LowRight, HighRight
    <3>5. \/ todo' = <<ReadL, ReadH, ReadNow>> \/ todo' = <<ReadH, ReadL, ReadNow>>
          \/ LowRight' /\ todo' = <<ReadH, ReadNow>>
          \/ HighRight' /\ todo' = <<ReadL, ReadNow>>
          \/ LowRight' /\ HighRight' /\ (todo' = <<ReadNow>> \/ todo' = <<>>)
      <4>1. CASE todo = <<ReadL, ReadH, ReadNow>>
        BY <2>7, <3>4, <4>1, TupleTails
      <4>2. CASE todo = <<ReadH, ReadL, ReadNow>>
        BY <2>7, <3>4, <4>2, TupleTails
      <4>3. CASE LowRight /\ todo = <<ReadH, ReadNow>>
        BY <2>7, <3>4, <4>3, TupleTails
      <4>4. CASE HighRight /\ todo = <<ReadL, ReadNow>>
        BY <2>7, <3>4, <4>4, TupleTails
      <4>5. CASE LowRight /\ HighRight /\ todo = <<ReadNow>>
        BY <2>7, <3>4, <4>5, TupleTails
      <4>. QED  BY <2>3, <2>14, <4>1, <4>2, <4>3, <4>4, <4>5, Zenon DEF PointerRead
    <3>6. UNCHANGED <<ReadL, ReadH, ReadNow>>
      BY DEF ReadL, ReadH, ReadNow, Read
    <3>7. seen'.prev \in Nat /\ seen'.prev <= epktcnt'
      BY <2>7, <2>14, <3>2 DEF PointerRead
    <3>8. PointerRead'
      BY <3>5, <3>6, <3>7, Zenon DEF PointerRead
    <3>. QED  BY <1>1, <2>7, <2>14, <3>2, <3>8 DEF SpaceInv
  <2>. QED  BY <2>2, <2>12, <2>13, <2>14
<1>. QED  BY <1>2, <1>3

\* A frame arrives: the reads made so far count no more.
LEMMA SpaceReceive ==
  ASSUME SpaceInv, NEW f \in Frames, Receive(f), epktcnt \in Nat, DOMAIN ptr = Pointers
  PROVE  SpaceInv'
<1>1. /\ epktcnt' = epktcnt + 1 /\ UNCHANGED <<todo, fn, seen>>
      /\ ptr' = [ptr EXCEPT !.ERXWRPT = (ptr.ERXWRPT + Extent(f)) % RX_LEN]
  BY DEF Receive, driver
<1>2. ptr'.ERXRDPT = ptr.ERXRDPT
  <2>1. "ERXRDPT" \in Pointers
    BY DEF Pointers
  <2>. QED  BY <1>1, <2>1
<1>3. PointerRead => PointerRead'
  BY <1>1 DEF PointerRead, LowRight, HighRight
<1>. QED  BY <1>1, <1>2, <1>3 DEF SpaceInv

\* The pointers never meet, as one is odd and the other even.
LEMMA PointersOdd ==
  ASSUME NEW w \in Seq(Frames), NEW s, NEW base, Ring(w, s, base), Guarded(base)
  PROVE  /\ ptr.ERXWRPT \in 0 .. RX_LEN - 1 /\ ptr.ERXWRPT % 2 = 0
         /\ ptr.ERXRDPT \in 0 .. RX_LEN - 1 /\ ptr.ERXRDPT % 2 = 1
<1>1. base \in Position /\ Stored(w, s, mem) /\ ptr.ERXWRPT = Place(s[Len(w) + 1])
  BY DEF Ring
<1>2. Len(w) + 1 \in 1 .. Len(w) + 1
  BY LenProperties
<1>3. s[Len(w) + 1] \in Position
  BY <1>1, <1>2, StoredRange
<1>4. ptr.ERXWRPT \in 0 .. RX_BUF_END /\ ptr.ERXWRPT % 2 = 0
  BY <1>1, <1>3, PlaceIsAddress DEF Addresses
<1>5. Place(base) \in 0 .. RX_BUF_END /\ Place(base) % 2 = 0
  BY <1>1, PlaceIsAddress DEF Addresses
<1>6. ptr.ERXRDPT = IF Place(base) # 0 THEN Place(base) - 1 ELSE RX_BUF_END
  BY <1>1, PlaceBefore DEF Guarded
<1>7. RX_LEN - 1 = RX_BUF_END /\ RX_BUF_END \in Nat /\ RX_BUF_END % 2 = 1
  BY BufferAssumption DEF RX_LEN
<1>. QED  BY <1>4, <1>5, <1>6, <1>7

LEMMA FreeIsRoom ==
  ASSUME NEW r \in 0 .. RX_LEN - 1, NEW p \in 0 .. RX_LEN - 1, r % 2 = 1, p % 2 = 0
  PROVE  ((r - p) % RX_LEN) - BytesFree(r, p) \in {0, 1}
<1>1. RX_LEN \in Nat \ {0} /\ RX_BUF_END = RX_LEN - 1 /\ r # p
  BY RingSize, BufferAssumption DEF RX_LEN
<1>2. r \in Int /\ p \in Int
  BY <1>1
<1>3. CASE p > r
  <2> DEFINE d == r - p + RX_LEN
  <2>1. r - p = RX_LEN * (-1) + d /\ d \in 0 .. RX_LEN - 1 /\ r - p \in Int
    BY <1>1, <1>2, <1>3, SMT
  <2>2. (r - p) % RX_LEN = d
    <3> HIDE DEF d
    <3>. QED  BY <1>1, <2>1, LeftOver
  <2>3. BytesFree(r, p) = RX_BUF_END - (p - r)
    BY <1>1, <1>2, <1>3 DEF BytesFree, RX_BUF_ST
  <2>4. d - (RX_BUF_END - (p - r)) = 1
    BY <1>1, <1>2
  <2>. QED  BY <2>2, <2>3, <2>4
<1>4. CASE p < r
  <2> DEFINE d == r - p
  <2>1. d = RX_LEN * 0 + d /\ d \in 0 .. RX_LEN - 1 /\ d \in Int
    BY <1>1, <1>2, <1>4, SMT
  <2>2. d % RX_LEN = d
    <3> HIDE DEF d
    <3>. QED  BY <1>1, <2>1, LeftOver
  <2>3. BytesFree(r, p) = r - p - 1
    BY <1>1, <1>2, <1>4 DEF BytesFree
  <2>4. d - (r - p - 1) = 1
    BY <1>2
  <2>. QED  BY <2>2, <2>3, <2>4
<1>. QED  BY <1>1, <1>2, <1>3, <1>4

\* A word is made of its bytes.
LEMMA WordOfBytes ==
  ASSUME NEW B \in Nat \ {0}, NEW x \in Nat
  PROVE  (x \div B) * B + (x % B) = x
<1> DEFINE q == x \div B  r == x % B
<1>1. q \in Int /\ r \in Int
  BY SMT
<1>2. x = B * q + r
  BY SMT
<1> HIDE DEF q, r
<1>3. B * q = q * B
  BY <1>1, SMT
<1>4. q * B + r = x
  <2> DEFINE m == B * q
  <2>1. m = q * B /\ x = m + r
    BY <1>2, <1>3
  <2> HIDE DEF m
  <2>. QED  BY <2>1
<1>. QED  BY <1>4 DEF q, r

LEMMA ChipCounts ==
  ASSUME FifoInv
  PROVE  epktcnt \in Nat /\ DOMAIN ptr = Pointers
<1>1. PICK w : QueueIs(w)
  BY DEF FifoInv
<1>2. PICK s, base : Ring(w, s, base) /\ Phase(w, s, base)
  BY <1>1 DEF QueueIs
<1>3. Len(w) \in Nat
  BY <1>1, LenProperties DEF QueueIs
<1>4. epktcnt \in Nat
  <2>1. CASE Setting(w)
    BY <2>1 DEF Setting
  <2>2. CASE Quiet(w, s, base)
    BY <1>3, <2>2 DEF Quiet
  <2>3. CASE VectorWaits(w, s, base)
    BY <1>3, <2>3 DEF VectorWaits
  <2>4. CASE Sized(w, s, base)
    BY <1>3, <2>4 DEF Sized
  <2>5. CASE Copied(w, s, base)
    BY <1>3, <2>5 DEF Copied
  <2>. QED  BY <1>2, <2>1, <2>2, <2>3, <2>4, <2>5 DEF Phase
<1>. QED  BY <1>2, <1>4 DEF Ring

\* With its accesses made, freeBufferSpace has read the pointers.
LEMMA SpaceReads ==
  ASSUME SpaceInv, fn = "freeBufferSpace", todo = <<>>
  PROVE  seen.rdpt = ptr.ERXRDPT /\ LowRight /\ HighRight
<1>1. \A reads \in ReadWritePointer : reads # <<>> /\ todo # <<Read("ERXRDPT", "rdpt")>> \o reads
  <2> DEFINE P == Read("EPKTCNT", "prev")  R == Read("ERXRDPT", "rdpt")
  <2>1. ReadWritePointer = {<<P, ReadL, ReadH, ReadNow>>, <<P, ReadH, ReadL, ReadNow>>}
    BY DEF ReadWritePointer, ReadL, ReadH, ReadNow
  <2> HIDE DEF P, R
  <2>2. /\ <<P, ReadL, ReadH, ReadNow>> # <<>> /\ <<P, ReadH, ReadL, ReadNow>> # <<>>
        /\ <<R, P, ReadL, ReadH, ReadNow>> # <<>> /\ <<R, P, ReadH, ReadL, ReadNow>> # <<>>
    OBVIOUS
  <2>3. /\ <<R>> \o <<P, ReadL, ReadH, ReadNow>> = <<R, P, ReadL, ReadH, ReadNow>>
        /\ <<R>> \o <<P, ReadH, ReadL, ReadNow>> = <<R, P, ReadH, ReadL, ReadNow>>
    BY TupleJoin
  <2>4. \A reads \in ReadWritePointer : reads # <<>> /\ <<R>> \o reads # <<>>
    BY <2>1, <2>2, <2>3, Zenon
  <2>. QED  BY <2>4 DEF R
<1>2. \/ todo \in {<<Read("ERXRDPT", "rdpt")>> \o reads : reads \in ReadWritePointer}
      \/ seen.rdpt = ptr.ERXRDPT /\ (todo \in ReadWritePointer \/ PointerRead)
  BY DEF SpaceInv
<1>3. seen.rdpt = ptr.ERXRDPT /\ PointerRead
  BY <1>1, <1>2, Zenon
<1>4. /\ todo # <<ReadL, ReadH, ReadNow>> /\ todo # <<ReadH, ReadL, ReadNow>>
      /\ todo # <<ReadH, ReadNow>> /\ todo # <<ReadL, ReadNow>>
  OBVIOUS
<1>. QED  BY <1>3, <1>4, Zenon DEF PointerRead

\* freeBufferSpace returns in one way only.
LEMMA OnlySpaceKnown ==
  ASSUME [Next]_vars, fn = "freeBufferSpace", fn' = "none"
  PROVE  SpaceKnown
<1>1. CASE AccessStep \/ ChipStep
  BY <1>1 DEF AccessStep, WriteReg, ReadReg, SetRegBit, ClearRegBit, AwaitClear, ReadVector,
              readBuffer, writeBuffer, ChipStep, Receive, Finish, PHYdone, driver
<1>2. CASE UNCHANGED nicVars
  BY <1>2 DEF nicVars, driver
<1>3. ASSUME NEW script, NEW to, Call(script, to) PROVE FALSE
  BY <1>3 DEF Call, GoOn
<1>4. CASE OtherCall
  BY <1>3, <1>4 DEF OtherCall, FreeBufferSpace
<1>5. ~(packetPending \/ getFrameSize \/ readFrame) /\ \A blocks : ~sendEthernetFrame(blocks)
  BY <1>3 DEF packetPending, getFrameSize, readFrame, sendEthernetFrame
<1>6. CASE Continue
  BY <1>6 DEF Continue, WaitForLink, FrameThere, FrameWritten, GoOn
<1>. QED  BY <1>1, <1>2, <1>4, <1>5, <1>6
          DEF Next, Enter, NonePending, SizeOfFrame, SizeKnown, OtherFrame, ICMPv4processor,
              checksumRuns, sendIPv4packet, NoRouter, SendPacket, Sent, Elsewhere, vars

\* freeBufferSpace is called, or reads the write pointer again.
LEMMA SpaceBegins ==
  ASSUME SpaceInv, FreeBufferSpace
  PROVE  SpaceInv'
<1>1. PICK reads \in ReadWritePointer :
        Call(<<Read("ERXRDPT", "rdpt")>> \o reads, "freeBufferSpace")
  BY DEF FreeBufferSpace
<1>2. /\ todo' = <<Read("ERXRDPT", "rdpt")>> \o reads /\ fn' = "freeBufferSpace"
      /\ seen' \in {seen, NothingSeen}
  BY <1>1 DEF Call, GoOn
<1>3. DOMAIN seen' = DOMAIN NothingSeen
  BY <1>2 DEF SpaceInv
<1>4. ReadWritePointer' = ReadWritePointer
  BY DEF ReadWritePointer, Read
<1>5. todo' \in {<<Read("ERXRDPT", "rdpt")>> \o r : r \in ReadWritePointer'}
  BY <1>2, <1>4, Zenon
<1>. QED  BY <1>3, <1>5 DEF SpaceInv, NothingSeen, Read

LEMMA SpaceAgain ==
  ASSUME SpaceInv, NEW reads \in ReadWritePointer,
         GoOn("freeBufferSpace", reads, "freeBufferSpace")
  PROVE  SpaceInv'
<1>1. /\ todo = <<>> /\ fn = "freeBufferSpace" /\ todo' = reads /\ fn' = fn /\ seen' = seen
      /\ UNCHANGED ptr
  BY DEF GoOn, chip
<1>2. seen.rdpt = ptr.ERXRDPT
  BY <1>1, SpaceReads
<1>3. ReadWritePointer' = ReadWritePointer
  BY DEF ReadWritePointer, Read
<1>. QED  BY <1>1, <1>2, <1>3 DEF SpaceInv

LEMMA SpaceStep == FifoInv /\ SpaceInv /\ [Next]_vars => SpaceInv'
<1> SUFFICES ASSUME FifoInv, SpaceInv, [Next]_vars PROVE SpaceInv'
  OBVIOUS
<1>1. CASE Enter \/ OtherFrame \/ NoRouter \/ Sent \/ SizeOfFrame
  <2>1. packetPending \/ getFrameSize
    BY <1>1 DEF Enter, OtherFrame, NoRouter, Sent, SizeOfFrame
  <2>2. \E to \in {"none", "getFrameSize"} : GoOn("none", <<Read("EPKTCNT", "pkts")>>, to)
    BY <2>1 DEF packetPending, getFrameSize, Call
  <2>. QED  BY <2>2, SpaceGoOn
<1>2. CASE readFrame
  <2>1. \E script : GoOn("none", script, "none")
    BY <1>2 DEF readFrame, Call
  <2>. QED  BY <2>1, SpaceGoOn
<1>3. CASE UNCHANGED nicVars
  BY <1>3, SpaceStays DEF nicVars, chip, driver
<1>4. CASE SizeKnown \/ NonePending \/ ICMPv4processor \/ checksumRuns \/ sendIPv4packet
           \/ UNCHANGED vars
  <2>1. readFrame \/ UNCHANGED nicVars
    BY <1>4 DEF SizeKnown, NonePending, ICMPv4processor, checksumRuns, sendIPv4packet, vars
  <2>. QED  BY <1>2, <1>3, <2>1
<1>5. CASE SendPacket
  <2>1. \E blocks : sendEthernetFrame(blocks)
    BY <1>5 DEF SendPacket
  <2>2. \E script : GoOn("none", script, "sendEthernetFrame")
    BY <2>1 DEF sendEthernetFrame, Call
  <2>. QED  BY <2>2, SpaceGoOn
<1>6. CASE Elsewhere
  <2>1. CASE FreeBufferSpace
    BY <2>1, SpaceBegins
  <2>2. CASE \E script : Call(script, "none")
    BY <2>2, SpaceGoOn DEF Call
  <2>. QED  BY <1>6, <2>1, <2>2 DEF Elsewhere, OtherCall
<1>7. CASE AccessStep
  BY <1>7, ChipCounts, SpaceAccess
<1>8. CASE Continue
  <2>1. CASE WaitForLink
    <3>1. \E from, script, to : GoOn(from, script, to) /\ to # "freeBufferSpace"
      BY <2>1 DEF WaitForLink
    <3>. QED  BY <3>1, SpaceGoOn
  <2>2. CASE FrameThere
    <3>1. \E script : GoOn("getFrameSize", script, "none")
      BY <2>2 DEF FrameThere
    <3>. QED  BY <3>1, SpaceGoOn
  <2>3. CASE FrameWritten
    <3>1. \E script : GoOn("sendEthernetFrame", script, "none")
      BY <2>3 DEF FrameWritten
    <3>. QED  BY <3>1, SpaceGoOn
  <2>4. CASE SpaceKnown
    BY <2>4, SpaceAgain, SpaceGoOn DEF SpaceKnown
  <2>. QED  BY <1>8, <2>1, <2>2, <2>3, <2>4 DEF Continue
<1>9. CASE ChipStep
  <2>1. ASSUME NEW f \in Frames, Receive(f) PROVE SpaceInv'
    BY <2>1, ChipCounts, SpaceReceive
  <2>2. CASE Finish("TXRTS") \/ Finish("DMAST") \/ PHYdone
    <3>1. UNCHANGED <<ptr, epktcnt, todo, fn, seen>>
      BY <2>2 DEF Finish, PHYdone, driver
    <3>. QED  BY <3>1, SpaceStays
  <2>. QED  BY <1>9, <2>1, <2>2 DEF ChipStep
<1>. QED  BY <1>1, <1>4, <1>5, <1>6, <1>7, <1>8, <1>9 DEF Next

\* With EPKTCNT as it was, the pointers read are those the controller uses.
LEMMA SpaceReturned ==
  FifoInv /\ SpaceInv /\ [Next]_vars
    => [fn = "freeBufferSpace" /\ fn' = "none" /\ seen.now = epktcnt
          => Room - space' \in {0, 1}]_nicVars
<1> SUFFICES ASSUME FifoInv, SpaceInv, [Next]_vars, fn = "freeBufferSpace", fn' = "none",
                    seen.now = epktcnt
             PROVE  Room - space' \in {0, 1}
  OBVIOUS
<1>1. SpaceKnown /\ seen.prev = seen.now /\ todo = <<>>
  <2>1. SpaceKnown
    BY OnlySpaceKnown
  <2>. QED  BY <2>1 DEF SpaceKnown, GoOn
<1>2. space' = BytesFree(seen.rdpt, seen.wrH * BYTE + seen.wrL)
  BY <1>1 DEF SpaceKnown
<1>3. seen.rdpt = ptr.ERXRDPT /\ LowRight /\ HighRight
  BY <1>1, SpaceReads
<1>4. PICK w : QueueIs(w)
  BY DEF FifoInv
<1>5. PICK s, base : Ring(w, s, base) /\ Phase(w, s, base)
  BY <1>4 DEF QueueIs
<1>6. Guarded(base) /\ w \in Seq(Frames)
  BY <1>1, <1>4, <1>5, AtRest DEF QueueIs
<1>7. /\ ptr.ERXWRPT \in 0 .. RX_LEN - 1 /\ ptr.ERXWRPT % 2 = 0
      /\ ptr.ERXRDPT \in 0 .. RX_LEN - 1 /\ ptr.ERXRDPT % 2 = 1
  BY <1>5, <1>6, PointersOdd
<1>8. seen.wrH * BYTE + seen.wrL = ptr.ERXWRPT
  <2>1. seen.wrL = ptr.ERXWRPT % BYTE /\ seen.wrH = ptr.ERXWRPT \div BYTE
    BY <1>1, <1>3 DEF LowRight, HighRight
  <2>2. ptr.ERXWRPT \in Nat /\ BYTE \in Nat \ {0}
    BY <1>7, BufferAssumption, RingSize
  <2>. QED  BY <2>1, <2>2, WordOfBytes
<1>9. space' = BytesFree(ptr.ERXRDPT, ptr.ERXWRPT)
  BY <1>2, <1>3, <1>8
<1>. QED  BY <1>7, <1>9, FreeIsRoom DEF Room

\* What freeBufferSpace returns is what was free when it read EPKTCNT last, up
\* to the odd byte, however many frames arrive while it reads the two bytes of
\* the write pointer, in either order.
THEOREM SpaceIsExact == Spec => SpaceExact
<1>1. Init => FifoInv
  BY FifoStart
<1>2. Init => SpaceInv
  BY DEF Init, NicInit, SpaceInv
<1>3. FifoInv /\ [Next]_vars => FifoInv'
  BY NextMoves DEF FifoInv
<1>. QED  BY <1>1, <1>2, <1>3, SpaceStep, SpaceReturned, PTL DEF Spec, SpaceExact
=============================================================================
