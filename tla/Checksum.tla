------------------------------ MODULE Checksum ------------------------------
(***************************************************************************)
(* checksumUpdate of Checksum.S: the one's complement sum of a message in  *)
(* several buffers, each call going on from the context the last returned. *)
(* The loop adds four words a round and is entered in the middle, so that  *)
(* the words left over are added first.  One step per block of the loop;   *)
(* label is the block that runs next.                                      *)
(***************************************************************************)
EXTENDS Integers, Sequences

CONSTANT Messages   \* what is summed: sequences of buffers; a buffer has its
                    \* data and the byte that fills the memory after them

Under(limit) == {n \in Nat : n < limit}

Byte == Under(256)

Buffer == [data : Seq(Byte), after : Byte]

ASSUME MessageAssumption == Messages \subseteq Seq(Buffer)

VARIABLES
    buffers,    \* the message
    current,    \* which of its buffers is summed
    X,          \* bytes of it passed so far: the pointer register
    label,      \* the next block; "ret" when checksumUpdate has returned
    acc,        \* the sum so far: r25:24
    total       \* history: the same sum without limit of size

sumVars == <<buffers, current, X, label, acc, total>>

Blocks == {"addLoop", "threeLeftover", "twoLeftover", "oneLeftover"}

SumTypeInv ==
    /\ buffers \in Seq(Buffer)
    /\ current \in 0 .. Len(buffers)
    /\ label \in Blocks \cup {"zeroLeftover", "ret"}
    /\ label # "ret" => current > 0
    /\ X \in Nat
    /\ acc \in Under(65536)
    /\ total \in Nat

SumInit ==
    /\ buffers \in Messages
    /\ current = 0
    /\ X = 0
    /\ label = "ret"
    /\ acc = 0
    /\ total = 0

\* The byte at an offset from the start of the buffer.
At(n) == IF n < Len(buffers[current].data) THEN buffers[current].data[n + 1]
                                           ELSE buffers[current].after

Word == At(X) * 256 + At(X + 1)

\* Mutant: the carry is lost.
EndAroundNever(s) == s % 65536

\* add, adc, and twice adc of the zero register: the carry goes back around.
EndAround(s) == (s % 65536) + (s \div 65536)

\* Mutant: the table of jumps is the wrong way round.
EntryReversed(n) ==
    CASE (n \div 2) % 4 = 0 -> "zeroLeftover"
      [] (n \div 2) % 4 = 1 -> "threeLeftover"
      [] (n \div 2) % 4 = 2 -> "twoLeftover"
      [] (n \div 2) % 4 = 3 -> "oneLeftover"

\* Where the jump through tableJump goes for n bytes.
Entry(n) ==
    CASE (n \div 2) % 4 = 0 -> "zeroLeftover"
      [] (n \div 2) % 4 = 1 -> "oneLeftover"
      [] (n \div 2) % 4 = 2 -> "twoLeftover"
      [] (n \div 2) % 4 = 3 -> "threeLeftover"

\* The call for the next buffer, with what the last one returned as context.
checksumUpdate ==
    /\ label = "ret"
    /\ current < Len(buffers)
    /\ current' = current + 1
    /\ X' = 0
    /\ label' = Entry(Len(buffers[current + 1].data))
    /\ UNCHANGED <<buffers, acc, total>>

\* The block that a block falls into.
After(l) ==
    CASE l = "addLoop" -> "threeLeftover"
      [] l = "threeLeftover" -> "twoLeftover"
      [] l = "twoLeftover" -> "oneLeftover"
      [] l = "oneLeftover" -> "zeroLeftover"

AddWord ==
    /\ label \in Blocks
    /\ acc' = EndAround(acc + Word)
    /\ total' = total + Word
    /\ X' = X + 2
    /\ label' = After(label)
    /\ UNCHANGED <<buffers, current>>

\* "compare current pointer with end pointer"
Compare ==
    /\ label = "zeroLeftover"
    /\ label' = IF X < Len(buffers[current].data) THEN "addLoop" ELSE "ret"
    /\ UNCHANGED <<buffers, current, X, acc, total>>

SumStep == checksumUpdate \/ AddWord \/ Compare

Summed == label = "ret" /\ current = Len(buffers)

SumSpec == SumInit /\ [][SumStep]_sumVars

-----------------------------------------------------------------------------
(* The same sum as the C version computes it, for even lengths.            *)

\* while(running > 0xFFFF) running = (running & 0xFFFF) + (running >> 16)
Fold16[running \in Nat] ==
    IF running > 65535 THEN Fold16[(running % 65536) + (running \div 65536)] ELSE running

\* The sum over the words of a sequence of bytes; a last odd byte counts as the
\* high one of a word.
Running(data) ==
    LET words == (Len(data) + 1) \div 2
        sum[n \in 0 .. words] ==
          IF n = 0 THEN 0
          ELSE sum[n - 1] + data[2 * n - 1] * 256
                          + (IF 2 * n <= Len(data) THEN data[2 * n] ELSE 0)
    IN  sum[words]

checksumC(data) == 65535 - Fold16[Running(data)]

\* "assumes len is a multiple of 2"
EvenBuffers == \A k \in 1 .. Len(buffers) : Len(buffers[k].data) % 2 = 0

\* "we are not outputting final checksum, just a running context": the context
\* is at all times the sum of what was added, modulo 65535, and is 0 only if
\* that is; so the sum of many buffers is that of all their words.
ContextExact ==
    /\ (total - acc) % 65535 = 0
    /\ acc = 0 <=> total = 0

\* Entered in the middle, the loop passes each word of a buffer of even length
\* once and nothing after it.
ReadsItsData ==
    EvenBuffers /\ current > 0 =>
        /\ X <= Len(buffers[current].data)
        /\ label = "ret" => X = Len(buffers[current].data)

=============================================================================
