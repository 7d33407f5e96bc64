---------------------------- MODULE NumberProofs ----------------------------
(***************************************************************************)
(* The facts about numbers that other proofs rest on.  A search ends at an *)
(* entry that fits: Lowest(S) is a member of S and no member of S lies     *)
(* before it.  A ring of S bytes has position p at place p % S.            *)
(***************************************************************************)
EXTENDS LowestIndex, TLAPS, WellFoundedInduction

\* A non-empty set of array indices has a least member, and Lowest is it: the
\* fact every proof about a table search rests on.
THEOREM LowestIsFirst ==
  ASSUME NEW S \in SUBSET Nat, S # {}
  PROVE  /\ Lowest(S) \in S
         /\ \A j \in S : Lowest(S) <= j
<1> DEFINE R == {ss \in Nat \X Nat : ss[1] < ss[2]}
<1>1. IsWellFoundedOn(R, Nat)
  BY NatLessThanWellFounded DEF OpToRel
<1>2. \E x \in S : \A y \in S : <<y, x>> \notin R
  BY <1>1, WFMin
<1>3. PICK x \in S : \A y \in S : <<y, x>> \notin R
  BY <1>2
<1>4. \A y \in S : x <= y
  <2>1. SUFFICES ASSUME NEW y \in S, y < x PROVE FALSE
    OBVIOUS
  <2>2. <<y, x>> \in R
    BY <2>1
  <2> QED
    BY <1>3, <2>2
<1> QED
  BY <1>4 DEF Lowest

-----------------------------------------------------------------------------
(* Places in a ring.                                                       *)

LEMMA PlaceInRing ==
  ASSUME NEW S \in Nat \ {0}, NEW a \in Nat
  PROVE  a % S \in 0 .. S - 1
  BY SMT

\* No positive number below a size is a multiple of it.
LEMMA NoMultipleBelow ==
  ASSUME NEW S \in Nat \ {0}, NEW q \in Int, 0 < S * q
  PROVE  S <= S * q
<1>1. q >= 1
  BY SMT
<1>2. S * (q - 1) >= 0
  BY <1>1, SMT
<1>. QED  BY <1>2, SMT

\* Two numbers below a size that differ by a multiple of it are the same.
LEMMA SameBelow ==
  ASSUME NEW S \in Nat \ {0}, NEW d \in 0 .. S - 1, NEW e \in 0 .. S - 1, NEW q \in Int,
         d = e + S * q
  PROVE  d = e
<1> DEFINE n == S * q
<1>1. n \in Int /\ n = d - e /\ n < S /\ -n < S
  BY SMT
<1>2. ~(0 < n)
  BY <1>1, NoMultipleBelow
<1>3. ~(0 < -n)
  <2>1. -n = S * (-q) /\ -q \in Int
    BY SMT
  <2> HIDE DEF n
  <2>2. 0 < -n => S <= -n
    BY <2>1, NoMultipleBelow
  <2>. QED  BY <1>1, <2>2
<1> HIDE DEF n
<1>. QED  BY <1>1, <1>2, <1>3

\* A number below a size is what any number that differs from it by a multiple
\* leaves over.
LEMMA LeftOver ==
  ASSUME NEW S \in Nat \ {0}, NEW x \in Int, NEW d \in 0 .. S - 1, NEW q \in Int, x = S * q + d
  PROVE  x % S = d
<1> DEFINE r == x % S  p == x \div S
<1>1. p \in Int /\ r \in 0 .. S - 1 /\ x = S * p + r
  BY SMT
<1> HIDE DEF r, p
<1>2. d = r + S * (p - q) /\ p - q \in Int
  BY <1>1, SMT
<1>3. d = r
  BY <1>1, <1>2, SameBelow
<1>. QED  BY <1>3 DEF r

\* Positions less than a ring apart lie in different places of it.
LEMMA PlacesDiffer ==
  ASSUME NEW S \in Nat \ {0}, NEW a \in Nat, NEW b \in Nat, a < b, b < a + S
  PROVE  a % S # b % S
<1> SUFFICES ASSUME a % S = b % S PROVE FALSE
  OBVIOUS
<1> DEFINE qa == a \div S  qb == b \div S
<1>1. qa \in Int /\ qb \in Int
  BY SMT
<1>2. a = S * qa + (a % S) /\ b = S * qb + (b % S)
  BY SMT
<1>3. a % S \in Int /\ b % S \in Int
  BY SMT
<1> HIDE DEF qa, qb
<1>4. b - a = S * (qb - qa)
  BY <1>1, <1>2, <1>3, SMT
<1>5. qb - qa \in Int /\ 0 < S * (qb - qa)
  BY <1>1, <1>4, SMT
<1>6. S <= S * (qb - qa)
  BY <1>5, NoMultipleBelow
<1>. QED  BY <1>4, <1>6, SMT

\* How far one place lies behind another, around the ring.
LEMMA PlacesApart ==
  ASSUME NEW S \in Nat \ {0}, NEW p \in Nat, NEW e \in Nat, NEW d \in 0 .. S - 1,
         p = e + d \/ p + S = e + d
  PROVE  ((p % S) - (e % S)) % S = d
<1> DEFINE r == p % S  q == p \div S  t == e % S  u == e \div S
<1>1. r \in Int /\ q \in Int /\ t \in Int /\ u \in Int /\ p = S * q + r /\ e = S * u + t
  BY SMT
<1> HIDE DEF r, q, t, u
<1>2. CASE p = e + d
  <2>1. r - t = S * (u - q) + d /\ u - q \in Int /\ r - t \in Int
    BY <1>1, <1>2, SMT
  <2>2. (r - t) % S = d
    BY <2>1, LeftOver
  <2>. QED  BY <2>2 DEF r, t
<1>3. CASE p + S = e + d
  <2>1. r - t = S * (u - q - 1) + d /\ u - q - 1 \in Int /\ r - t \in Int
    BY <1>1, <1>3, SMT
  <2>2. (r - t) % S = d
    BY <2>1, LeftOver
  <2>. QED  BY <2>2 DEF r, t
<1>. QED  BY <1>2, <1>3

\* The place some bytes on from a place.
LEMMA PlaceOn ==
  ASSUME NEW S \in Nat \ {0}, NEW p \in Nat, NEW n \in Nat
  PROVE  ((p % S) + n) % S = (p + n) % S
<1> DEFINE r == p % S  q == p \div S  d == (p + n) % S  u == (p + n) \div S
<1>1. r \in Int /\ q \in Int /\ d \in 0 .. S - 1 /\ u \in Int
  BY SMT
<1>2. p = S * q + r /\ p + n = S * u + d
  BY SMT
<1> HIDE DEF r, q, d, u
<1>3. r + n = S * (u - q) + d /\ u - q \in Int /\ r + n \in Int
  BY <1>1, <1>2, SMT
<1>4. (r + n) % S = d
  BY <1>1, <1>3, LeftOver
<1>. QED  BY <1>4 DEF r, d

\* In a ring of even size even positions lie at even places.
LEMMA EvenPlace ==
  ASSUME NEW S \in Nat \ {0}, S % 2 = 0, NEW p \in Nat, p % 2 = 0
  PROVE  (p % S) % 2 = 0
<1> DEFINE r == p % S  q == p \div S  h == S \div 2  g == p \div 2
<1>1. r \in Int /\ q \in Int /\ h \in Int /\ g \in Int /\ p = S * q + r /\ S = 2 * h /\ p = 2 * g
  BY SMT
<1> HIDE DEF r, q, h, g
<1> DEFINE n == h * q
<1>2. n \in Int /\ S * q = 2 * n
  BY <1>1, SMT
<1> HIDE DEF n
<1>3. r = 2 * (g - n) + 0 /\ g - n \in Int
  BY <1>1, <1>2, SMT
<1>4. r % 2 = 0
  BY <1>1, <1>3, SMT
<1>. QED  BY <1>4 DEF r

=============================================================================
