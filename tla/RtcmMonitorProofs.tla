-------------------------- MODULE RtcmMonitorProofs --------------------------
(***************************************************************************)
(* Theorems about module RtcmMonitor, for every stream, every cutting into *)
(* chunks, every frame size and every size of the buffer, the tap, the     *)
(* snapshot and the table: the frames counted are those of the stream in   *)
(* one piece, nothing but an unfinished would-be frame is held back, the   *)
(* last frame and the tap are the latest, and the table adds up.           *)
(*                                                                         *)
(* The scan and the reference Starts are recursive functions: that they    *)
(* satisfy their equations, and what they compute, is shown by induction   *)
(* over the positions, in the form of a least counterexample               *)
(* (LeastNumber), which the library proves without an operator parameter.  *)
(* The scan is local - what it judges depends on the bytes of the would-be *)
(* frame only - so at a boundary, a position no frame of the stream        *)
(* reaches over, it finds in the buffer what the reference finds in the    *)
(* stream.                                                                 *)
(***************************************************************************)
EXTENDS RtcmMonitor, SequenceTheorems, FiniteSetTheorems, WellFoundedInduction, TLAPS

-----------------------------------------------------------------------------
(* Induction over the numbers, and functions defined by recursion *)

LEMMA NatIsOrdered ==
  \E R : IsWellFoundedOn(R, Nat) /\ \A i, j \in Nat : i < j => <<i, j>> \in R
<1>1. IsWellFoundedOn(OpToRel(<, Nat), Nat) BY NatLessThanWellFounded
<1>2. \A i, j \in Nat : i < j => <<i, j>> \in OpToRel(<, Nat) BY DEF OpToRel
<1> QED BY <1>1, <1>2, Zenon

\* The form of induction the proofs below use: a set of numbers has a least one.
LEMMA LeastNumber ==
  ASSUME NEW T, T \subseteq Nat, T # {}
  PROVE  \E m \in T : \A k \in T : m <= k
<1>1. PICK R : IsWellFoundedOn(R, Nat) /\ \A i, j \in Nat : i < j => <<i, j>> \in R
  BY NatIsOrdered
<1>2. T \subseteq Nat /\ IsWellFoundedOn(R, Nat) BY <1>1
<1>3. PICK m \in T : \A k \in T : ~ (<<k, m>> \in R) BY <1>2, WFMin, Zenon
<1>4. \A k \in T : ~(k < m) BY <1>1, <1>3
<1> QED BY <1>4

LEMMA Induction ==
  ASSUME NEW N \in Nat, NEW T, \A n \in 0..N : (\A m \in 0..N : m < n => m \in T) => n \in T
  PROVE  0..N \subseteq T
<1> DEFINE U == (0..N) \ T
<1>1. SUFFICES ASSUME U # {} PROVE FALSE OBVIOUS
<1>2. U \subseteq Nat /\ \A n : n \in U <=> n \in 0..N /\ n \notin T OBVIOUS
<1> HIDE DEF U
<1>3. PICK n \in U : \A k \in U : n <= k BY <1>1, <1>2, LeastNumber
<1>4. \A m \in 0..N : m < n => m \in T BY <1>2, <1>3
<1> QED BY <1>2, <1>3, <1>4

LEMMA StepByStep ==
  ASSUME NEW N \in Nat, NEW T, 0 \in T, \A n \in 1..N : n - 1 \in T => n \in T
  PROVE  0..N \subseteq T
<1>1. \A n \in 0..N : (\A m \in 0..N : m < n => m \in T) => n \in T
  <2> TAKE n \in 0..N
  <2>1. CASE n = 0 BY <2>1
  <2>2. CASE n # 0
    <3>1. n \in 1..N /\ n - 1 \in 0..N /\ n - 1 < n BY <2>2
    <3> QED BY <3>1
  <2> QED BY <2>1, <2>2
<1> QED BY <1>1, Induction

\* A step that is possible from every value can be repeated N times.
Possible(N, V, R) == \A n \in 1..N, v \in V : \E w \in V : <<n, v, w>> \in R
Repeats(N, V, v0, R) ==
  \E f \in [0..N -> V] : f[0] = v0 /\ \A n \in 1..N : <<n, f[n - 1], f[n]>> \in R

LEMMA Repetition ==
  ASSUME NEW N \in Nat, NEW V, NEW v0 \in V, NEW R, Possible(N, V, R)
  PROVE  Repeats(N, V, v0, R)
<1> DEFINE P(k, f) == f[0] = v0 /\ \A n \in 1..k : <<n, f[n - 1], f[n]>> \in R
           T == {k \in 0..N : \E f \in [0..k -> V] : P(k, f)}
<1>1. 0 \in T
  <2> DEFINE f == [i \in 0..0 |-> v0]
  <2>1. f \in [0..0 -> V] /\ P(0, f) OBVIOUS
  <2> HIDE DEF f, P
  <2> QED BY <2>1
<1>2. ASSUME NEW k \in 1..N, NEW f \in [0..(k - 1) -> V], P(k - 1, f)
      PROVE  \E g \in [0..k -> V] : P(k, g)
  <2>1. f[k - 1] \in V OBVIOUS
  <2>2. PICK w \in V : <<k, f[k - 1], w>> \in R BY <2>1 DEF Possible
  <2> DEFINE g == [i \in 0..k |-> IF i = k THEN w ELSE f[i]]
  <2>3. g \in [0..k -> V] OBVIOUS
  <2>4. g[0] = v0 BY <1>2
  <2>5. \A n \in 1..k : <<n, g[n - 1], g[n]>> \in R
    <3> TAKE n \in 1..k
    <3>1. CASE n = k
      <4>1. g[n - 1] = f[k - 1] /\ g[n] = w BY <3>1
      <4> QED BY <2>2, <3>1, <4>1
    <3>2. CASE n # k
      <4>1. n \in 1..(k - 1) /\ g[n - 1] = f[n - 1] /\ g[n] = f[n] BY <3>2
      <4> QED BY <1>2, <4>1
    <3> QED BY <3>1, <3>2
  <2> QED BY <2>3, <2>4, <2>5
<1>3. \A k \in 1..N : k - 1 \in T => k \in T BY <1>2
<1> HIDE DEF P
<1>4. N \in T
  <2> HIDE DEF T
  <2>1. 0..N \subseteq T BY <1>1, <1>3, StepByStep
  <2> QED BY <2>1
<1> QED BY <1>4 DEF P, Repeats

-----------------------------------------------------------------------------
(* The frames of a stream *)

\* A byte starts a frame iff a good one is there and no earlier frame covers it.
LEMMA StartsAre ==
  ASSUME NEW w \in Seq(Byte)
  PROVE  /\ Starts(w) \subseteq 1..Len(w)
         /\ \A p \in 1..Len(w) :
              p \in Starts(w) <=> /\ Good(w, p)
                                 /\ \A q \in Starts(w) : q < p => q + FrameLen(w, q) <= p
<1> DEFINE N == Len(w)
           V == SUBSET (1..N)
           Free(S, p) == \A q \in S : q + FrameLen(w, q) <= p
           Def(f, p) == IF p = 0 THEN {}
                        ELSE IF Good(w, p) /\ Free(f[p - 1], p) THEN f[p - 1] \cup {p} ELSE f[p - 1]
           R == {t \in (1..N) \X V \X V :
                   t[3] = IF Good(w, t[1]) /\ Free(t[2], t[1]) THEN t[2] \cup {t[1]} ELSE t[2]}
<1>1. N \in Nat BY LenProperties
<1>2. \E f : f = [p \in 0..N |-> Def(f, p)]
  <2>1. Possible(N, V, R)
    <3> SUFFICES ASSUME NEW n \in 1..N, NEW v \in V PROVE \E x \in V : <<n, v, x>> \in R
      BY DEF Possible
    <3> DEFINE x == IF Good(w, n) /\ Free(v, n) THEN v \cup {n} ELSE v
    <3>1. x \in V OBVIOUS
    <3>2. <<n, v, x>> \in R BY <3>1
    <3> QED BY <3>1, <3>2
  <2>2. {} \in V OBVIOUS
  <2>3. PICK f \in [0..N -> V] : f[0] = {} /\ \A n \in 1..N : <<n, f[n - 1], f[n]>> \in R
    <3> HIDE DEF N, V, R
    <3>1. Repeats(N, V, {}, R) BY <1>1, <2>1, <2>2, Repetition
    <3> QED BY <3>1 DEF Repeats
  <2>4. \A p \in 0..N : f[p] = Def(f, p)
    <3> TAKE p \in 0..N
    <3>1. CASE p = 0 BY <2>3, <3>1
    <3>2. CASE p # 0
      <4>1. p \in 1..N BY <1>1, <3>2
      <4> HIDE DEF N
      <4> QED BY <2>3, <3>2, <4>1
    <3> QED BY <3>1, <3>2
  <2> HIDE DEF Def, V, N
  <2>5. f = [p \in 0..N |-> Def(f, p)] BY <2>3, <2>4
  <2> QED BY <2>5
<1>3. PICK f : f = [p \in 0..N |-> Def(f, p)] /\ Starts(w) = f[N]
  <2> DEFINE g == CHOOSE f : f = [p \in 0..N |-> Def(f, p)]
  <2>1. g = [p \in 0..N |-> Def(g, p)]
    <3> HIDE DEF Def, N
    <3> QED BY <1>2
  <2>2. Starts(w) = g[N] BY DEF Starts
  <2> HIDE DEF g
  <2> QED BY <2>1, <2>2
<1>4. f[0] = {} BY <1>1, <1>3
<1>5. \A n \in 1..N : f[n] = IF Good(w, n) /\ Free(f[n - 1], n)
                             THEN f[n - 1] \cup {n} ELSE f[n - 1]
  <2> TAKE n \in 1..N
  <2>1. n \in 0..N /\ n # 0 BY <1>1
  <2> HIDE DEF N, Free
  <2> QED BY <1>3, <2>1
<1> HIDE DEF N, Free
<1> DEFINE H(r) == \A p \in 0..r : f[p] = f[r] \cap (1..p)
<1>6. \A r \in 0..N : H(r)
  <2> DEFINE T == {r \in 0..N : H(r)}
  <2>1. 0 \in T BY <1>1, <1>4
  <2>2. ASSUME NEW n \in 1..N, n - 1 \in T PROVE n \in T
    <3>1. f[n - 1] \subseteq 1..(n - 1) BY <1>1, <2>2
    <3>2. \A p \in 0..(n - 1) : f[p] = f[n - 1] \cap (1..p) BY <2>2
    <3>a. f[n] = f[n - 1] \/ f[n] = f[n - 1] \cup {n} BY <1>5
    <3>b. \A p \in 0..(n - 1) : n \notin 1..p BY <1>1
    <3>3. \A p \in 0..(n - 1) : f[n] \cap (1..p) = f[n - 1] \cap (1..p) BY <3>a, <3>b
    <3>c. 1..(n - 1) \subseteq 1..n /\ n \in 1..n BY <1>1
    <3>4. f[n] \subseteq 1..n BY <3>1, <3>a, <3>c
    <3>5. \A p \in 0..n : p \in 0..(n - 1) \/ p = n BY <1>1
    <3>6. H(n) BY <3>2, <3>3, <3>4, <3>5
    <3> QED BY <1>1, <3>6
  <2> HIDE DEF T
  <2>3. 0..N \subseteq T BY <1>1, <2>1, <2>2, StepByStep
  <2> QED BY <2>3 DEF T
<1>7. f[N] \subseteq 1..N BY <1>1, <1>6
<1>8. ASSUME NEW p \in 1..N
      PROVE  p \in f[N] <=> Good(w, p) /\ \A q \in f[N] : q < p => q + FrameLen(w, q) <= p
  <2>1. f[p] = f[N] \cap (1..p) /\ f[p - 1] = f[N] \cap (1..(p - 1)) BY <1>1, <1>6
  <2>2. p \in f[N] <=> p \in f[p] BY <1>1, <2>1
  <2>3. p \notin f[p - 1] BY <1>1, <2>1
  <2>4. p \in f[p] <=> Good(w, p) /\ Free(f[p - 1], p) BY <1>5, <2>3
  <2>5. Free(f[p - 1], p) <=> \A q \in f[N] : q < p => q + FrameLen(w, q) <= p
    <3>1. \A q : q \in f[p - 1] <=> q \in f[N] /\ q < p BY <1>1, <1>7, <2>1
    <3> QED BY <3>1 DEF Free
  <2> QED BY <2>2, <2>4, <2>5
<1> QED BY <1>3, <1>7, <1>8 DEF N

\* A frame is judged by its own bytes only, wherever they lie.
Part(u, w, d) == Len(u) + d <= Len(w) /\ \A i \in 1..Len(u) : u[i] = w[d + i]

LEMMA LenTypes ==
  ASSUME NEW w \in Seq(Byte)
  PROVE  /\ Len(w) \in Nat
         /\ \A i \in 1..Len(w) : w[i] \in Byte /\ w[i] \in Nat
         /\ \A p \in 1..(Len(w) - 1) : FrameLen(w, p) \in 3..MaxFrame
<1>1. Len(w) \in Nat /\ \A i \in 1..Len(w) : w[i] \in Byte BY LenProperties, ElementOfSeq
<1>2. \A i \in 1..Len(w) : w[i] \in Nat BY <1>1, ByteAssumption
<1>3. \A p \in 1..(Len(w) - 1) : FrameLen(w, p) \in 3..MaxFrame
  <2> TAKE p \in 1..(Len(w) - 1)
  <2>1. p + 1 \in 1..Len(w) BY <1>1
  <2>2. w[p + 1] \in Nat BY <1>2, <2>1
  <2>3. MaxPayload + 1 \in Nat \ {0} BY ByteAssumption
  <2>4. w[p + 1] % (MaxPayload + 1) \in 0..MaxPayload BY <2>2, <2>3, ByteAssumption
  <2> DEFINE m == w[p + 1] % (MaxPayload + 1)
  <2>5. FrameLen(w, p) = 3 + m /\ MaxFrame = 3 + MaxPayload
    <3>1. m \in Int /\ MaxPayload \in Int BY <2>4, ByteAssumption
    <3> QED BY <3>1 DEF FrameLen, MaxFrame, HDR_LEN, CRC_LEN
  <2> QED BY <2>4, <2>5, ByteAssumption
<1> QED BY <1>1, <1>2, <1>3

\* The bytes of a frame that has come in are those of the stream.
LEMMA FrameFacts ==
  ASSUME NEW w \in Seq(Byte), NEW p \in 1..Len(w)
  PROVE  /\ FrameIn(w, p) \in BOOLEAN
         /\ FrameIn(w, p) <=> p < Len(w) /\ p + FrameLen(w, p) - 1 <= Len(w)
         /\ FrameIn(w, p) => FrameLen(w, p) \in 3..MaxFrame
<1>1. Len(w) \in Nat BY LenTypes
<1>2. HeaderIn(w, p) <=> p < Len(w) BY <1>1 DEF HeaderIn, HDR_LEN
<1>3. p < Len(w) => FrameLen(w, p) \in 3..MaxFrame BY <1>1, LenTypes
<1>4. MaxFrame \in Nat BY ByteAssumption DEF MaxFrame, HDR_LEN, CRC_LEN
<1> QED BY <1>1, <1>2, <1>3, <1>4 DEF FrameIn

LEMMA PartOfSame ==
  ASSUME NEW u \in Seq(Byte), NEW w \in Seq(Byte), NEW d \in Nat, Part(u, w, d),
         NEW p \in 1..Len(u), NEW n \in Nat, p + n - 1 <= Len(u)
  PROVE  SubSeq(u, p, p + n - 1) = SubSeq(w, d + p, d + p + n - 1)
<1>1. Len(u) \in Nat /\ Len(w) \in Nat /\ p \in Nat BY LenTypes
<1>2. d + p + n - 1 <= Len(w) BY <1>1 DEF Part
<1> DEFINE a == SubSeq(u, p, p + n - 1)
           b == SubSeq(w, d + p, d + p + n - 1)
<1>3. /\ a \in Seq(Byte) /\ Len(a) = n
      /\ \A i \in 1..n : a[i] = u[p + i - 1]
  <2>1. \A i \in p..(p + n - 1) : u[i] \in Byte BY <1>1, LenTypes
  <2>2. /\ a \in Seq(Byte) /\ Len(a) = IF p <= p + n - 1 THEN p + n - 1 - p + 1 ELSE 0
        /\ \A i \in 1..(p + n - 1 - p + 1) : a[i] = u[p + i - 1]
    <3>1. p \in Int /\ p + n - 1 \in Int BY <1>1
    <3> QED BY <2>1, <3>1, SubSeqProperties
  <2>3. p + n - 1 - p + 1 = n /\ (p <= p + n - 1 <=> n > 0) BY <1>1
  <2> HIDE DEF a
  <2> QED BY <1>1, <2>2, <2>3
<1>4. /\ b \in Seq(Byte) /\ Len(b) = n
      /\ \A i \in 1..n : b[i] = w[d + p + i - 1]
  <2>1. \A i \in (d + p)..(d + p + n - 1) : w[i] \in Byte BY <1>1, <1>2, LenTypes
  <2>2. /\ b \in Seq(Byte)
        /\ Len(b) = IF d + p <= d + p + n - 1 THEN d + p + n - 1 - (d + p) + 1 ELSE 0
        /\ \A i \in 1..(d + p + n - 1 - (d + p) + 1) : b[i] = w[d + p + i - 1]
    <3>1. d + p \in Int /\ d + p + n - 1 \in Int BY <1>1
    <3> QED BY <2>1, <3>1, SubSeqProperties
  <2>3. d + p + n - 1 - (d + p) + 1 = n /\ (d + p <= d + p + n - 1 <=> n > 0) BY <1>1
  <2> HIDE DEF b
  <2> QED BY <1>1, <2>2, <2>3
<1>5. \A i \in 1..n : a[i] = b[i]
  <2> TAKE i \in 1..n
  <2>1. p + i - 1 \in 1..Len(u) /\ d + (p + i - 1) = d + p + i - 1 BY <1>1
  <2> HIDE DEF a, b
  <2> QED BY <1>3, <1>4, <2>1 DEF Part
<1> HIDE DEF a, b
<1> QED BY <1>3, <1>4, <1>5, SeqEqual DEF a, b

LEMMA FrameIsLocal ==
  ASSUME NEW u \in Seq(Byte), NEW w \in Seq(Byte), NEW d \in Nat, Part(u, w, d),
         NEW p \in 1..Len(u)
  PROVE  /\ d + p \in 1..Len(w) /\ u[p] = w[d + p]
         /\ FrameIn(u, p) =>
              /\ FrameIn(w, d + p)
              /\ FrameLen(u, p) = FrameLen(w, d + p)
              /\ CrcOk(u, p) <=> CrcOk(w, d + p)
              /\ TypeAt(u, p) = TypeAt(w, d + p)
              /\ \A n \in 0..FrameLen(u, p) :
                   SubSeq(u, p, p + n - 1) = SubSeq(w, d + p, d + p + n - 1)
         /\ Len(u) + d = Len(w) /\ FrameIn(w, d + p) => FrameIn(u, p)
<1>1. Len(u) \in Nat /\ Len(w) \in Nat /\ p \in Nat BY LenTypes
<1>2. d + p \in 1..Len(w) /\ u[p] = w[d + p] BY <1>1 DEF Part
<1>3. p < Len(u) => FrameLen(u, p) = FrameLen(w, d + p)
  <2> HAVE p < Len(u)
  <2>1. p + 1 \in 1..Len(u) /\ d + (p + 1) = d + p + 1 BY <1>1
  <2>2. u[p + 1] = w[d + p + 1] BY <2>1 DEF Part
  <2> QED BY <2>2 DEF FrameLen
<1>4. ASSUME FrameIn(u, p)
      PROVE  /\ FrameIn(w, d + p)
             /\ CrcOk(u, p) <=> CrcOk(w, d + p)
             /\ TypeAt(u, p) = TypeAt(w, d + p)
             /\ \A n \in 0..FrameLen(u, p) :
                  SubSeq(u, p, p + n - 1) = SubSeq(w, d + p, d + p + n - 1)
  <2> DEFINE l == FrameLen(u, p)
  <2>1. p < Len(u) /\ p + l - 1 <= Len(u) /\ l \in Nat /\ l >= 3 BY <1>4, FrameFacts
  <2>2. l = FrameLen(w, d + p) BY <1>3, <2>1
  <2>3. d + p < Len(w) /\ d + p + l - 1 <= Len(w) BY <1>1, <2>1 DEF Part
  <2> HIDE DEF l
  <2>4. FrameIn(w, d + p) BY <1>2, <2>2, <2>3, FrameFacts
  <2>5. \A n \in 0..l : SubSeq(u, p, p + n - 1) = SubSeq(w, d + p, d + p + n - 1)
    <3> TAKE n \in 0..l
    <3>1. n \in Nat /\ p + n - 1 <= Len(u) BY <1>1, <2>1
    <3> QED BY <3>1, PartOfSame
  <2>6. p + l - 1 \in 1..Len(u) /\ d + (p + l - 1) = d + p + l - 1 BY <1>1, <2>1
  <2>7. u[p + l - 1] = w[d + p + l - 1] BY <2>6 DEF Part
  <2>8. l - 1 \in 0..l /\ (p + l - 1) - CRC_LEN = p + (l - 1) - 1
           /\ (d + p + l - 1) - CRC_LEN = d + p + (l - 1) - 1 BY <1>1, <2>1 DEF CRC_LEN
  <2>9. SubSeq(u, p, (p + l - 1) - CRC_LEN) = SubSeq(w, d + p, (d + p + l - 1) - CRC_LEN)
    BY <2>5, <2>8
  <2>10. CrcOk(u, p) <=> CrcOk(w, d + p)
    <3>1. CrcOk(u, p) <=> Crc(SubSeq(u, p, (p + l - 1) - CRC_LEN)) = u[p + l - 1] BY DEF CrcOk, l
    <3>2. CrcOk(w, d + p) <=> Crc(SubSeq(w, d + p, (d + p + l - 1) - CRC_LEN)) = w[d + p + l - 1]
      BY <2>2 DEF CrcOk
    <3> QED BY <2>7, <2>9, <3>1, <3>2
  <2>11. p + HDR_LEN \in 1..Len(u) /\ d + (p + HDR_LEN) = d + p + HDR_LEN
    BY <1>1, <2>1 DEF HDR_LEN
  <2>12. TypeAt(u, p) = TypeAt(w, d + p) BY <2>11 DEF TypeAt, Part
  <2> QED BY <2>4, <2>5, <2>10, <2>12 DEF l
<1>5. Len(u) + d = Len(w) /\ FrameIn(w, d + p) => FrameIn(u, p)
  <2> HAVE Len(u) + d = Len(w) /\ FrameIn(w, d + p)
  <2>1. d + p < Len(w) /\ d + p + FrameLen(w, d + p) - 1 <= Len(w)
        /\ FrameLen(w, d + p) \in Nat
    BY <1>2, FrameFacts
  <2>2. p < Len(u) BY <1>1, <2>1
  <2>3. p + FrameLen(u, p) - 1 <= Len(u) BY <1>1, <1>3, <2>1, <2>2
  <2> QED BY <2>2, <2>3, FrameFacts
<1>6. FrameIn(u, p) => p < Len(u) BY FrameFacts
<1> QED BY <1>2, <1>3, <1>4, <1>5, <1>6

\* No frame of w reaches over the end of its first n bytes.
Boundary(w, n) == \A q \in Starts(w) : q <= n => q + FrameLen(w, q) - 1 <= n

Framed(w, a, b) == Starts(w) \cap (a..b)
Failed(w, a, b) == {x \in a..b : Whole(w, x) /\ ~Inside(w, x)}

LEMMA StartFacts ==
  ASSUME NEW w \in Seq(Byte), NEW q \in Starts(w)
  PROVE  /\ q \in 1..Len(w) /\ Len(w) \in Nat /\ Good(w, q)
         /\ FrameLen(w, q) \in 3..MaxFrame /\ q + FrameLen(w, q) - 1 <= Len(w)
<1>1. q \in 1..Len(w) /\ Good(w, q) BY StartsAre
<1>2. FrameIn(w, q) BY <1>1 DEF Good, Whole
<1> QED BY <1>1, <1>2, FrameFacts, LenTypes

\* At a boundary the checksum alone decides.
LEMMA AtBoundary ==
  ASSUME NEW w \in Seq(Byte), NEW p \in 1..Len(w), Boundary(w, p - 1)
  PROVE  /\ p \in Starts(w) <=> Good(w, p)
         /\ p \notin Starts(w) => Boundary(w, p) /\ ~Inside(w, p)
         /\ p \in Starts(w) =>
              /\ Boundary(w, p + FrameLen(w, p) - 1)
              /\ \A x \in p..(p + FrameLen(w, p) - 1) :
                   Inside(w, x) /\ (x \in Starts(w) => x = p)
<1>1. \A q \in Starts(w) : /\ q \in 1..Len(w) /\ FrameLen(w, q) \in 3..MaxFrame
                           /\ q < p => q + FrameLen(w, q) <= p
  <2> TAKE q \in Starts(w)
  <2>1. q \in 1..Len(w) /\ FrameLen(w, q) \in 3..MaxFrame BY StartFacts
  <2>2. q < p => q <= p - 1 BY <2>1
  <2>3. q <= p - 1 => q + FrameLen(w, q) - 1 <= p - 1 BY DEF Boundary
  <2> QED BY <2>1, <2>2, <2>3
<1>2. p \in Starts(w) <=> Good(w, p) BY <1>1, StartsAre
<1>3. ASSUME p \notin Starts(w) PROVE Boundary(w, p) /\ ~Inside(w, p)
  <2>1. \A q \in Starts(w) : q <= p => q < p BY <1>1, <1>3
  <2>2. Boundary(w, p) BY <1>1, <2>1 DEF Boundary
  <2>3. ~Inside(w, p) BY <1>1, <2>1 DEF Inside
  <2> QED BY <2>2, <2>3
<1>4. ASSUME p \in Starts(w)
      PROVE  /\ Boundary(w, p + FrameLen(w, p) - 1)
             /\ \A x \in p..(p + FrameLen(w, p) - 1) :
                  Inside(w, x) /\ (x \in Starts(w) => x = p)
  <2> DEFINE l == FrameLen(w, p)
  <2>1. l \in 3..MaxFrame BY <1>1, <1>4
  <2>2. \A q \in Starts(w) : p < q => p + l <= q BY <1>1, <1>4, StartsAre
  <2>3. \A q \in Starts(w) : q <= p + l - 1 => q < p \/ q = p BY <1>1, <2>1, <2>2
  <2>4. Boundary(w, p + l - 1) BY <1>1, <2>1, <2>3 DEF Boundary
  <2>5. \A x \in p..(p + l - 1) : Inside(w, x) BY <1>4, <2>1 DEF Inside
  <2>6. \A x \in p..(p + l - 1) : x \in Starts(w) => x = p BY <2>1, <2>3
  <2> QED BY <2>4, <2>5, <2>6
<1> QED BY <1>2, <1>3, <1>4

\* The sets of frames and failures are finite, and grow by one at a time.
LEMMA Counts ==
  ASSUME NEW w \in Seq(Byte), NEW a \in Int, NEW b \in Int
  PROVE  /\ IsFiniteSet(Framed(w, a, b)) /\ IsFiniteSet(Failed(w, a, b))
         /\ \A t : IsFiniteSet({x \in Framed(w, a, b) : TypeAt(w, x) = t})
<1>1. IsFiniteSet(a..b) BY FS_Interval
<1>2. /\ Framed(w, a, b) \subseteq a..b /\ Failed(w, a, b) \subseteq a..b
      /\ \A t : {x \in Framed(w, a, b) : TypeAt(w, x) = t} \subseteq a..b
  BY DEF Framed, Failed
<1> QED BY <1>1, <1>2, FS_Subset

\* How often t is in the sequence s
Count(s, t) == Cardinality({i \in 1..Len(s) : s[i] = t})

LEMMA CountPrepend ==
  ASSUME NEW s \in Seq(Byte), NEW a \in Byte
  PROVE  /\ <<a>> \o s \in Seq(Byte) /\ Len(<<a>> \o s) = Len(s) + 1
         /\ \A t : /\ Count(s, t) \in Nat
                   /\ Count(<<a>> \o s, t) = IF a = t THEN Count(s, t) + 1 ELSE Count(s, t)
<1> DEFINE r == <<a>> \o s
<1>1. /\ r \in Seq(Byte) /\ Len(r) = Len(s) + 1 /\ Len(s) \in Nat
      /\ \A i \in 1..Len(r) : r[i] = IF i <= 1 THEN a ELSE s[i - 1]
  <2>1. <<a>> \in Seq(Byte) /\ Len(<<a>>) = 1 /\ <<a>>[1] = a OBVIOUS
  <2>2. /\ r \in Seq(Byte) /\ Len(r) = Len(<<a>>) + Len(s)
        /\ \A i \in 1..(Len(<<a>>) + Len(s)) :
             r[i] = IF i <= Len(<<a>>) THEN <<a>>[i] ELSE s[i - Len(<<a>>)]
    BY <2>1, ConcatProperties
  <2>3. Len(s) \in Nat BY LenProperties
  <2> HIDE DEF r
  <2>4. Len(r) = Len(s) + 1 BY <2>1, <2>2, <2>3
  <2>5. \A i \in 1..Len(r) : r[i] = IF i <= 1 THEN a ELSE s[i - 1]
    <3> TAKE i \in 1..Len(r)
    <3>1. i <= 1 => i = 1 BY <2>3, <2>4
    <3>2. i <= Len(<<a>>) <=> i <= 1 BY <2>1
    <3> QED BY <2>1, <2>2, <2>4, <3>1, <3>2
  <2> QED BY <2>2, <2>3, <2>4, <2>5
<1> HIDE DEF r
<1>2. ASSUME NEW t
      PROVE  /\ Count(s, t) \in Nat
             /\ Count(r, t) = IF a = t THEN Count(s, t) + 1 ELSE Count(s, t)
  <2> DEFINE A == {i \in 1..Len(s) : s[i] = t}
             B == {i \in 2..Len(r) : r[i] = t}
             f == [i \in A |-> i + 1]
  <2>1. IsFiniteSet(A)
    <3>1. IsFiniteSet(1..Len(s)) /\ A \subseteq 1..Len(s) BY <1>1, FS_Interval
    <3> QED BY <3>1, FS_Subset
  <2>2. f \in Bijection(A, B)
    <3>1. \A i \in A : i + 1 \in B
      <4> TAKE i \in A
      <4>1. i + 1 \in 2..Len(r) /\ i + 1 \in 1..Len(r) /\ ~(i + 1 <= 1) /\ (i + 1) - 1 = i BY <1>1
      <4> QED BY <1>1, <4>1
    <3>2. \A j \in B : j - 1 \in A /\ f[j - 1] = j
      <4> TAKE j \in B
      <4>1. j \in 1..Len(r) /\ ~(j <= 1) /\ j - 1 \in 1..Len(s) /\ (j - 1) + 1 = j BY <1>1
      <4>2. s[j - 1] = t BY <1>1, <4>1
      <4> QED BY <4>1, <4>2
    <3>3. f \in [A -> B] BY <3>1
    <3>4. \A i, j \in A : f[i] = f[j] => i = j OBVIOUS
    <3>5. \A j \in B : \E i \in A : f[i] = j BY <3>2
    <3> HIDE DEF A, B, f
    <3>6. f \in Injection(A, B) BY <3>3, <3>4 DEF Injection, IsInjective
    <3>7. f \in Surjection(A, B) BY <3>3, <3>5 DEF Surjection
    <3> QED BY <3>6, <3>7 DEF Bijection
  <2>3. IsFiniteSet(B) /\ Cardinality(B) = Cardinality(A)
    <3> HIDE DEF A, B, f
    <3>1. ExistsBijection(A, B) BY <2>2 DEF ExistsBijection
    <3> QED BY <2>1, <3>1, FS_Bijection
  <2>4. {i \in 1..Len(r) : r[i] = t} = IF a = t THEN B \cup {1} ELSE B
    <3>1. 1 \in 1..Len(r) /\ r[1] = a BY <1>1
    <3>2. \A i : i \in 1..Len(r) <=> i \in 2..Len(r) \/ i = 1 BY <1>1
    <3> QED BY <3>1, <3>2
  <2>5. 1 \notin B /\ Cardinality(A) \in Nat BY <2>1, FS_CardinalityType
  <2>6. Cardinality(B \cup {1}) = Cardinality(B) + 1
    <3> HIDE DEF B
    <3> QED BY <2>3, <2>5, FS_AddElement
  <2> HIDE DEF A, B, f
  <2>7. Count(s, t) = Cardinality(A) BY DEF Count, A
  <2>8. Count(r, t) = Cardinality(IF a = t THEN B \cup {1} ELSE B) BY <2>4 DEF Count
  <2> QED BY <2>3, <2>5, <2>6, <2>7, <2>8
<1> QED BY <1>1, <1>2 DEF r

-----------------------------------------------------------------------------
(* The scan of the buffer *)

Shown(w, q) == SubSeq(w, q, q + Least(FrameLen(w, q), RTCM_MON_SNAP_BYTES) - 1)
OfType(w, S, t) == {x \in S : TypeAt(w, x) = t}

\* What the scan of the buffer u, the bytes of w behind the first d, has found
\* from position p on: the frames of w from d + p to where it stopped.
Records == [pos : Nat, frames : Seq(Byte), fails : Nat, snap : Seq(Byte)]
Newest(w, F, r) ==
  IF r.frames = <<>> THEN F = {} /\ r.snap = <<>>
  ELSE \E m \in F : (\A x \in F : x <= m) /\ r.snap = Shown(w, m)
Found(w, a, b, r) ==
  /\ Len(r.frames) = Cardinality(Framed(w, a, b))
  /\ \A t : Count(r.frames, t) = Cardinality(OfType(w, Framed(w, a, b), t))
  /\ r.fails = Cardinality(Failed(w, a, b))
  /\ Newest(w, Framed(w, a, b), r)
  /\ \A x \in a..b : w[x] = Preamble => Whole(w, x) \/ Inside(w, x)
Scanned(u, w, d, p, r) ==
  /\ r \in Records /\ r.pos \in p..(Len(u) + 1)
  /\ r.pos <= Len(u) => u[r.pos] = Preamble /\ ~FrameIn(u, r.pos)
  /\ Boundary(w, d + r.pos - 1)
  /\ Found(w, d + p, d + r.pos - 1, r)

LEMMA FoundNothing ==
  ASSUME NEW w \in Seq(Byte), NEW a \in Nat, NEW r, r.frames = <<>>, r.fails = 0, r.snap = <<>>
  PROVE  Found(w, a, a - 1, r)
<1>1. a..(a - 1) = {} OBVIOUS
<1>2. /\ Framed(w, a, a - 1) = {} /\ Failed(w, a, a - 1) = {}
      /\ \A t : OfType(w, Framed(w, a, a - 1), t) = {}
  BY <1>1 DEF Framed, Failed, OfType
<1>3. Len(<<>>) = 0 /\ \A t : Count(<<>>, t) = 0
  <2>1. \A t : {i \in 1..Len(<<>>) : <<>>[i] = t} = {} BY EmptySeq
  <2> QED BY <2>1, EmptySeq, FS_EmptySet DEF Count
<1> QED BY <1>1, <1>2, <1>3, FS_EmptySet DEF Found, Newest

\* A byte that starts no frame and is no would-be frame changes nothing.
LEMMA SkipByte ==
  ASSUME NEW w \in Seq(Byte), NEW a \in 1..Len(w), NEW b \in Int, a <= b, NEW r,
         Boundary(w, a - 1), w[a] # Preamble, Found(w, a + 1, b, r)
  PROVE  Found(w, a, b, r)
<1>1. a \notin Starts(w) BY AtBoundary DEF Good, Whole
<1>2. \A x : x \in a..b <=> x = a \/ x \in (a + 1)..b OBVIOUS
<1>3. /\ Framed(w, a, b) = Framed(w, a + 1, b) /\ Failed(w, a, b) = Failed(w, a + 1, b)
      /\ \A x \in a..b : x = a \/ x \in (a + 1)..b
  BY <1>1, <1>2 DEF Framed, Failed, Whole
<1> QED BY <1>3 DEF Found

\* A would-be frame outside of every frame that fails its checksum is one failure.
LEMMA SkipFailed ==
  ASSUME NEW w \in Seq(Byte), NEW a \in 1..Len(w), NEW b \in Int, a <= b, NEW r \in Records,
         Boundary(w, a - 1), Whole(w, a), ~CrcOk(w, a), Found(w, a + 1, b, r)
  PROVE  Found(w, a, b, [r EXCEPT !.fails = @ + 1])
<1> DEFINE rr == [r EXCEPT !.fails = @ + 1]
<1>1. a \notin Starts(w) /\ ~Inside(w, a) BY AtBoundary DEF Good
<1>2. \A x : x \in a..b <=> x = a \/ x \in (a + 1)..b OBVIOUS
<1>3. Framed(w, a, b) = Framed(w, a + 1, b) /\ Failed(w, a, b) = Failed(w, a + 1, b) \cup {a}
  BY <1>1, <1>2 DEF Framed, Failed
<1>4. a \notin Failed(w, a + 1, b) /\ IsFiniteSet(Failed(w, a + 1, b))
  <2>1. a + 1 \in Int /\ a \notin (a + 1)..b OBVIOUS
  <2> QED BY <2>1, Counts DEF Failed
<1>5. Cardinality(Failed(w, a, b)) = Cardinality(Failed(w, a + 1, b)) + 1
  BY <1>3, <1>4, FS_AddElement
<1>6. rr.frames = r.frames /\ rr.snap = r.snap /\ rr.fails = r.fails + 1 BY DEF Records
<1>7. \A x \in a..b : x = a \/ x \in (a + 1)..b BY <1>2
<1> HIDE DEF rr
<1> QED BY <1>3, <1>5, <1>6, <1>7 DEF Found, Newest, rr

\* A good frame at a boundary is the next frame of the stream.
LEMMA TakeFrame ==
  ASSUME NEW w \in Seq(Byte), NEW a \in 1..Len(w), Boundary(w, a - 1), Good(w, a),
         NEW l, l = FrameLen(w, a), NEW b \in Int, a + l - 1 <= b, NEW r \in Records,
         Found(w, a + l, b, r), NEW t \in Byte, t = TypeAt(w, a),
         NEW s, s = IF r.snap # <<>> THEN r.snap ELSE Shown(w, a), Shown(w, a) # <<>>,
         \A x \in Starts(w) : Shown(w, x) # <<>>
  PROVE  Found(w, a, b, [r EXCEPT !.frames = <<t>> \o @, !.snap = s])
<1> DEFINE rr == [r EXCEPT !.frames = <<t>> \o @, !.snap = s]
           F == Framed(w, a + l, b)
<1>1. rr.frames = <<t>> \o r.frames /\ rr.snap = s /\ rr.fails = r.fails /\ r.frames \in Seq(Byte)
  BY DEF Records
<1>2. a \in Starts(w) /\ a \in Nat BY AtBoundary
<1>3. l \in 3..MaxFrame /\ l \in Nat BY <1>2, StartFacts
<1>4. \A x \in a..(a + l - 1) : Inside(w, x) /\ (x \in Starts(w) => x = a)
  BY <1>2, AtBoundary
<1>5. \A x : x \in a..b <=> x \in a..(a + l - 1) \/ x \in (a + l)..b BY <1>3
<1>6. Framed(w, a, b) = F \cup {a} /\ a \notin F /\ a \in a..b
  BY <1>2, <1>3, <1>4, <1>5 DEF Framed
<1>7. Failed(w, a, b) = Failed(w, a + l, b) BY <1>4, <1>5 DEF Failed
<1>8. IsFiniteSet(F) /\ \A u : IsFiniteSet(OfType(w, F, u)) 
  <2>1. a + l \in Int BY <1>2, <1>3
  <2> QED BY <2>1, Counts DEF OfType
<1>9. Cardinality(Framed(w, a, b)) = Cardinality(F) + 1
  <2> HIDE DEF F
  <2> QED BY <1>6, <1>8, FS_AddElement
<1>10. ASSUME NEW u
       PROVE  Cardinality(OfType(w, Framed(w, a, b), u)) =
                IF t = u THEN Cardinality(OfType(w, F, u)) + 1 ELSE Cardinality(OfType(w, F, u))
  <2> HIDE DEF F
  <2>1. OfType(w, Framed(w, a, b), u) = IF t = u THEN OfType(w, F, u) \cup {a} ELSE OfType(w, F, u)
    BY <1>6 DEF OfType
  <2>2. a \notin OfType(w, F, u) BY <1>6 DEF OfType
  <2> QED BY <1>8, <2>1, <2>2, FS_AddElement
<1>11. \A x \in F : a < x /\ x \in Int /\ x \in Starts(w) BY <1>3 DEF Framed
<1>12. Newest(w, Framed(w, a, b), rr)
  <2>1. rr.frames # <<>>
    <3>1. Len(rr.frames) = Len(r.frames) + 1 /\ Len(r.frames) \in Nat
      BY <1>1, CountPrepend, LenProperties
    <3> QED BY <3>1, EmptySeq
  <2>2. Newest(w, F, r) BY DEF Found
  <2>3. CASE r.frames = <<>>
    <3>1. F = {} /\ s = Shown(w, a) BY <2>2, <2>3 DEF Newest
    <3>2. a \in Framed(w, a, b) /\ \A x \in Framed(w, a, b) : x <= a BY <1>2, <1>6, <3>1
    <3> QED BY <1>1, <2>1, <3>1, <3>2 DEF Newest
  <2>4. CASE r.frames # <<>>
    <3>1. PICK m \in F : (\A x \in F : x <= m) /\ r.snap = Shown(w, m) BY <2>2, <2>4 DEF Newest
    <3> HIDE DEF F
    <3>2. s = Shown(w, m) BY <1>11, <3>1
    <3>3. m \in Framed(w, a, b) /\ \A x \in Framed(w, a, b) : x <= m
      BY <1>2, <1>6, <1>11, <3>1
    <3> QED BY <1>1, <2>1, <3>2, <3>3 DEF Newest
  <2> QED BY <2>3, <2>4
<1>13. \A x \in a..b : w[x] = Preamble => Whole(w, x) \/ Inside(w, x)
  BY <1>4, <1>5 DEF Found
<1>14. Len(rr.frames) = Len(r.frames) + 1
       /\ \A u : Count(rr.frames, u) = IF t = u THEN Count(r.frames, u) + 1 ELSE Count(r.frames, u)
  BY <1>1, CountPrepend
<1> HIDE DEF rr
<1>15. /\ Len(rr.frames) = Cardinality(Framed(w, a, b))
       /\ \A u : Count(rr.frames, u) = Cardinality(OfType(w, Framed(w, a, b), u))
  BY <1>9, <1>10, <1>14 DEF Found
<1> QED BY <1>1, <1>7, <1>12, <1>13, <1>15 DEF Found, rr

LEMMA ScanLooksAhead ==
  ASSUME NEW u \in Seq(Byte), NEW p \in 1..(Len(u) + MaxFrame), NEW f, NEW g,
         \A x \in (p + 1)..(Len(u) + MaxFrame) : f[x] = g[x]
  PROVE  ScanAt(u, f, p) = ScanAt(u, g, p)
<1>1. Len(u) \in Nat /\ MaxFrame \in Nat /\ MaxFrame >= 3
  BY LenProperties, ByteAssumption DEF MaxFrame, HDR_LEN, CRC_LEN
<1>2. CASE p > Len(u) BY <1>2 DEF ScanAt
<1>3. CASE ~(p > Len(u))
  <2>1. p \in 1..Len(u) BY <1>1, <1>3
  <2>2. p + 1 \in (p + 1)..(Len(u) + MaxFrame) BY <1>1, <2>1
  <2>3. f[p + 1] = g[p + 1] /\ f[Resync(u, p)] = g[Resync(u, p)] BY <2>2 DEF Resync
  <2>4. FrameIn(u, p) => f[p + FrameLen(u, p)] = g[p + FrameLen(u, p)]
    <3> HAVE FrameIn(u, p)
    <3>1. p + FrameLen(u, p) - 1 <= Len(u) /\ FrameLen(u, p) \in 3..MaxFrame
      BY <2>1, FrameFacts
    <3>2. p + FrameLen(u, p) \in (p + 1)..(Len(u) + MaxFrame) BY <1>1, <2>1, <3>1
    <3> QED BY <3>2
  <2> QED BY <2>3, <2>4 DEF ScanAt
<1> QED BY <1>2, <1>3

\* The recursion of the scan is sound.
LEMMA ScanFunction ==
  ASSUME NEW u \in Seq(Byte)
  PROVE  \E f : f = [p \in 1..(Len(u) + MaxFrame) |-> ScanAt(u, f, p)] /\ Scan(u) = f[1]
<1> DEFINE N == Len(u) + MaxFrame
           Q(k) == \E f : f = [p \in (N - k + 1)..N |-> ScanAt(u, f, p)]
           T == {k \in 0..N : Q(k)}
<1>1. N \in Nat BY LenProperties, ByteAssumption DEF MaxFrame, HDR_LEN, CRC_LEN
<1>2. ASSUME NEW f, NEW g, NEW p \in 1..N, \A x \in (p + 1)..N : f[x] = g[x]
      PROVE  ScanAt(u, f, p) = ScanAt(u, g, p)
  BY <1>2, ScanLooksAhead
<1> HIDE DEF N
<1>3. Q(0)
  <2> DEFINE f == [p \in (N - 0 + 1)..N |-> 0]
  <2>1. (N - 0 + 1)..N = {} BY <1>1
  <2>2. f = [p \in (N - 0 + 1)..N |-> ScanAt(u, f, p)] BY <2>1
  <2> QED BY <2>2
<1>4. ASSUME NEW k \in 1..N, Q(k - 1) PROVE Q(k)
  <2> DEFINE a == N - k + 1
  <2>1. a \in 1..N /\ N - (k - 1) + 1 = a + 1 BY <1>1
  <2>2. PICK f : f = [p \in (a + 1)..N |-> ScanAt(u, f, p)] BY <1>4, <2>1
  <2> HIDE DEF a
  <2> DEFINE g == [p \in a..N |-> IF p = a THEN ScanAt(u, f, a) ELSE f[p]]
  <2>3. \A p \in (a + 1)..N : p \in a..N /\ p # a /\ p \in 1..N BY <1>1, <2>1
  <2>4. \A p \in (a + 1)..N : g[p] = f[p] BY <2>3
  <2>5. a \in a..N /\ a \in 1..N /\ g[a] = ScanAt(u, f, a) BY <1>1, <2>1
  <2>6. \A p \in a..N : g[p] = ScanAt(u, g, p)
    <3> TAKE p \in a..N
    <3>1. p \in 1..N /\ \A x \in (p + 1)..N : x \in (a + 1)..N BY <1>1, <2>1
    <3> HIDE DEF g
    <3>2. ScanAt(u, f, p) = ScanAt(u, g, p) BY <1>2, <2>4, <3>1
    <3>3. p = a \/ p \in (a + 1)..N BY <1>1, <2>1
    <3>4. \A x \in (a + 1)..N : f[x] = ScanAt(u, f, x) BY <2>2
    <3> QED BY <2>4, <2>5, <3>2, <3>3, <3>4
  <2>7. \E h : g = [p \in a..N |-> h[p]] OBVIOUS
  <2> HIDE DEF g
  <2>8. g = [p \in a..N |-> ScanAt(u, g, p)] BY <2>6, <2>7
  <2> QED BY <2>8 DEF a
<1>5. Q(N)
  <2>1. 0 \in T /\ \A n \in 1..N : n - 1 \in T => n \in T BY <1>1, <1>3, <1>4
  <2> HIDE DEF Q
  <2>2. 0..N \subseteq T
    <3> HIDE DEF T
    <3> QED BY <1>1, <2>1, StepByStep
  <2> QED BY <1>1, <2>2
<1> DEFINE F == CHOOSE f : f = [p \in 1..N |-> ScanAt(u, f, p)]
<1>6. F = [p \in 1..N |-> ScanAt(u, F, p)]
  <2>1. N - N + 1 = 1 BY <1>1
  <2>2. \E f : f = [p \in 1..N |-> ScanAt(u, f, p)] BY <1>5, <2>1
  <2> QED BY <2>2
<1>7. Scan(u) = F[1] BY DEF Scan, N
<1> HIDE DEF F
<1> QED BY <1>6, <1>7 DEF N

\* The scan finds the frames of the stream, from a boundary on.
LEMMA ScanFinds ==
  ASSUME NEW u \in Seq(Byte), NEW w \in Seq(Byte), NEW d \in Nat, Part(u, w, d),
         Len(u) + d = Len(w), Boundary(w, d)
  PROVE  Scanned(u, w, d, 1, Scan(u))
<1>1. PICK f : f = [p \in 1..(Len(u) + MaxFrame) |-> ScanAt(u, f, p)] /\ Scan(u) = f[1]
  BY ScanFunction
<1>2. Len(u) \in Nat /\ Len(w) \in Nat /\ MaxFrame \in Nat /\ MaxFrame >= 3
  BY LenProperties, ByteAssumption DEF MaxFrame, HDR_LEN, CRC_LEN
<1> DEFINE P(p) == Boundary(w, d + p - 1) => Scanned(u, w, d, p, f[p])
           T == {k \in 0..Len(u) : P(Len(u) + 1 - k)}
<1>3. \A p \in 1..(Len(u) + 1) : f[p] = ScanAt(u, f, p)
  <2> TAKE p \in 1..(Len(u) + 1)
  <2>1. p \in 1..(Len(u) + MaxFrame) BY <1>2
  <2> QED BY <1>1, <2>1
<1>4. ASSUME NEW p \in 1..(Len(u) + 1), Boundary(w, d + p - 1),
             \A q \in (p + 1)..(Len(u) + 1) : P(q)
      PROVE  Scanned(u, w, d, p, f[p])
  <2> DEFINE stop == [pos |-> p, frames |-> <<>>, fails |-> 0, snap |-> <<>>]
  <2>1. ASSUME f[p] = stop, p <= Len(u) => u[p] = Preamble /\ ~FrameIn(u, p)
        PROVE  Scanned(u, w, d, p, f[p])
    <3>1. stop \in Records /\ stop.pos = p BY EmptySeq DEF Records
    <3>2. Found(w, d + p, d + p - 1, stop)
      <4>1. stop.frames = <<>> /\ stop.fails = 0 /\ stop.snap = <<>> /\ d + p \in Nat OBVIOUS
      <4> HIDE DEF stop
      <4> QED BY <4>1, FoundNothing
    <3> HIDE DEF stop
    <3> QED BY <1>2, <1>4, <2>1, <3>1, <3>2 DEF Scanned
  <2>2. CASE p > Len(u)
    <3>1. f[p] = stop BY <1>3, <2>2 DEF ScanAt
    <3>2. ~(p <= Len(u)) BY <1>2, <2>2
    <3> QED BY <2>1, <3>1, <3>2
  <2>3. CASE p \in 1..Len(u)
    <3> DEFINE a == d + p
    <3>1. a \in 1..Len(w) /\ w[a] = u[p] BY <2>3, FrameIsLocal
    <3>2. ~(p > Len(u)) /\ p + 1 \in (p + 1)..(Len(u) + 1) /\ d + (p + 1) = a + 1
          /\ d + (p + 1) - 1 = a /\ d + p - 1 = a - 1
      BY <1>2, <2>3
    <3>3. Boundary(w, a - 1) BY <1>4, <3>2
    <3>4. CASE u[p] # Preamble
      <4>1. f[p] = f[p + 1] BY <1>3, <3>2, <3>4 DEF ScanAt
      <4>2. Boundary(w, a)
        <5>1. a \notin Starts(w) BY <3>1, <3>3, <3>4, AtBoundary DEF Good, Whole
        <5> QED BY <3>1, <3>3, <5>1, AtBoundary
      <4>3. Scanned(u, w, d, p + 1, f[p]) BY <1>4, <3>2, <4>1, <4>2
      <4> DEFINE r == f[p]
                 b == d + r.pos - 1
      <4>4. r.pos \in (p + 1)..(Len(u) + 1) /\ Found(w, a + 1, b, r) BY <3>2, <4>3 DEF Scanned
      <4>5. b \in Int /\ a <= b /\ r.pos \in p..(Len(u) + 1) BY <1>2, <4>4
      <4>6. Found(w, a, b, r)
        <5> HIDE DEF a, b, r
        <5> QED BY <3>1, <3>3, <3>4, <4>4, <4>5, SkipByte
      <4> QED BY <4>3, <4>5, <4>6 DEF Scanned
    <3>5. CASE u[p] = Preamble /\ ~FrameIn(u, p)
      <4>1. f[p] = stop BY <1>3, <3>2, <3>5 DEF ScanAt
      <4> QED BY <2>1, <3>5, <4>1
    <3>6. CASE u[p] = Preamble /\ FrameIn(u, p)
      <4>1. /\ FrameIn(w, a) /\ FrameLen(u, p) = FrameLen(w, a)
            /\ CrcOk(u, p) <=> CrcOk(w, a)
            /\ TypeAt(u, p) = TypeAt(w, a)
            /\ \A n \in 0..FrameLen(u, p) : SubSeq(u, p, p + n - 1) = SubSeq(w, a, a + n - 1)
        BY <2>3, <3>6, FrameIsLocal
      <4>2. Whole(w, a) BY <3>1, <3>6, <4>1 DEF Whole
      <4>3. CASE ~CrcOk(u, p)
        <5> DEFINE r == f[p + 1]
                   b == d + r.pos - 1
        <5>1. f[p] = [r EXCEPT !.fails = @ + 1] BY <1>3, <3>2, <3>6, <4>3 DEF ScanAt, Resync
        <5>2. Boundary(w, a)
          <6>1. a \notin Starts(w) BY <3>1, <3>3, <4>1, <4>3, AtBoundary DEF Good
          <6> QED BY <3>1, <3>3, <6>1, AtBoundary
        <5>3. Scanned(u, w, d, p + 1, r) BY <1>4, <3>2, <5>2
        <5> HIDE DEF r
        <5>4. r \in Records /\ r.pos \in (p + 1)..(Len(u) + 1) /\ Found(w, a + 1, b, r)
          BY <3>2, <5>3 DEF Scanned
        <5>5. b \in Int /\ a <= b /\ r.pos \in p..(Len(u) + 1) BY <1>2, <5>4
        <5>6. Found(w, a, b, f[p])
          <6> HIDE DEF a, b
          <6> QED BY <3>1, <3>3, <4>1, <4>2, <4>3, <5>1, <5>4, <5>5, SkipFailed
        <5>7. f[p] \in Records /\ f[p].pos = r.pos
          <6>1. r.fails + 1 \in Nat BY <5>4 DEF Records
          <6> QED BY <5>1, <5>4, <6>1 DEF Records
        <5> QED BY <5>3, <5>5, <5>6, <5>7 DEF Scanned
      <4>4. CASE CrcOk(u, p)
        <5> DEFINE l == FrameLen(w, a)
                   r == f[p + l]
                   b == d + r.pos - 1
                   t == TypeAt(u, p)
                   s == Snapshot(u, p, r.snap)
        <5>1. f[p] = [r EXCEPT !.frames = <<t>> \o @, !.snap = s]
          <6>1. f[p] = [f[p + FrameLen(u, p)] EXCEPT !.frames = <<TypeAt(u, p)>> \o @,
                                                      !.snap = Snapshot(u, p, @)]
            BY <1>3, <3>2, <3>6, <4>4 DEF ScanAt
          <6> QED BY <4>1, <6>1
        <5>2. Good(w, a) /\ a \in Starts(w)
          BY <3>1, <3>3, <4>1, <4>2, <4>4, AtBoundary DEF Good
        <5>3. l \in 3..MaxFrame /\ p + l - 1 <= Len(u)
          BY <2>3, <3>6, <4>1, FrameFacts
        <5>4. Boundary(w, a + l - 1) BY <3>1, <3>3, <5>2, AtBoundary
        <5> HIDE DEF l
        <5>5. p + l \in (p + 1)..(Len(u) + 1) /\ d + (p + l) - 1 = a + l - 1 /\ d + (p + l) = a + l
          BY <1>2, <5>3
        <5>6. Scanned(u, w, d, p + l, r) BY <1>4, <5>4, <5>5
        <5> HIDE DEF r
        <5>7. r \in Records /\ r.pos \in (p + l)..(Len(u) + 1) /\ Found(w, a + l, b, r)
          BY <5>5, <5>6 DEF Scanned
        <5>8. b \in Int /\ a + l - 1 <= b /\ r.pos \in p..(Len(u) + 1) BY <1>2, <5>3, <5>7
        <5>9. t \in Byte /\ t = TypeAt(w, a)
          <6>1. p + HDR_LEN \in 1..Len(u) BY <1>2, <5>3 DEF HDR_LEN
          <6> QED BY <4>1, <6>1, LenTypes DEF TypeAt
        <5>10. \A x \in Starts(w) : Shown(w, x) \in Seq(Byte) /\ Shown(w, x) # <<>>
          <6> TAKE x \in Starts(w)
          <6> DEFINE m == Least(FrameLen(w, x), RTCM_MON_SNAP_BYTES)
          <6>1. /\ x \in 1..Len(w) /\ FrameLen(w, x) \in 3..MaxFrame
                /\ x + FrameLen(w, x) - 1 <= Len(w)
            BY StartFacts
          <6>2. m \in Nat \ {0} /\ x + m - 1 <= Len(w) BY <1>2, <6>1, TapAssumption DEF Least
          <6> HIDE DEF m
          <6>3. \A i \in x..(x + m - 1) : w[i] \in Byte BY <1>2, <6>1, <6>2, LenTypes
          <6>4. x \in Int /\ x + m - 1 \in Int BY <6>1, <6>2
          <6>5. SubSeq(w, x, x + m - 1) \in Seq(Byte) /\ Len(SubSeq(w, x, x + m - 1)) = m
            <7> DEFINE y == x + m - 1
                       z == SubSeq(w, x, y)
            <7>1. y \in Int /\ \A i \in x..y : w[i] \in Byte BY <6>3, <6>4
            <7>2. x <= y /\ y - x + 1 = m BY <6>1, <6>2
            <7> HIDE DEF y
            <7>3. z \in Seq(Byte) /\ Len(z) = IF x <= y THEN y - x + 1 ELSE 0
              BY <6>4, <7>1, SubSeqProperties
            <7> QED BY <7>2, <7>3 DEF y
          <6>6. SubSeq(w, x, x + m - 1) # <<>> BY <6>2, <6>5, EmptySeq
          <6> QED BY <6>5, <6>6 DEF Shown, m
        <5>11. s = IF r.snap # <<>> THEN r.snap ELSE Shown(w, a)
          <6> DEFINE m == Least(l, RTCM_MON_SNAP_BYTES)
          <6>1. m \in 0..l BY <5>3, TapAssumption DEF Least
          <6>2. SubSeq(u, p, p + m - 1) = SubSeq(w, a, a + m - 1)
            <7> HIDE DEF m
            <7> QED BY <4>1, <6>1 DEF l
          <6>3. s = IF r.snap # <<>> THEN r.snap ELSE SubSeq(u, p, p + m - 1)
            BY <4>1 DEF Snapshot, l
          <6> QED BY <6>2, <6>3 DEF Shown, l
        <5>12. Found(w, a, b, f[p])
          <6> HIDE DEF a, b, s, t
          <6>1. Shown(w, a) # <<>> BY <5>2, <5>10
          <6>2. l = FrameLen(w, a) BY DEF l
          <6>3. \A x \in Starts(w) : Shown(w, x) # <<>> BY <5>10
          <6>4. Found(w, a, b, [r EXCEPT !.frames = <<t>> \o @, !.snap = s])
            BY <3>1, <3>3, <5>2, <5>7, <5>8, <5>9, <5>11, <6>1, <6>2, <6>3, TakeFrame
          <6> QED BY <5>1, <6>4
        <5>13. f[p] \in Records /\ f[p].pos = r.pos
          <6>1. s \in Seq(Byte) BY <5>2, <5>7, <5>10, <5>11 DEF Records
          <6>2. <<t>> \o r.frames \in Seq(Byte) BY <5>7, <5>9, CountPrepend DEF Records
          <6> HIDE DEF s, t
          <6> QED BY <5>1, <5>7, <6>1, <6>2 DEF Records
        <5> QED BY <5>6, <5>8, <5>12, <5>13 DEF Scanned
      <4> QED BY <4>3, <4>4
    <3> QED BY <3>4, <3>5, <3>6
  <2> QED BY <1>2, <2>2, <2>3
<1>5. Len(u) \in T
  <2>1. \A n \in 0..Len(u) : (\A m \in 0..Len(u) : m < n => m \in T) => n \in T
    <3> SUFFICES ASSUME NEW n \in 0..Len(u), \A m \in 0..Len(u) : m < n => m \in T
                 PROVE  P(Len(u) + 1 - n)
      OBVIOUS
    <3>1. \A q \in (Len(u) + 1 - n + 1)..(Len(u) + 1) : P(q)
      <4> TAKE q \in (Len(u) + 1 - n + 1)..(Len(u) + 1)
      <4>1. Len(u) + 1 - q \in 0..Len(u) /\ Len(u) + 1 - q < n /\ Len(u) + 1 - (Len(u) + 1 - q) = q
        BY <1>2
      <4>2. Len(u) + 1 - q \in T BY <4>1
      <4> HIDE DEF P
      <4> QED BY <4>1, <4>2
    <3>2. Len(u) + 1 - n \in 1..(Len(u) + 1) BY <1>2
    <3> QED BY <1>4, <3>1, <3>2
  <2> HIDE DEF T
  <2>2. 0..Len(u) \subseteq T BY <1>2, <2>1, Induction
  <2> QED BY <1>2, <2>2
<1>6. P(1)
  <2>1. Len(u) + 1 - Len(u) = 1 BY <1>2
  <2> HIDE DEF P
  <2> QED BY <1>5, <2>1
<1>7. d + 1 - 1 = d OBVIOUS
<1> QED BY <1>1, <1>6, <1>7

-----------------------------------------------------------------------------
(* What is consumed is settled *)

Judged(w, n) == \A x \in 1..n : w[x] = Preamble => Whole(w, x) \/ Inside(w, x)

\* What has been consumed is settled: bytes that come later neither add a frame
\* to it nor take one away.
LEMMA Settled ==
  ASSUME NEW a \in Seq(Byte), NEW w \in Seq(Byte), Part(a, w, 0), NEW n \in 0..Len(a),
         Boundary(a, n), Judged(a, n)
  PROVE  /\ Framed(w, 1, n) = Framed(a, 1, n) /\ Failed(w, 1, n) = Failed(a, 1, n)
         /\ Boundary(w, n) /\ Judged(w, n)
         /\ \A x \in Framed(a, 1, n) : /\ FrameLen(w, x) = FrameLen(a, x)
                                       /\ TypeAt(w, x) = TypeAt(a, x)
                                       /\ Shown(w, x) = Shown(a, x)
<1>1. Len(a) \in Nat /\ Len(w) \in Nat /\ n \in Nat BY LenTypes
<1>2. ASSUME NEW x \in 1..Len(a)
      PROVE  /\ 0 + x = x /\ x \in 1..Len(w) /\ a[x] = w[x]
             /\ FrameIn(a, x) =>
                  /\ FrameIn(w, x) /\ FrameLen(a, x) = FrameLen(w, x)
                  /\ CrcOk(a, x) <=> CrcOk(w, x)
                  /\ TypeAt(a, x) = TypeAt(w, x)
                  /\ \A k \in 0..FrameLen(a, x) : SubSeq(a, x, x + k - 1) = SubSeq(w, x, x + k - 1)
  <2>1. 0 \in Nat /\ 0 + x = x BY <1>1
  <2>2. /\ 0 + x \in 1..Len(w) /\ a[x] = w[0 + x]
        /\ FrameIn(a, x) =>
             /\ FrameIn(w, 0 + x) /\ FrameLen(a, x) = FrameLen(w, 0 + x)
             /\ CrcOk(a, x) <=> CrcOk(w, 0 + x)
             /\ TypeAt(a, x) = TypeAt(w, 0 + x)
             /\ \A k \in 0..FrameLen(a, x) : SubSeq(a, x, x + k - 1) = SubSeq(w, 0 + x, 0 + x + k - 1)
    BY <2>1, FrameIsLocal
  <2> QED BY <2>1, <2>2
<1>3. \A x \in 1..Len(a) : Whole(a, x) => Whole(w, x) /\ (Good(w, x) <=> Good(a, x))
                             /\ FrameLen(a, x) = FrameLen(w, x)
  BY <1>2 DEF Whole, Good
<1>4. \A x \in Starts(a) : /\ x \in 1..Len(a) /\ Whole(a, x) /\ FrameLen(a, x) = FrameLen(w, x)
                           /\ FrameLen(a, x) \in 3..MaxFrame
  BY <1>3, StartFacts DEF Good
<1> DEFINE Same(k) == \A x \in 1..k : x \in Starts(w) <=> x \in Starts(a)
           T == {k \in 0..n : Same(k)}
<1>5. ASSUME NEW k \in 1..n, Same(k - 1) PROVE Same(k)
  <2>1. k \in 1..Len(a) /\ k \in 1..Len(w) BY <1>1, <1>2
  <2>2. \A q : q \in Starts(w) /\ q < k <=> q \in Starts(a) /\ q < k
    <3>1. \A q \in Starts(w) : q < k => q \in 1..(k - 1) BY <1>1, StartFacts
    <3>2. \A q \in Starts(a) : q < k => q \in 1..(k - 1) BY <1>1, <1>4
    <3> QED BY <1>5, <3>1, <3>2
  <2>3. (\A q \in Starts(w) : q < k => q + FrameLen(w, q) <= k)
        <=> \A q \in Starts(a) : q < k => q + FrameLen(a, q) <= k
    BY <1>4, <2>2
  <2>4. Good(a, k) => Good(w, k) BY <1>3, <2>1 DEF Good
  <2>5. ASSUME Good(w, k), \A q \in Starts(a) : q < k => q + FrameLen(a, q) <= k
        PROVE  Good(a, k)
    <3>1. a[k] = Preamble BY <1>2, <2>1, <2>5 DEF Good, Whole
    <3>2. Whole(a, k) \/ Inside(a, k) BY <3>1 DEF Judged
    <3>3. ASSUME ~Whole(a, k) PROVE FALSE
      <4>1. PICK q \in Starts(a) : q <= k /\ k < q + FrameLen(a, q) BY <3>2, <3>3 DEF Inside
      <4>2. q # k BY <1>4, <3>3
      <4>3. q < k BY <1>1, <1>4, <4>1, <4>2
      <4> QED BY <1>1, <1>4, <2>5, <4>1, <4>3
    <3> QED BY <1>3, <2>1, <2>5, <3>3
  <2>6. k \in Starts(w) <=> k \in Starts(a)
    BY <2>1, <2>3, <2>4, <2>5, StartsAre
  <2>7. \A x \in 1..k : x \in 1..(k - 1) \/ x = k BY <1>1
  <2> QED BY <1>5, <2>6, <2>7
<1>6. Same(n)
  <2>1. 0 \in T /\ \A k \in 1..n : k - 1 \in T => k \in T BY <1>1, <1>5
  <2> HIDE DEF Same
  <2>2. 0..n \subseteq T
    <3> HIDE DEF T
    <3> QED BY <1>1, <2>1, StepByStep
  <2> QED BY <1>1, <2>2
<1>7. Framed(w, 1, n) = Framed(a, 1, n) BY <1>6 DEF Framed
<1>8. \A q \in Starts(w) : q <= n => q \in Starts(a) /\ FrameLen(w, q) = FrameLen(a, q)
  <2>1. \A q \in Starts(w) : q <= n => q \in 1..n BY <1>1, StartFacts
  <2> QED BY <1>4, <1>6, <2>1
<1>9. Boundary(w, n) BY <1>8 DEF Boundary
<1>10. \A x \in 1..n : Inside(w, x) <=> Inside(a, x)
  <2> TAKE x \in 1..n
  <2>1. ASSUME NEW q, q <= x, q \in Starts(w) \/ q \in Starts(a)
        PROVE  q \in Starts(w) /\ q \in Starts(a) /\ FrameLen(w, q) = FrameLen(a, q)
    <3>1. q \in 1..n BY <1>1, <1>4, <2>1, StartFacts
    <3> QED BY <1>4, <1>6, <2>1, <3>1
  <2> QED BY <2>1 DEF Inside
<1>11. \A x \in 1..n : Whole(a, x) => Whole(w, x) BY <1>1, <1>3
<1>12. \A x \in 1..n : Whole(w, x) /\ ~Inside(w, x) <=> Whole(a, x) /\ ~Inside(a, x)
  <2> TAKE x \in 1..n
  <2>1. x \in 1..Len(a) BY <1>1
  <2>2. Whole(w, x) => a[x] = Preamble BY <1>2, <2>1 DEF Whole
  <2> QED BY <1>10, <1>11, <2>2 DEF Judged
<1>13. Failed(w, 1, n) = Failed(a, 1, n) BY <1>12 DEF Failed
<1>14. Judged(w, n)
  <2>1. \A x \in 1..n : w[x] = a[x] BY <1>1, <1>2
  <2> QED BY <1>10, <1>11, <2>1 DEF Judged
<1>15. ASSUME NEW x \in Framed(a, 1, n)
       PROVE  /\ FrameLen(w, x) = FrameLen(a, x) /\ TypeAt(w, x) = TypeAt(a, x)
              /\ Shown(w, x) = Shown(a, x)
  <2>1. x \in Starts(a) /\ x \in 1..Len(a) /\ FrameIn(a, x) BY <1>4 DEF Framed, Whole
  <2>2. Least(FrameLen(a, x), RTCM_MON_SNAP_BYTES) \in 0..FrameLen(a, x)
    BY <1>4, <2>1, TapAssumption DEF Least
  <2> QED BY <1>2, <2>1, <2>2 DEF Shown
<1> QED BY <1>7, <1>9, <1>13, <1>14, <1>15

-----------------------------------------------------------------------------
(* The table of types *)

\* The table agrees with the counts c.
TableOk(tally, c) ==
  /\ tally \in [DOMAIN tally -> Nat] /\ DOMAIN tally \subseteq Byte /\ IsFiniteSet(DOMAIN tally)
  /\ Cardinality(DOMAIN tally) <= RTCM_MON_MAX_TYPES
  /\ \A t \in DOMAIN tally : tally[t] = c[t]
  /\ Cardinality(DOMAIN tally) < RTCM_MON_MAX_TYPES => \A t \in Byte \ DOMAIN tally : c[t] = 0

LEMMA TallyStep ==
  ASSUME NEW tally, NEW c \in [Byte -> Nat], TableOk(tally, c), NEW t \in Byte
  PROVE  TableOk(Tally(tally, t), [c EXCEPT ![t] = @ + 1])
<1> DEFINE D == DOMAIN tally
           new == Tally(tally, t)
           cc == [c EXCEPT ![t] = @ + 1]
<1>1. /\ tally \in [D -> Nat] /\ D \subseteq Byte /\ IsFiniteSet(D)
      /\ Cardinality(D) \in Nat /\ Cardinality(D) <= RTCM_MON_MAX_TYPES
      /\ \A x \in D : tally[x] = c[x]
      /\ Cardinality(D) < RTCM_MON_MAX_TYPES => \A x \in Byte \ D : c[x] = 0
  BY FS_CardinalityType DEF TableOk
<1>2. cc \in [Byte -> Nat] /\ cc[t] = c[t] + 1 /\ \A x \in Byte : x # t => cc[x] = c[x] OBVIOUS
<1> HIDE DEF cc
<1>3. CASE t \in D
  <2>1. new = [tally EXCEPT ![t] = @ + 1] BY <1>3 DEF Tally
  <2>2. new \in [D -> Nat] /\ DOMAIN new = D /\ new[t] = tally[t] + 1
        /\ \A x \in D : x # t => new[x] = tally[x]
    BY <1>1, <1>3, <2>1
  <2>3. \A x \in D : new[x] = cc[x] BY <1>1, <1>2, <1>3, <2>2
  <2>4. Cardinality(D) < RTCM_MON_MAX_TYPES => \A x \in Byte \ D : cc[x] = 0
    BY <1>1, <1>2, <1>3
  <2> HIDE DEF new
  <2> QED BY <1>1, <2>2, <2>3, <2>4 DEF TableOk, new, cc
<1>4. CASE t \notin D /\ Cardinality(D) < RTCM_MON_MAX_TYPES
  <2>1. new = [u \in D \cup {t} |-> IF u = t THEN 1 ELSE tally[u]] BY <1>4 DEF Tally
  <2>2. new \in [D \cup {t} -> Nat] /\ DOMAIN new = D \cup {t} /\ new[t] = 1
        /\ \A x \in D : x # t => new[x] = tally[x]
    BY <1>1, <2>1
  <2>3. IsFiniteSet(D \cup {t}) /\ Cardinality(D \cup {t}) = Cardinality(D) + 1
    BY <1>1, <1>4, FS_AddElement
  <2>4. Cardinality(D \cup {t}) <= RTCM_MON_MAX_TYPES BY <1>1, <1>4, <2>3, SizeAssumption
  <2>5. c[t] = 0 BY <1>1, <1>4
  <2>6. \A x \in D \cup {t} : new[x] = cc[x] BY <1>1, <1>2, <1>4, <2>2, <2>5
  <2>7. \A x \in Byte \ (D \cup {t}) : cc[x] = 0 BY <1>1, <1>2, <1>4
  <2> HIDE DEF new
  <2> QED BY <1>1, <2>2, <2>3, <2>4, <2>6, <2>7 DEF TableOk, new, cc
<1>5. CASE t \notin D /\ ~(Cardinality(D) < RTCM_MON_MAX_TYPES)
  <2>1. new = tally BY <1>5 DEF Tally
  <2>2. \A x \in D : tally[x] = cc[x] BY <1>1, <1>2, <1>5
  <2> HIDE DEF new
  <2> QED BY <1>1, <1>5, <2>1, <2>2 DEF TableOk, new, cc
<1> QED BY <1>3, <1>4, <1>5

\* The table after a sequence of frames
LEMMA TableFollows ==
  ASSUME NEW s \in Seq(Byte), NEW c \in [Byte -> Nat], TableOk(types, c)
  PROVE  TableOk(Tallied(s), [t \in Byte |-> c[t] + Count(s, t)])
<1> DEFINE N == Len(s)
           V == UNION {[D -> Nat] : D \in SUBSET Byte}
           Def(f, n) == IF n = 0 THEN types ELSE Tally(f[n - 1], s[n])
           R == {x \in (1..N) \X V \X V : x[3] = Tally(x[2], s[x[1]])}
           C(n) == [t \in Byte |-> c[t] + Cardinality({i \in 1..n : s[i] = t})]
<1>1. N \in Nat /\ \A i \in 1..N : s[i] \in Byte BY LenTypes
<1>2. \A v \in V, t \in Byte : Tally(v, t) \in V
  <2> SUFFICES ASSUME NEW D \in SUBSET Byte, NEW v \in [D -> Nat], NEW t \in Byte
               PROVE  Tally(v, t) \in V
    OBVIOUS
  <2>1. DOMAIN v = D OBVIOUS
  <2>2. CASE t \in D
    <3>1. Tally(v, t) = [v EXCEPT ![t] = @ + 1] BY <2>1, <2>2 DEF Tally
    <3>2. Tally(v, t) \in [D -> Nat] BY <2>2, <3>1
    <3> QED BY <3>2
  <2>3. CASE t \notin D /\ Cardinality(D) < RTCM_MON_MAX_TYPES
    <3>1. Tally(v, t) = [u \in D \cup {t} |-> IF u = t THEN 1 ELSE v[u]] BY <2>1, <2>3 DEF Tally
    <3>2. Tally(v, t) \in [D \cup {t} -> Nat] BY <3>1
    <3>3. D \cup {t} \in SUBSET Byte OBVIOUS
    <3> QED BY <3>2, <3>3
  <2>4. CASE t \notin D /\ ~(Cardinality(D) < RTCM_MON_MAX_TYPES) BY <2>1, <2>4 DEF Tally
  <2> QED BY <2>2, <2>3, <2>4
<1>3. types \in V BY DEF TableOk
<1>4. \E f : f = [n \in 0..N |-> Def(f, n)]
  <2>1. Possible(N, V, R)
    <3> SUFFICES ASSUME NEW n \in 1..N, NEW v \in V PROVE \E x \in V : <<n, v, x>> \in R
      BY DEF Possible
    <3>1. Tally(v, s[n]) \in V BY <1>1, <1>2
    <3> HIDE DEF V
    <3>2. <<n, v, Tally(v, s[n])>> \in R BY <3>1
    <3> QED BY <3>1, <3>2
  <2>2. PICK f \in [0..N -> V] : f[0] = types /\ \A n \in 1..N : <<n, f[n - 1], f[n]>> \in R
    <3> HIDE DEF N, V, R
    <3>1. Repeats(N, V, types, R) BY <1>1, <1>3, <2>1, Repetition
    <3> QED BY <3>1 DEF Repeats
  <2>3. \A n \in 0..N : f[n] = Def(f, n)
    <3> TAKE n \in 0..N
    <3>1. CASE n = 0 BY <2>2, <3>1
    <3>2. CASE n # 0
      <4>1. n \in 1..N BY <1>1, <3>2
      <4> HIDE DEF N, V
      <4> QED BY <2>2, <3>2, <4>1
    <3> QED BY <3>1, <3>2
  <2> HIDE DEF Def, V, N
  <2>4. f = [n \in 0..N |-> Def(f, n)] BY <2>2, <2>3
  <2> QED BY <2>4
<1>5. PICK f : f = [n \in 0..N |-> Def(f, n)] /\ Tallied(s) = f[N]
  <2> DEFINE g == CHOOSE f : f = [n \in 0..N |-> Def(f, n)]
  <2>1. g = [n \in 0..N |-> Def(g, n)]
    <3> HIDE DEF Def, N
    <3> QED BY <1>4
  <2>2. Tallied(s) = g[N] BY DEF Tallied
  <2> HIDE DEF g
  <2> QED BY <2>1, <2>2
<1>6. f[0] = types /\ \A n \in 1..N : f[n] = Tally(f[n - 1], s[n])
  <2>1. f[0] = types BY <1>1, <1>5
  <2>2. \A n \in 1..N : n \in 0..N /\ n # 0 BY <1>1
  <2> HIDE DEF N
  <2> QED BY <1>5, <2>1, <2>2
<1> HIDE DEF N, V, Def
<1>7. TableOk(f[0], C(0))
  <2>1. \A t : {i \in 1..0 : s[i] = t} = {} OBVIOUS
  <2>2. C(0) = c BY <2>1, FS_EmptySet
  <2> HIDE DEF C
  <2> QED BY <1>6, <2>2
<1>8. ASSUME NEW n \in 1..N, TableOk(f[n - 1], C(n - 1)) PROVE TableOk(f[n], C(n))
  <2> DEFINE Before(t) == {i \in 1..(n - 1) : s[i] = t}
  <2>1. \A t : IsFiniteSet(Before(t)) /\ Cardinality(Before(t)) \in Nat /\ n \notin Before(t)
    <3> TAKE t
    <3>1. IsFiniteSet(1..(n - 1)) /\ Before(t) \subseteq 1..(n - 1) BY <1>1, FS_Interval
    <3>2. n \notin Before(t) BY <1>1
    <3> HIDE DEF Before
    <3> QED BY <3>1, <3>2, FS_Subset, FS_CardinalityType
  <2>2. \A t : {i \in 1..n : s[i] = t} = IF s[n] = t THEN Before(t) \cup {n} ELSE Before(t)
    <3>1. \A i : i \in 1..n <=> i \in 1..(n - 1) \/ i = n BY <1>1
    <3> QED BY <3>1
  <2>3. \A t : Cardinality({i \in 1..n : s[i] = t}) =
                 IF s[n] = t THEN Cardinality(Before(t)) + 1 ELSE Cardinality(Before(t))
    <3> TAKE t
    <3>1. Cardinality(Before(t) \cup {n}) = Cardinality(Before(t)) + 1
      <4> HIDE DEF Before
      <4> QED BY <2>1, FS_AddElement
    <3> HIDE DEF Before
    <3> QED BY <2>2, <3>1
  <2> DEFINE c0 == C(n - 1)
             c1 == C(n)
  <2>4. c0 \in [Byte -> Nat] /\ \A t \in Byte : c0[t] = c[t] + Cardinality(Before(t))
    <3>1. c0 = [t \in Byte |-> c[t] + Cardinality(Before(t))] OBVIOUS
    <3>2. \A t \in Byte : c[t] + Cardinality(Before(t)) \in Nat
      <4> HIDE DEF Before
      <4> QED BY <2>1
    <3> HIDE DEF Before, c0
    <3> QED BY <3>1, <3>2
  <2>5. s[n] \in Byte BY <1>1
  <2>6. c1 = [c0 EXCEPT ![s[n]] = @ + 1]
    <3>1. ASSUME NEW t \in Byte
          PROVE  c[t] + Cardinality({i \in 1..n : s[i] = t}) =
                   IF t = s[n] THEN c0[t] + 1 ELSE c0[t]
      <4> DEFINE b == Cardinality(Before(t))
      <4>1. b \in Nat /\ c[t] \in Nat /\ c0[t] = c[t] + b BY <2>1, <2>4
      <4>2. Cardinality({i \in 1..n : s[i] = t}) = IF s[n] = t THEN b + 1 ELSE b BY <2>3
      <4> HIDE DEF b, c0
      <4> QED BY <4>1, <4>2
    <3>2. [c0 EXCEPT ![s[n]] = @ + 1] = [t \in Byte |-> IF t = s[n] THEN c0[t] + 1 ELSE c0[t]]
      <4> HIDE DEF c0
      <4> QED BY <2>4, <2>5
    <3>3. c1 = [t \in Byte |-> c[t] + Cardinality({i \in 1..n : s[i] = t})] OBVIOUS
    <3> HIDE DEF c0, c1
    <3> QED BY <3>1, <3>2, <3>3
  <2> DEFINE tally == f[n - 1]
  <2>7. TableOk(tally, c0) /\ f[n] = Tally(tally, s[n]) BY <1>6, <1>8
  <2> HIDE DEF C, c0, c1, tally
  <2>8. TableOk(Tally(tally, s[n]), [c0 EXCEPT ![s[n]] = @ + 1])
    BY <2>4, <2>5, <2>7, TallyStep
  <2> QED BY <2>6, <2>7, <2>8 DEF c1
<1>9. TableOk(f[N], C(N))
  <2> DEFINE T == {n \in 0..N : TableOk(f[n], C(n))}
  <2>1. 0 \in T /\ \A n \in 1..N : n - 1 \in T => n \in T
    <3> HIDE DEF C
    <3> QED BY <1>1, <1>7, <1>8
  <2> HIDE DEF T
  <2>2. 0..N \subseteq T BY <1>1, <2>1, StepByStep
  <2> HIDE DEF C
  <2> QED BY <1>1, <2>2 DEF T
<1>10. C(N) = [t \in Byte |-> c[t] + Count(s, t)] BY DEF Count, N
<1> HIDE DEF C
<1> QED BY <1>5, <1>9, <1>10

-----------------------------------------------------------------------------
(* The ends of sequences *)

\* The last n elements of a sequence, one by one.
LEMMA LastFacts ==
  ASSUME NEW S, NEW s \in Seq(S), NEW n \in Nat
  PROVE  /\ Last(s, n) \in Seq(S) /\ Len(Last(s, n)) = Least(n, Len(s))
         /\ \A i \in 1..Least(n, Len(s)) :
              /\ Len(s) - Least(n, Len(s)) + i \in 1..Len(s)
              /\ Last(s, n)[i] = s[Len(s) - Least(n, Len(s)) + i]
<1> DEFINE k == Least(n, Len(s))
           m == Len(s) - k + 1
<1>1. k \in 0..Len(s) BY DEF Least
<1>2. m \in 1..(Len(s) + 1) /\ Len(s) - m + 1 = k BY <1>1
<1>3. \A i \in m..Len(s) : s[i] \in S
  <2> TAKE i \in m..Len(s)
  <2>1. i \in 1..Len(s) BY <1>2
  <2> QED BY <2>1, ElementOfSeq
<1>4. /\ SubSeq(s, m, Len(s)) \in Seq(S)
      /\ Len(SubSeq(s, m, Len(s))) = IF m <= Len(s) THEN Len(s) - m + 1 ELSE 0
      /\ \A i \in 1..(Len(s) - m + 1) : SubSeq(s, m, Len(s))[i] = s[m + i - 1]
  <2>1. m \in Int /\ Len(s) \in Int BY <1>2
  <2> HIDE DEF m
  <2> QED BY <1>3, <2>1, SubSeqProperties
<1>5. Last(s, n) = SubSeq(s, m, Len(s)) BY DEF Last
<1>6. Len(Last(s, n)) = k BY <1>1, <1>2, <1>4, <1>5
<1>7. \A i \in 1..k : Len(s) - k + i \in 1..Len(s) /\ Last(s, n)[i] = s[Len(s) - k + i]
  <2> TAKE i \in 1..k
  <2>1. Len(s) - k + i \in 1..Len(s) /\ m + i - 1 = Len(s) - k + i BY <1>1
  <2>2. i \in 1..(Len(s) - m + 1) BY <1>2
  <2> QED BY <1>4, <1>5, <2>1, <2>2
<1> QED BY <1>4, <1>5, <1>6, <1>7

\* The end of a sequence that grew: of the new part only, when that is long
\* enough, and otherwise the end of the old end, then the new part.
LEMMA LastOfConcat ==
  ASSUME NEW S, NEW s \in Seq(S), NEW t \in Seq(S), NEW n \in Nat
  PROVE  Last(s \o t, n) =
           IF Len(t) >= n THEN Last(t, n) ELSE Last(Last(s, n), n - Len(t)) \o t
<1> DEFINE u == s \o t
<1>1. /\ u \in Seq(S) /\ Len(u) = Len(s) + Len(t)
      /\ \A i \in 1..Len(u) : u[i] = IF i <= Len(s) THEN s[i] ELSE t[i - Len(s)]
  BY ConcatProperties
<1> HIDE DEF u
<1>a. \A j \in 1..Len(u) : j > Len(s) => u[j] = t[j - Len(s)] BY <1>1
<1>2. /\ Last(u, n) \in Seq(S) /\ Len(Last(u, n)) = Least(n, Len(u))
      /\ \A i \in 1..Least(n, Len(u)) :
           /\ Len(u) - Least(n, Len(u)) + i \in 1..Len(u)
           /\ Last(u, n)[i] = u[Len(u) - Least(n, Len(u)) + i]
  BY <1>1, LastFacts
<1>3. CASE Len(t) >= n
  <2>1. /\ Last(t, n) \in Seq(S) /\ Len(Last(t, n)) = n
        /\ \A i \in 1..n : Last(t, n)[i] = t[Len(t) - n + i]
    <3>1. Least(n, Len(t)) = n BY <1>3 DEF Least
    <3>2. /\ Last(t, n) \in Seq(S) /\ Len(Last(t, n)) = Least(n, Len(t))
          /\ \A i \in 1..Least(n, Len(t)) : Last(t, n)[i] = t[Len(t) - Least(n, Len(t)) + i]
      BY LastFacts
    <3> QED BY <3>1, <3>2
  <2>2. Least(n, Len(u)) = n BY <1>1, <1>3 DEF Least
  <2>3. \A i \in 1..n : Last(u, n)[i] = Last(t, n)[i]
    <3> TAKE i \in 1..n
    <3>1. Len(u) - n + i \in 1..Len(u) /\ Last(u, n)[i] = u[Len(u) - n + i] BY <1>2, <2>2
    <3>2. Len(u) - n + i > Len(s) /\ Len(u) - n + i - Len(s) = Len(t) - n + i BY <1>1, <1>3
    <3>3. u[Len(u) - n + i] = t[Len(t) - n + i] BY <1>a, <3>1, <3>2
    <3> QED BY <2>1, <3>1, <3>3
  <2> QED BY <1>2, <1>3, <2>1, <2>2, <2>3, SeqEqual DEF u
<1>4. CASE Len(t) < n
  <2> DEFINE a == Last(s, n)
             b == Last(a, n - Len(t))
             k == Least(n - Len(t), Len(s))
  <2>0. Len(s) \in Nat /\ Len(t) \in Nat /\ n - Len(t) \in Nat BY <1>4
  <2>1. /\ a \in Seq(S) /\ Len(a) = Least(n, Len(s))
        /\ \A i \in 1..Len(a) : a[i] = s[Len(s) - Len(a) + i]
    <3>1. /\ a \in Seq(S) /\ Len(a) = Least(n, Len(s))
          /\ \A i \in 1..Least(n, Len(s)) : a[i] = s[Len(s) - Least(n, Len(s)) + i]
      BY LastFacts
    <3> QED BY <3>1
  <2> HIDE DEF a
  <2>2. k \in 0..Len(a) /\ Least(n - Len(t), Len(a)) = k BY <2>0, <2>1 DEF Least
  <2>3. /\ b \in Seq(S) /\ Len(b) = k /\ \A i \in 1..k : b[i] = a[Len(a) - k + i]
    <3>1. /\ b \in Seq(S) /\ Len(b) = Least(n - Len(t), Len(a))
          /\ \A i \in 1..Least(n - Len(t), Len(a)) :
               b[i] = a[Len(a) - Least(n - Len(t), Len(a)) + i]
      BY <2>0, <2>1, LastFacts
    <3> HIDE DEF b, k
    <3> QED BY <2>2, <3>1
  <2> HIDE DEF b
  <2>4. \A i \in 1..k : b[i] = s[Len(s) - k + i]
    <3> TAKE i \in 1..k
    <3>1. Len(a) - k + i \in 1..Len(a) /\ Len(s) - Len(a) + (Len(a) - k + i) = Len(s) - k + i
      BY <2>0, <2>1, <2>2
    <3> QED BY <2>1, <2>3, <3>1
  <2>5. /\ b \o t \in Seq(S) /\ Len(b \o t) = k + Len(t)
        /\ \A i \in 1..(k + Len(t)) : (b \o t)[i] = IF i <= k THEN b[i] ELSE t[i - k]
    BY <2>3, ConcatProperties
  <2>6. Least(n, Len(u)) = k + Len(t) /\ Len(u) - (k + Len(t)) = Len(s) - k
    BY <1>1, <2>0 DEF Least
  <2>7. k \in Nat /\ k <= Len(s) BY <2>0 DEF Least
  <2> HIDE DEF k
  <2>8. \A i \in 1..(k + Len(t)) : Last(u, n)[i] = (b \o t)[i]
    <3> TAKE i \in 1..(k + Len(t))
    <3>1. Len(s) - k + i \in 1..Len(u) /\ Last(u, n)[i] = u[Len(s) - k + i] BY <1>2, <2>6
    <3>2. CASE i <= k
      <4>1. Len(s) - k + i <= Len(s) /\ i \in 1..k BY <2>0, <2>7, <3>2
      <4> QED BY <1>1, <2>4, <2>5, <3>1, <3>2, <4>1
    <3>3. CASE i > k
      <4>1. Len(s) - k + i > Len(s) /\ Len(s) - k + i - Len(s) = i - k BY <2>0, <2>7, <3>3
      <4>2. u[Len(s) - k + i] = t[i - k]
        <5>1. PICK j \in 1..Len(u) : j = Len(s) - k + i BY <3>1
        <5>2. j > Len(s) /\ j - Len(s) = i - k BY <2>0, <2>7, <3>3, <4>1, <5>1
        <5>3. u[j] = t[j - Len(s)] BY <1>a, <5>2
        <5> QED BY <5>1, <5>2, <5>3
      <4>3. (b \o t)[i] = t[i - k] BY <2>5, <2>7, <3>3
      <4> QED BY <3>1, <4>2, <4>3
    <3>4. i <= k \/ i > k BY <2>0, <2>7
    <3> QED BY <3>2, <3>3, <3>4
  <2>9. Last(u, n) = b \o t BY <1>2, <2>5, <2>6, <2>8, SeqEqual
  <2> QED BY <1>4, <2>0, <2>9 DEF u, b, a
<1> QED BY <1>3, <1>4

-----------------------------------------------------------------------------
(* The inductive invariant *)

Consumed == Len(all) - Len(s_parse)
TypeCounts(w, n) == [t \in Byte |-> Cardinality(OfType(w, Framed(w, 1, n), t))]
ShowsLast(w, n, snap, us) ==
  IF Framed(w, 1, n) = {} THEN snap = <<>> /\ us = 0
  ELSE \E m \in Framed(w, 1, n) :
         LET end == m + FrameLen(w, m) - 1
         IN  /\ \A x \in Framed(w, 1, n) : x <= m
             /\ snap = Shown(w, m)
             /\ us \in end..(end + MaxPayload + ChunkMax - 1)

IInv ==
  /\ all \in Seq(Byte) /\ s_parse \in Seq(Byte) /\ Len(s_parse) <= Len(all)
  /\ total_bytes = Len(all)
  /\ HoldsOnlyUnfinished
  /\ Boundary(all, Consumed) /\ Judged(all, Consumed)
  /\ valid_frames = Cardinality(Framed(all, 1, Consumed))
  /\ crc_fails = Cardinality(Failed(all, 1, Consumed))
  /\ ShowsLast(all, Consumed, s_last_frame, last_frame_us)
  /\ TableOk(types, TypeCounts(all, Consumed))

\* A cut splits the frames and the failures of a stream.
LEMMA Split ==
  ASSUME NEW w \in Seq(Byte), NEW d \in Nat, NEW e \in Nat, d <= e
  PROVE  /\ \A x : x \in 1..e <=> x \in 1..d \/ x \in (d + 1)..e
         /\ Framed(w, 1, e) = Framed(w, 1, d) \cup Framed(w, d + 1, e)
         /\ Cardinality(Framed(w, 1, e)) =
              Cardinality(Framed(w, 1, d)) + Cardinality(Framed(w, d + 1, e))
         /\ Cardinality(Failed(w, 1, e)) =
              Cardinality(Failed(w, 1, d)) + Cardinality(Failed(w, d + 1, e))
         /\ \A t : Cardinality(OfType(w, Framed(w, 1, e), t)) =
              Cardinality(OfType(w, Framed(w, 1, d), t))
              + Cardinality(OfType(w, Framed(w, d + 1, e), t))
<1>1. \A x : x \in 1..e <=> x \in 1..d \/ x \in (d + 1)..e OBVIOUS
<1>2. \A x : ~(x \in 1..d /\ x \in (d + 1)..e) OBVIOUS
<1>3. \A A, B : IsFiniteSet(A) /\ IsFiniteSet(B) /\ A \cap B = {} =>
                  Cardinality(A \cup B) = Cardinality(A) + Cardinality(B)
  <2> SUFFICES ASSUME NEW A, NEW B, IsFiniteSet(A), IsFiniteSet(B), A \cap B = {}
               PROVE  Cardinality(A \cup B) = Cardinality(A) + Cardinality(B)
    OBVIOUS
  <2>1. Cardinality(A) \in Nat /\ Cardinality(B) \in Nat BY FS_CardinalityType
  <2>2. Cardinality(A \cup B) = Cardinality(A) + Cardinality(B) - Cardinality(A \cap B) BY FS_Union
  <2>3. Cardinality(A \cap B) = 0 BY FS_EmptySet
  <2> QED BY <2>1, <2>2, <2>3
<1>4. Framed(w, 1, e) = Framed(w, 1, d) \cup Framed(w, d + 1, e) BY <1>1 DEF Framed
<1>5. Failed(w, 1, e) = Failed(w, 1, d) \cup Failed(w, d + 1, e) BY <1>1 DEF Failed
<1>6. Framed(w, 1, d) \cap Framed(w, d + 1, e) = {} /\ Failed(w, 1, d) \cap Failed(w, d + 1, e) = {}
  BY <1>2 DEF Framed, Failed
<1>7. \A a, b \in Int : /\ IsFiniteSet(Framed(w, a, b)) /\ IsFiniteSet(Failed(w, a, b))
                        /\ \A t : IsFiniteSet(OfType(w, Framed(w, a, b), t))
  BY Counts DEF OfType
<1>8. 1 \in Int /\ d \in Int /\ d + 1 \in Int /\ e \in Int OBVIOUS
<1>9. ASSUME NEW t
      PROVE  Cardinality(OfType(w, Framed(w, 1, e), t)) =
               Cardinality(OfType(w, Framed(w, 1, d), t))
               + Cardinality(OfType(w, Framed(w, d + 1, e), t))
  <2>1. OfType(w, Framed(w, 1, e), t) =
          OfType(w, Framed(w, 1, d), t) \cup OfType(w, Framed(w, d + 1, e), t)
    BY <1>4 DEF OfType
  <2>2. OfType(w, Framed(w, 1, d), t) \cap OfType(w, Framed(w, d + 1, e), t) = {}
    BY <1>6 DEF OfType
  <2> QED BY <1>3, <1>7, <1>8, <2>1, <2>2
<1> QED BY <1>1, <1>3, <1>4, <1>5, <1>6, <1>7, <1>8, <1>9

\* What the buffer holds back is less than a frame, so a chunk always fits.
LEMMA ChunkFits ==
  ASSUME NEW data \in Seq(Byte), Len(data) <= ChunkMax, s_parse \in Seq(Byte), HoldsOnlyUnfinished
  PROVE  Len(s_parse) <= MaxFrame - 1 /\ Appended(data) = s_parse \o data
<1>1. /\ Len(s_parse) \in Nat /\ Len(data) \in Nat /\ MaxFrame \in Nat /\ MaxFrame >= 3
      /\ ChunkMax \in Nat /\ PARSE_BUF_LEN \in Nat
  BY LenTypes, ByteAssumption, SizeAssumption DEF MaxFrame, HDR_LEN, CRC_LEN
<1>2. Len(s_parse) <= MaxFrame - 1
  <2> SUFFICES ASSUME ~(Len(s_parse) <= MaxFrame - 1) PROVE FALSE OBVIOUS
  <2>1. 1 < Len(s_parse) /\ 1 \in 1..Len(s_parse) /\ 1 \in 1..(Len(s_parse) - 1) BY <1>1
  <2>2. s_parse # <<>> BY <2>1, EmptySeq
  <2>3. ~FrameIn(s_parse, 1) BY <2>2 DEF HoldsOnlyUnfinished
  <2>4. FrameLen(s_parse, 1) \in 3..MaxFrame BY <2>1, LenTypes
  <2>5. 1 + FrameLen(s_parse, 1) - 1 <= Len(s_parse) BY <1>1, <2>4
  <2> QED BY <2>1, <2>3, <2>5, FrameFacts
<1>3. Len(s_parse) + Len(data) <= PARSE_BUF_LEN BY <1>1, <1>2, RoomAssumption
<1> QED BY <1>2, <1>3 DEF Appended

\* Where the parts of the stream lie.
LEMMA Parts ==
  ASSUME NEW a \in Seq(Byte), NEW h \in Seq(Byte), NEW x \in Seq(Byte),
         Len(h) <= Len(a), h = Last(a, Len(h))
  PROVE  /\ a \o x \in Seq(Byte) /\ Len(a \o x) = Len(a) + Len(x)
         /\ h \o x \in Seq(Byte) /\ Len(h \o x) = Len(h) + Len(x)
         /\ Part(a, a \o x, 0) /\ Part(h, a, Len(a) - Len(h))
         /\ Part(h \o x, a \o x, Len(a) - Len(h))
<1>1. Len(a) \in Nat /\ Len(h) \in Nat /\ Len(x) \in Nat BY LenTypes
<1>2. /\ a \o x \in Seq(Byte) /\ Len(a \o x) = Len(a) + Len(x)
      /\ \A i \in 1..(Len(a) + Len(x)) : (a \o x)[i] = IF i <= Len(a) THEN a[i] ELSE x[i - Len(a)]
  BY ConcatProperties
<1>3. /\ h \o x \in Seq(Byte) /\ Len(h \o x) = Len(h) + Len(x)
      /\ \A i \in 1..(Len(h) + Len(x)) : (h \o x)[i] = IF i <= Len(h) THEN h[i] ELSE x[i - Len(h)]
  BY ConcatProperties
<1>4. Part(a, a \o x, 0)
  <2>1. \A i \in 1..Len(a) : 0 + i = i /\ (a \o x)[i] = a[i] BY <1>1, <1>2
  <2> QED BY <1>1, <1>2, <2>1 DEF Part
<1>5. \A i \in 1..Len(h) : h[i] = a[(Len(a) - Len(h)) + i]
  <2>1. Least(Len(h), Len(a)) = Len(h) BY <1>1 DEF Least
  <2>2. \A i \in 1..Least(Len(h), Len(a)) :
          Last(a, Len(h))[i] = a[Len(a) - Least(Len(h), Len(a)) + i]
    BY <1>1, LastFacts
  <2> QED BY <2>1, <2>2
<1>6. Part(h, a, Len(a) - Len(h)) BY <1>1, <1>5 DEF Part
<1>7. Part(h \o x, a \o x, Len(a) - Len(h))
  <2> DEFINE d == Len(a) - Len(h)
             u == h \o x
             w == a \o x
  <2>1. d \in Nat /\ d + Len(h) = Len(a) BY <1>1
  <2>2. \A i \in 1..Len(u) : u[i] = w[d + i]
    <3> TAKE i \in 1..Len(u)
    <3>1. CASE i <= Len(h)
      <4>1. i \in 1..Len(h) /\ d + i \in 1..Len(a) /\ d + i <= Len(a) BY <1>1, <2>1, <3>1
      <4>2. u[i] = h[i] BY <1>1, <1>3, <3>1
      <4>3. d + i \in 1..(Len(a) + Len(x)) BY <1>1, <4>1
      <4>4. w[d + i] = a[d + i] BY <1>2, <4>1, <4>3
      <4> QED BY <1>5, <4>1, <4>2, <4>4
    <3>2. CASE ~(i <= Len(h))
      <4>1. d + i \in 1..(Len(a) + Len(x)) /\ ~(d + i <= Len(a)) /\ (d + i) - Len(a) = i - Len(h)
        BY <1>1, <1>3, <2>1, <3>2
      <4>2. u[i] = x[i - Len(h)] BY <1>1, <1>3, <3>2
      <4>3. w[d + i] = x[(d + i) - Len(a)] BY <1>2, <4>1
      <4> QED BY <4>1, <4>2, <4>3
    <3> QED BY <3>1, <3>2
  <2>3. Len(u) + d <= Len(w) BY <1>1, <1>2, <1>3
  <2> HIDE DEF u, w, d
  <2>4. Part(u, w, d) BY <2>2, <2>3 DEF Part
  <2> QED BY <2>4 DEF u, w, d
<1> QED BY <1>2, <1>3, <1>4, <1>6, <1>7

\* What the shift leaves in the buffer is the end of the stream, from where the scan stopped.
HoldsTheEnd(u, w, d, pos, h) ==
  /\ h \in Seq(Byte) /\ Len(h) = Len(u) - pos + 1 /\ Len(w) - Len(h) = d + pos - 1
  /\ h = Last(w, Len(h))
  /\ h # <<>> => pos <= Len(u) /\ h[1] = u[pos] /\ (FrameIn(h, 1) => FrameIn(u, pos))

LEMMA ShiftKeepsTheEnd ==
  ASSUME NEW u \in Seq(Byte), NEW w \in Seq(Byte), NEW d \in Nat, Part(u, w, d),
         Len(u) + d = Len(w), NEW pos \in 1..(Len(u) + 1)
  PROVE  HoldsTheEnd(u, w, d, pos, Unscanned(u, pos))
<1> DEFINE h == Unscanned(u, pos)
<1>1. Len(u) \in Nat /\ Len(w) \in Nat /\ pos \in Int BY LenTypes
<1>2. /\ h \in Seq(Byte) /\ Len(h) = Len(u) - pos + 1
      /\ \A i \in 1..(Len(u) - pos + 1) : h[i] = u[pos + i - 1]
  <2>1. \A i \in pos..Len(u) : u[i] \in Byte BY <1>1, LenTypes
  <2> DEFINE y == Len(u)
             z == SubSeq(u, pos, y)
  <2>2. y \in Int /\ \A i \in pos..y : u[i] \in Byte BY <1>1, <2>1
  <2>3. (IF pos <= y THEN y - pos + 1 ELSE 0) = y - pos + 1 BY <1>1
  <2> HIDE DEF y
  <2>4. /\ z \in Seq(Byte) /\ Len(z) = IF pos <= y THEN y - pos + 1 ELSE 0
        /\ \A i \in 1..(y - pos + 1) : z[i] = u[pos + i - 1]
    BY <1>1, <2>2, SubSeqProperties
  <2>5. h = z BY DEF Unscanned, y
  <2> HIDE DEF z
  <2> QED BY <2>3, <2>4, <2>5 DEF y
<1> DEFINE lu == Len(u)
           lh == Len(h)
           lw == Len(w)
<1>0. lu \in Nat /\ lw \in Nat /\ lu + d = lw /\ pos \in 1..(lu + 1) /\ lh = lu - pos + 1
  BY <1>1, <1>2
<1>3. lh \in Nat /\ lw - lh = d + pos - 1 /\ lh <= lw
  <2> HIDE DEF lu, lh, lw
  <2> QED BY <1>0
<1>4. h = Last(w, Len(h))
  <2>1. CASE pos = Len(u) + 1
    <3>1. Len(h) = 0 BY <1>1, <1>2, <2>1
    <3>2. Least(0, Len(w)) = 0 BY <1>1 DEF Least
    <3>3. Last(w, 0) \in Seq(Byte) /\ Len(Last(w, 0)) = 0 BY <3>2, LastFacts
    <3> QED BY <1>2, <3>1, <3>3, EmptySeq
  <2>2. CASE pos \in 1..Len(u)
    <3> DEFINE n == Len(h)
    <3>0. pos + lh - 1 = lu /\ d + pos + lh - 1 = lw /\ Least(lh, lw) = lh
          /\ lw - lh + 1 = d + pos
      <4> HIDE DEF lu, lh, lw
      <4> QED BY <1>0, <1>3 DEF Least
    <3>1. pos + n - 1 = Len(u) /\ d + pos + n - 1 = Len(w) /\ Least(n, Len(w)) = n
          /\ Len(w) - n + 1 = d + pos
      BY <3>0
    <3>2. SubSeq(u, pos, pos + n - 1) = SubSeq(w, d + pos, d + pos + n - 1)
      <4>1. n \in Nat /\ pos + n - 1 <= Len(u) BY <1>1, <1>3, <3>1
      <4> HIDE DEF n
      <4> QED BY <2>2, <4>1, PartOfSame
    <3>3. Last(w, n) = SubSeq(w, d + pos, Len(w)) BY <3>1 DEF Last
    <3>4. h = SubSeq(u, pos, Len(u)) BY DEF Unscanned
    <3> HIDE DEF n
    <3>5. h = Last(w, n) BY <3>1, <3>2, <3>3, <3>4
    <3> QED BY <3>5 DEF n
  <2> QED BY <1>1, <2>1, <2>2
<1>5. ASSUME h # <<>>
      PROVE  pos <= Len(u) /\ h[1] = u[pos] /\ (FrameIn(h, 1) => FrameIn(u, pos))
  <2>1. 1 \in 1..Len(h) /\ pos <= Len(u) BY <1>1, <1>2, <1>3, <1>5, EmptySeq
  <2> DEFINE k == pos - 1
  <2>2. k \in Nat /\ k + 1 = pos /\ Len(h) + k <= Len(u)
        /\ \A i \in 1..Len(h) : k + i = pos + i - 1
    BY <1>1, <1>2
  <2> HIDE DEF k
  <2>3. Part(h, u, k) BY <1>2, <2>2 DEF Part
  <2>4. h[1] = u[k + 1] /\ (FrameIn(h, 1) => FrameIn(u, k + 1)) BY <1>2, <2>1, <2>2, <2>3, FrameIsLocal
  <2> QED BY <2>1, <2>2, <2>4
<1> QED BY <1>2, <1>3, <1>4, <1>5 DEF HoldsTheEnd

\* A frame that the scan finds ends late in the stream: an unfinished one before
\* it, or its own last byte, came with this chunk.
LEMMA FoundLate ==
  ASSUME NEW a \in Seq(Byte), NEW h \in Seq(Byte), NEW w \in Seq(Byte),
         Len(h) <= Len(a), Len(h) <= MaxFrame - 1, Part(h, a, Len(a) - Len(h)), Part(a, w, 0),
         h # <<>> => ~FrameIn(h, 1), NEW m \in Starts(w), m > Len(a) - Len(h)
  PROVE  Len(a) <= m + FrameLen(w, m) - 1 + MaxPayload - 1
<1> DEFINE d == Len(a) - Len(h)
           l == FrameLen(w, m)
<1>1. Len(a) \in Nat /\ Len(h) \in Nat /\ Len(w) \in Nat /\ d \in Nat BY LenTypes
<1>2. m \in 1..Len(w) /\ l \in 3..MaxFrame /\ m + l - 1 <= Len(w) BY StartFacts
<1>3. MaxPayload \in Nat /\ MaxFrame = 3 + MaxPayload BY ByteAssumption DEF MaxFrame, HDR_LEN, CRC_LEN
<1>4. CASE m > d + 1 BY <1>1, <1>2, <1>3, <1>4
<1>5. CASE m = d + 1
  <2> SUFFICES ASSUME ~(Len(a) <= m + l - 1 + MaxPayload - 1) PROVE FALSE OBVIOUS
  <2>1. m + l - 1 <= Len(a) /\ m \in 1..Len(a) /\ m + 1 \in 1..Len(a) /\ m < Len(a)
        /\ 0 + (m + 1) = m + 1 /\ 1 \in 1..Len(h)
    BY <1>1, <1>2, <1>3, <1>5
  <2>2. a[m + 1] = w[m + 1]
    <3>1. \A i \in 1..Len(a) : a[i] = w[0 + i] BY DEF Part
    <3> QED BY <2>1, <3>1
  <2>3. FrameLen(a, m) = l BY <2>2 DEF FrameLen
  <2>4. FrameIn(a, m) BY <2>1, <2>3, FrameFacts
  <2>5. Len(h) + d = Len(a) /\ FrameIn(a, d + 1) BY <1>1, <1>5, <2>4
  <2>6. FrameIn(h, 1)
    <3> HIDE DEF d
    <3>1. Part(h, a, d) BY DEF d
    <3> QED BY <1>1, <2>1, <2>5, <3>1, FrameIsLocal
  <2>7. h # <<>> BY <2>1, EmptySeq
  <2> QED BY <2>6, <2>7
<1>6. m > d + 1 \/ m = d + 1
  <2>1. m \in Nat /\ m > d BY <1>1, <1>2
  <2> HIDE DEF d
  <2> QED BY <1>1, <2>1
<1> QED BY <1>4, <1>5, <1>6

-----------------------------------------------------------------------------
LEMMA MonInit == Init => IInv
<1> SUFFICES ASSUME Init PROVE IInv OBVIOUS
<1>1. all = <<>> /\ s_parse = <<>> /\ s_last_frame = <<>> /\ last_frame_us = 0 /\ total_bytes = 0
      /\ valid_frames = 0 /\ crc_fails = 0 /\ types = [t \in {} |-> 0]
  BY DEF Init
<1>2. <<>> \in Seq(Byte) /\ Len(<<>>) = 0 BY EmptySeq
<1>3. Consumed = 0 BY <1>1, <1>2 DEF Consumed
<1>4. 1..0 = {} OBVIOUS
<1>5. Framed(all, 1, 0) = {} /\ Failed(all, 1, 0) = {} /\ \A t : OfType(all, {}, t) = {}
  BY <1>4 DEF Framed, Failed, OfType
<1>6. HoldsOnlyUnfinished
  <2>1. Last(<<>>, 0) \in Seq(Byte) /\ Len(Last(<<>>, 0)) = 0
    <3>1. Least(0, 0) = 0 BY DEF Least
    <3> QED BY <1>2, <3>1, LastFacts
  <2>2. Last(<<>>, 0) = <<>> BY <2>1, EmptySeq
  <2> QED BY <1>1, <1>2, <2>2 DEF HoldsOnlyUnfinished
<1>7. Boundary(all, 0)
  <2>1. \A q \in Starts(all) : ~(q <= 0) 
    <3>1. all \in Seq(Byte) BY <1>1, <1>2
    <3> QED BY <3>1, StartFacts
  <2> QED BY <2>1 DEF Boundary
<1>8. Judged(all, 0) BY <1>4 DEF Judged
<1>9. ShowsLast(all, 0, s_last_frame, last_frame_us) BY <1>1, <1>5 DEF ShowsLast
<1>10. TableOk(types, TypeCounts(all, 0))
  <2>1. DOMAIN types = {} /\ types \in [{} -> Nat] BY <1>1
  <2>2. IsFiniteSet({}) /\ Cardinality({}) = 0 BY FS_EmptySet
  <2>3. \A t \in Byte : TypeCounts(all, 0)[t] = 0 BY <1>5, <2>2 DEF TypeCounts
  <2> QED BY <2>1, <2>2, <2>3, SizeAssumption DEF TableOk
<1>11. 0 = Cardinality(Framed(all, 1, 0)) /\ 0 = Cardinality(Failed(all, 1, 0))
  BY <1>5, FS_EmptySet
<1> QED BY <1>1, <1>2, <1>3, <1>6, <1>7, <1>8, <1>9, <1>10, <1>11 DEF IInv

\* One chunk.
LEMMA MonFeed ==
  ASSUME IInv, NEW data \in Seq(Byte), Len(data) <= ChunkMax, Feed(data)
  PROVE  IInv'
<1> DEFINE w == all'
           u == s_parse \o data
           d == Consumed
           r == Scan(u)
           e == d + r.pos - 1
           old == Framed(w, 1, d)
           new == Framed(w, d + 1, e)
<1>1. /\ all \in Seq(Byte) /\ s_parse \in Seq(Byte) /\ Len(s_parse) <= Len(all)
      /\ HoldsOnlyUnfinished /\ s_parse = Last(all, Len(s_parse))
  BY DEF IInv, HoldsOnlyUnfinished
<1>2. Appended(data) = u /\ Len(s_parse) <= MaxFrame - 1 BY <1>1, ChunkFits
<1>3. /\ w = all \o data /\ s_parse' = Unscanned(u, r.pos)
      /\ total_bytes' = total_bytes + Len(data)
      /\ valid_frames' = valid_frames + Len(r.frames) /\ crc_fails' = crc_fails + r.fails
      /\ types' = Tallied(r.frames)
      /\ IF r.frames = <<>> THEN UNCHANGED <<s_last_frame, last_frame_us>>
         ELSE s_last_frame' = r.snap /\ last_frame_us' = total_bytes'
  BY <1>2 DEF Feed
<1>4. /\ w \in Seq(Byte) /\ Len(w) = Len(all) + Len(data)
      /\ u \in Seq(Byte) /\ Len(u) = Len(s_parse) + Len(data)
      /\ Part(all, w, 0) /\ Part(s_parse, all, Len(all) - Len(s_parse))
      /\ Part(u, w, Len(all) - Len(s_parse))
  <2> HIDE DEF w, u
  <2> QED BY <1>1, <1>3, Parts DEF u
<1>5. Len(all) \in Nat /\ Len(s_parse) \in Nat /\ Len(data) \in Nat /\ Len(u) \in Nat
  BY <1>1, <1>4, LenTypes
<1>6. d \in Nat /\ d \in 0..Len(all) /\ d = Len(all) - Len(s_parse) /\ Len(u) + d = Len(w)
  BY <1>1, <1>4, <1>5 DEF Consumed
<1>7. Boundary(all, d) /\ Judged(all, d) BY DEF IInv
<1> HIDE DEF w, u, d
<1>8. /\ old = Framed(all, 1, d) /\ Failed(w, 1, d) = Failed(all, 1, d)
      /\ Boundary(w, d) /\ Judged(w, d)
      /\ \A x \in old : /\ FrameLen(w, x) = FrameLen(all, x)
                        /\ TypeAt(w, x) = TypeAt(all, x)
                        /\ Shown(w, x) = Shown(all, x)
  BY <1>1, <1>4, <1>6, <1>7, Settled
<1>9. Scanned(u, w, d, 1, r) BY <1>4, <1>6, <1>8, ScanFinds
<1> HIDE DEF r
<1>10. /\ r \in Records /\ r.pos \in 1..(Len(u) + 1) /\ r.frames \in Seq(Byte)
       /\ r.pos <= Len(u) => u[r.pos] = Preamble /\ ~FrameIn(u, r.pos)
       /\ Boundary(w, e) /\ Found(w, d + 1, e, r)
  BY <1>9 DEF Scanned, Records
<1>11. e \in Nat /\ d <= e
  <2>1. r.pos \in Nat /\ r.pos >= 1 BY <1>5, <1>10
  <2> QED BY <1>6, <2>1
<1>12. /\ s_parse' \in Seq(Byte) /\ Len(s_parse') = Len(u) - r.pos + 1
       /\ Len(w) - Len(s_parse') = e
       /\ s_parse' = Last(w, Len(s_parse'))
       /\ s_parse' # <<>> => /\ r.pos <= Len(u) /\ s_parse'[1] = u[r.pos]
                             /\ FrameIn(s_parse', 1) => FrameIn(u, r.pos)
  <2> DEFINE pos == r.pos
             h == s_parse'
  <2>1. Part(u, w, d) /\ pos \in 1..(Len(u) + 1) /\ h = Unscanned(u, pos) BY <1>3, <1>4, <1>6, <1>10
  <2> HIDE DEF e, pos, h
  <2>2. u \in Seq(Byte) /\ w \in Seq(Byte) /\ d \in Nat /\ Len(u) + d = Len(w) BY <1>4, <1>6
  <2>3. HoldsTheEnd(u, w, d, pos, h) BY <2>1, <2>2, ShiftKeepsTheEnd
  <2> QED BY <2>3 DEF e, pos, h, HoldsTheEnd
<1>13. Consumed' = e BY <1>12 DEF Consumed, w
<1>14. Len(s_parse') <= Len(w) /\ total_bytes' = Len(w)
  <2>1. total_bytes = Len(all) BY DEF IInv
  <2>2. Len(s_parse') \in Nat /\ Len(w) \in Nat BY <1>4, <1>12, LenTypes
  <2> QED BY <1>3, <1>4, <1>11, <1>12, <2>1, <2>2
<1>15. HoldsOnlyUnfinished' BY <1>10, <1>12 DEF HoldsOnlyUnfinished, w
<1> HIDE DEF e
<1>16. /\ \A x : x \in 1..e <=> x \in 1..d \/ x \in (d + 1)..e
       /\ Framed(w, 1, e) = old \cup new
       /\ Cardinality(Framed(w, 1, e)) = Cardinality(old) + Cardinality(new)
       /\ Cardinality(Failed(w, 1, e)) =
            Cardinality(Failed(w, 1, d)) + Cardinality(Failed(w, d + 1, e))
       /\ \A t : Cardinality(OfType(w, Framed(w, 1, e), t)) =
                   Cardinality(OfType(w, old, t)) + Cardinality(OfType(w, new, t))
  BY <1>4, <1>6, <1>11, Split
<1>17. Judged(w, e) BY <1>8, <1>10, <1>16 DEF Judged, Found
<1>18. valid_frames' = Cardinality(Framed(w, 1, e)) /\ crc_fails' = Cardinality(Failed(w, 1, e))
  <2>1. valid_frames = Cardinality(Framed(all, 1, d)) /\ crc_fails = Cardinality(Failed(all, 1, d))
    BY DEF IInv, d
  <2> QED BY <1>3, <1>8, <1>10, <1>16, <2>1 DEF Found
<1>19. TableOk(types', TypeCounts(w, e))
  <2> DEFINE c == TypeCounts(all, d)
             cc == [t \in Byte |-> c[t] + Count(r.frames, t)]
  <2>1. TableOk(types, c) BY DEF IInv, d
  <2>2. \A t : OfType(w, old, t) = OfType(all, Framed(all, 1, d), t) BY <1>8 DEF OfType
  <2>3. c \in [Byte -> Nat]
    <3>1. \A t \in Byte : Cardinality(OfType(all, Framed(all, 1, d), t)) \in Nat
      <4>1. 1 \in Int /\ d \in Int BY <1>6
      <4>2. \A t : IsFiniteSet(OfType(all, Framed(all, 1, d), t)) BY <1>1, <4>1, Counts DEF OfType
      <4> QED BY <4>2, FS_CardinalityType
    <3> QED BY <3>1 DEF TypeCounts
  <2>4. \A t \in Byte : c[t] = Cardinality(OfType(w, old, t)) BY <2>2 DEF TypeCounts
  <2>5. \A t \in Byte : Count(r.frames, t) = Cardinality(OfType(w, new, t)) BY <1>10 DEF Found
  <2>6. cc = TypeCounts(w, e)
    <3>1. \A t \in Byte : c[t] + Count(r.frames, t) = Cardinality(OfType(w, Framed(w, 1, e), t))
      BY <1>16, <2>4, <2>5
    <3> HIDE DEF c
    <3> QED BY <3>1 DEF TypeCounts
  <2> HIDE DEF c
  <2>7. TableOk(Tallied(r.frames), cc) BY <1>10, <2>1, <2>3, TableFollows
  <2> HIDE DEF cc
  <2> QED BY <1>3, <2>6, <2>7
<1>20. ShowsLast(all, d, s_last_frame, last_frame_us) BY DEF IInv, d
<1>21. ShowsLast(w, e, s_last_frame', last_frame_us')
  <2>0. Newest(w, new, r) BY <1>10 DEF Found
  <2>1. CASE r.frames = <<>>
    <3>1. new = {} /\ s_last_frame' = s_last_frame /\ last_frame_us' = last_frame_us
      BY <1>3, <2>0, <2>1 DEF Newest
    <3>2. Framed(w, 1, e) = Framed(all, 1, d) /\ Framed(w, 1, e) = old BY <1>8, <1>16, <3>1
    <3> QED BY <1>8, <1>20, <3>1, <3>2 DEF ShowsLast
  <2>2. CASE r.frames # <<>>
    <3>1. PICK m \in new : (\A x \in new : x <= m) /\ r.snap = Shown(w, m)
      BY <2>0, <2>2 DEF Newest
    <3> DEFINE end == m + FrameLen(w, m) - 1
    <3>2. m \in Starts(w) /\ m \in Nat /\ m > d /\ m \in Framed(w, 1, e)
      <4>1. m \in Starts(w) /\ m \in (d + 1)..e BY DEF Framed
      <4> QED BY <1>6, <1>11, <1>16, <4>1
    <3>3. \A x \in Framed(w, 1, e) : x <= m
      <4>1. \A x \in old : x \in 1..d BY DEF Framed
      <4> QED BY <1>6, <1>16, <3>1, <3>2, <4>1
    <3>4. end \in Nat /\ end <= Len(w) BY <1>4, <3>2, StartFacts
    <3>5. Len(all) <= end + MaxPayload - 1
      <4>1. s_parse # <<>> => ~FrameIn(s_parse, 1) BY <1>1 DEF HoldsOnlyUnfinished
      <4>2. m > Len(all) - Len(s_parse) BY <1>6, <3>2
      <4> QED BY <1>1, <1>2, <1>4, <3>2, <4>1, <4>2, FoundLate
    <3>6. s_last_frame' = Shown(w, m) /\ last_frame_us' = Len(w) BY <1>3, <1>14, <2>2, <3>1
    <3>7. last_frame_us' \in end..(end + MaxPayload + ChunkMax - 1)
      <4>1. MaxPayload \in Nat /\ ChunkMax \in Nat BY ByteAssumption, SizeAssumption
      <4> HIDE DEF end
      <4> QED BY <1>4, <1>5, <3>4, <3>5, <3>6, <4>1
    <3>8. ~(Framed(w, 1, e) = {}) BY <3>2
    <3> QED BY <3>2, <3>3, <3>6, <3>7, <3>8 DEF ShowsLast
  <2> QED BY <2>1, <2>2
<1>22. /\ Boundary(all', Consumed') /\ Judged(all', Consumed')
       /\ valid_frames' = Cardinality(Framed(all', 1, Consumed'))
       /\ crc_fails' = Cardinality(Failed(all', 1, Consumed'))
       /\ ShowsLast(all', Consumed', s_last_frame', last_frame_us')
       /\ TableOk(types', TypeCounts(all', Consumed'))
  BY <1>10, <1>13, <1>17, <1>18, <1>19, <1>21 DEF w
<1>23. /\ all' \in Seq(Byte) /\ s_parse' \in Seq(Byte) /\ Len(s_parse') <= Len(all')
       /\ total_bytes' = Len(all')
  BY <1>4, <1>12, <1>14 DEF w
<1> QED BY <1>15, <1>22, <1>23 DEF IInv

LEMMA MonNext == IInv /\ [Next]_vars => IInv'
<1> SUFFICES ASSUME IInv, [Next]_vars PROVE IInv' OBVIOUS
<1>1. CASE UNCHANGED vars
  <2>1. /\ all' = all /\ s_parse' = s_parse /\ total_bytes' = total_bytes /\ types' = types
        /\ valid_frames' = valid_frames /\ crc_fails' = crc_fails
        /\ s_last_frame' = s_last_frame /\ last_frame_us' = last_frame_us
    BY <1>1 DEF vars, stats
  <2>2. Consumed' = Consumed BY <2>1 DEF Consumed
  <2>3. HoldsOnlyUnfinished' BY <2>1 DEF IInv, HoldsOnlyUnfinished
  <2> QED BY <2>1, <2>2, <2>3 DEF IInv
<1>2. CASE Next
  <2>1. PICK n \in 1..ChunkMax : \E data \in [1..n -> Byte] : Feed(data) BY <1>2 DEF Next
  <2>2. PICK data \in [1..n -> Byte] : Feed(data) BY <2>1
  <2>3. data \in Seq(Byte) /\ Len(data) = n
    <3>1. n \in Nat OBVIOUS
    <3>2. data \in Seq(Byte) BY <3>1, IsASeq
    <3>3. DOMAIN data = 1..n OBVIOUS
    <3>4. Len(data) \in Nat /\ DOMAIN data = 1..Len(data) BY <3>2, LenProperties
    <3>5. 1..n = 1..Len(data) BY <3>3, <3>4
    <3>6. n \in 1..Len(data) /\ Len(data) + 1 \notin 1..n BY <3>1, <3>4, <3>5
    <3>7. Len(data) = n BY <3>1, <3>4, <3>6
    <3> QED BY <3>2, <3>7
  <2>4. Len(data) <= ChunkMax BY <2>3, SizeAssumption
  <2> QED BY <2>2, <2>3, <2>4, MonFeed
<1> QED BY <1>1, <1>2

\* The frames of the consumed stream, in the words of the properties
LEMMA FramesAre ==
  /\ Frames = Framed(all, 1, Consumed)
  /\ {p \in Done : Whole(all, p) /\ ~Inside(all, p)} = Failed(all, 1, Consumed)
BY DEF Frames, Done, Framed, Failed, Consumed

\* Wherever the chunks cut the stream, the frames counted are those of the stream
\* in one piece, and every would-be frame outside of them is one checksum failure
\* (rtcm_monitor.c:107-135).
THEOREM CountsTheStream == Spec => []ChunksDoNotMatter
<1>1. IInv => ChunksDoNotMatter BY FramesAre DEF IInv, ChunksDoNotMatter
<1> QED BY <1>1, MonInit, MonNext, PTL DEF Spec

\* The buffer holds back the end of the stream only, and only behind a preamble
\* whose frame is not in yet; so a chunk always fits, and the branch that would
\* drop bytes is dead (rtcm_monitor.c:90-143).
THEOREM DelaysNothing == Spec => []HoldsOnlyUnfinished
<1>1. IInv => HoldsOnlyUnfinished BY DEF IInv
<1> QED BY <1>1, MonInit, MonNext, PTL DEF Spec

\* The last frame shown is the last of the stream, and its time is at most a
\* payload and a chunk behind its last byte (rtcm_monitor.c:122-130).
THEOREM ShowsTheLatest == Spec => []LastFrameIsLatest
<1>1. ASSUME IInv PROVE LastFrameIsLatest
  <2> DEFINE F == Framed(all, 1, Consumed)
  <2>1. Frames = F BY FramesAre
  <2>2. ShowsLast(all, Consumed, s_last_frame, last_frame_us) /\ all \in Seq(Byte) BY <1>1 DEF IInv
  <2>3. CASE F = {} BY <2>1, <2>2, <2>3 DEF LastFrameIsLatest, ShowsLast
  <2>4. CASE F # {}
    <3>1. PICK m \in F : /\ \A x \in F : x <= m
                         /\ s_last_frame = Shown(all, m)
                         /\ last_frame_us \in (m + FrameLen(all, m) - 1)..
                              ((m + FrameLen(all, m) - 1) + MaxPayload + ChunkMax - 1)
      BY <2>2, <2>4 DEF ShowsLast
    <3>2. \A x \in F : x \in Nat
      <4>1. \A x \in F : x \in Starts(all) BY DEF Framed
      <4> QED BY <2>2, <4>1, StartFacts
    <3> HIDE DEF F
    <3>3. Max(F) = m
      <4>1. \A x \in F : (\A y \in F : x >= y) <=> x = m BY <3>1, <3>2
      <4>2. Max(F) = CHOOSE x \in F : \A y \in F : x >= y BY DEF Max
      <4>3. (CHOOSE x \in F : \A y \in F : x >= y) = m BY <3>1, <4>1
      <4> QED BY <4>2, <4>3
    <3> QED BY <2>1, <2>4, <3>1, <3>3 DEF LastFrameIsLatest, Shown
  <2> QED BY <2>3, <2>4
<1> QED BY <1>1, MonInit, MonNext, PTL DEF Spec

\* The per-type counts add up to the frames of the stream, and a tracked type
\* keeps its count when the table is full (rtcm_monitor.c:46-59).
THEOREM TableAddsUp == Spec => []TypesAddUp
<1>1. ASSUME IInv PROVE TypesAddUp
  <2> DEFINE c == TypeCounts(all, Consumed)
  <2>1. TableOk(types, c) BY <1>1 DEF IInv
  <2>2. \A t \in Byte : c[t] = Cardinality({p \in Frames : TypeAt(all, p) = t})
    BY FramesAre DEF TypeCounts, OfType
  <2> HIDE DEF c
  <2> QED BY <2>1, <2>2 DEF TableOk, TypesAddUp
<1> QED BY <1>1, MonInit, MonNext, PTL DEF Spec

-----------------------------------------------------------------------------
(* The raw tap *)

TapInv == all \in Seq(Byte) /\ RawIsLatest

LEMMA TapInit == Init => TapInv
<1> SUFFICES ASSUME Init PROVE TapInv OBVIOUS
<1>1. <<>> \in Seq(Byte) /\ Len(<<>>) = 0 BY EmptySeq
<1>2. Last(<<>>, RTCM_MON_RAW_BYTES) \in Seq(Byte) /\ Len(Last(<<>>, RTCM_MON_RAW_BYTES)) = 0
  <2>1. Least(RTCM_MON_RAW_BYTES, 0) = 0 /\ RTCM_MON_RAW_BYTES \in Nat
    BY TapAssumption DEF Least
  <2> QED BY <1>1, <2>1, LastFacts
<1>3. Last(<<>>, RTCM_MON_RAW_BYTES) = <<>> BY <1>2, EmptySeq
<1> QED BY <1>1, <1>3 DEF Init, TapInv, RawIsLatest

LEMMA TapNext == TapInv /\ [Next]_vars => TapInv'
<1> SUFFICES ASSUME TapInv, [Next]_vars PROVE TapInv' OBVIOUS
<1>1. CASE UNCHANGED vars BY <1>1 DEF TapInv, RawIsLatest, vars
<1>2. CASE Next
  <2>1. PICK n \in 1..ChunkMax : \E data \in [1..n -> Byte] : Feed(data) BY <1>2 DEF Next
  <2>2. PICK data \in [1..n -> Byte] : Feed(data) BY <2>1
  <2>3. data \in Seq(Byte)
    <3>1. n \in Nat OBVIOUS
    <3> QED BY <3>1, IsASeq
  <2>4. all' = all \o data /\ s_raw' = RawTap(data) BY <2>2 DEF Feed
  <2>5. all' \in Seq(Byte) BY <2>3, <2>4, ConcatProperties DEF TapInv
  <2>6. all \in Seq(Byte) /\ s_raw = Last(all, RTCM_MON_RAW_BYTES) BY DEF TapInv, RawIsLatest
  <2>7. s_raw' = Last(all', RTCM_MON_RAW_BYTES)
    BY <2>3, <2>4, <2>6, LastOfConcat, TapAssumption DEF RawTap
  <2> QED BY <2>5, <2>7 DEF TapInv, RawIsLatest
<1> QED BY <1>1, <1>2

\* The raw tap shows the latest bytes, as many as it has room for, whatever the
\* sizes of the chunks and of the tap (rtcm_monitor.c:76-90).
THEOREM TapIsLatest == Spec => []RawIsLatest
<1>1. TapInv => RawIsLatest BY DEF TapInv
<1> QED BY <1>1, TapInit, TapNext, PTL DEF Spec
=============================================================================
