---------------------------- MODULE RtcmSinkProofs ----------------------------
(***************************************************************************)
(* Theorems about module RtcmSink, for all sizes of the buffers, chunks    *)
(* and reads: the buffers keep to their sizes, a connection carries no     *)
(* byte from before its reset, and each of the three consumers is served   *)
(* by the lossy FIFO of module LossyFifo.                                  *)
(***************************************************************************)
EXTENDS RtcmSink, SequenceTheorems, TLAPS

-----------------------------------------------------------------------------
(* The inductive invariant: where on its way a byte can be *)

Rising(s) == \A i, j \in 1..Len(s) : i < j => s[i] < s[j]
Ahead(S, T) == \A x \in S, y \in T : x < y

\* All that was taken out of the sink, wherever it is now.
Past == Elements(chunk) \cup Elements(monitored) \cup Elements(s_caster_buf)
          \cup Elements(cast) \cup Elements(s_upstream_buf) \cup Elements(upChunk)
          \cup Elements(sent)

AllRising ==
  /\ Rising(s_buf) /\ Rising(chunk) /\ Rising(monitored)
  /\ Rising(s_caster_buf) /\ Rising(cast)
  /\ Rising(s_upstream_buf) /\ Rising(upChunk) /\ Rising(sent)

\* What is further on its way is older: behind the sink the feed task's chunk,
\* and behind the chunk, once it has been handed on, nothing of it.
Stages ==
  /\ Past \cup Elements(s_buf) \subseteq 1..made
  /\ Ahead(Past, Elements(s_buf))
  /\ fpc = "monitor" => Ahead(Elements(monitored), Elements(chunk))
  /\ fpc \in {"monitor", "caster"} =>
       Ahead(Elements(cast) \cup Elements(s_caster_buf), Elements(chunk))
  /\ Ahead(Elements(sent) \cup Elements(upChunk) \cup Elements(s_upstream_buf), Elements(chunk))
  /\ Ahead(Elements(cast), Elements(s_caster_buf))
  /\ Ahead(Elements(sent), Elements(upChunk) \cup Elements(s_upstream_buf))
  /\ Ahead(Elements(upChunk), Elements(s_upstream_buf))

\* The feed task and the stream loop hold bytes exactly in between their reads.
Holding == (fpc = "read" <=> chunk = <<>>) /\ (link = "send" <=> upChunk # <<>>)

\* What the reset of this connection has not seen is newer.
Marked ==
  /\ mark <= made /\ Ahead({mark}, Elements(chunk) \cup Elements(s_buf))
  /\ link \in {"read", "send"} =>
       Ahead({mark}, Elements(upChunk) \cup Elements(s_upstream_buf))
  /\ first # 0 => first > mark

IInv == TypeOK /\ AllRising /\ Stages /\ Holding /\ Marked

-----------------------------------------------------------------------------
(* What the operations on a stream buffer do to it *)

LEMMA ElementsOfConcat ==
  ASSUME NEW S, NEW s \in Seq(S), NEW t \in Seq(S)
  PROVE  Elements(s \o t) = Elements(s) \cup Elements(t)
<1>1. ASSUME NEW x \in Elements(s \o t) PROVE x \in Elements(s) \cup Elements(t)
  <2>1. PICK i \in 1..(Len(s) + Len(t)) : x = (s \o t)[i] BY <1>1 DEF Elements
  <2>2. CASE i <= Len(s) BY <2>1, <2>2 DEF Elements
  <2>3. CASE i > Len(s)
    <3>1. i - Len(s) \in 1..Len(t) /\ x = t[i - Len(s)] BY <2>1, <2>3
    <3> QED BY <3>1 DEF Elements
  <2> QED BY <2>1, <2>2, <2>3
<1>2. ASSUME NEW x \in Elements(s) PROVE x \in Elements(s \o t)
  <2>1. PICK i \in 1..Len(s) : x = s[i] BY <1>2 DEF Elements
  <2>2. i \in 1..Len(s \o t) /\ x = (s \o t)[i] BY <2>1
  <2> QED BY <2>2 DEF Elements
<1>3. ASSUME NEW x \in Elements(t) PROVE x \in Elements(s \o t)
  <2>1. PICK i \in 1..Len(t) : x = t[i] BY <1>3 DEF Elements
  <2>2. i + Len(s) \in 1..Len(s \o t) /\ x = (s \o t)[i + Len(s)] BY <2>1
  <2> QED BY <2>2 DEF Elements
<1> QED BY <1>1, <1>2, <1>3

LEMMA RisingConcat ==
  ASSUME NEW s \in Seq(Bytes), NEW t \in Seq(Bytes), Rising(s), Rising(t),
         Ahead(Elements(s), Elements(t))
  PROVE  Rising(s \o t)
<1> SUFFICES ASSUME NEW i \in 1..(Len(s) + Len(t)), NEW j \in 1..(Len(s) + Len(t)), i < j
             PROVE  (s \o t)[i] < (s \o t)[j]
  BY DEF Rising
<1>1. CASE j <= Len(s) BY <1>1 DEF Rising
<1>2. CASE i > Len(s)
  <2>1. i - Len(s) \in 1..Len(t) /\ j - Len(s) \in 1..Len(t) BY <1>2
  <2>2. (s \o t)[i] = t[i - Len(s)] /\ (s \o t)[j] = t[j - Len(s)] BY <1>2
  <2> QED BY <2>1, <2>2 DEF Rising
<1>3. CASE i <= Len(s) /\ j > Len(s)
  <2>1. s[i] \in Elements(s) /\ t[j - Len(s)] \in Elements(t) BY <1>3 DEF Elements
  <2>2. (s \o t)[i] = s[i] /\ (s \o t)[j] = t[j - Len(s)] BY <1>3
  <2> QED BY <2>1, <2>2 DEF Ahead
<1> QED BY <1>1, <1>2, <1>3

\* A part of a sequence: the prefix that was received, the rest that was left.
LEMMA Part ==
  ASSUME NEW s \in Seq(Bytes), NEW m \in 1..(Len(s) + 1), NEW n \in 0..Len(s)
  PROVE  /\ SubSeq(s, m, n) \in Seq(Bytes)
         /\ Len(SubSeq(s, m, n)) = IF m <= n THEN n - m + 1 ELSE 0
         /\ \A i \in 1..Len(SubSeq(s, m, n)) : SubSeq(s, m, n)[i] = s[m + i - 1]
         /\ Elements(SubSeq(s, m, n)) \subseteq Elements(s)
         /\ Rising(s) => Rising(SubSeq(s, m, n))
<1> DEFINE p == SubSeq(s, m, n)
<1>1. \A i \in m..n : s[i] \in Bytes
  <2> TAKE i \in m..n
  <2>1. i \in 1..Len(s) OBVIOUS
  <2> QED BY <2>1, ElementOfSeq
<1>2. /\ p \in Seq(Bytes) /\ Len(p) = IF m <= n THEN n - m + 1 ELSE 0
      /\ \A i \in 1..(n - m + 1) : p[i] = s[m + i - 1]
  BY <1>1, SubSeqProperties
<1> HIDE DEF p
<1>3. \A i \in 1..Len(p) : m + i - 1 \in 1..Len(s) /\ p[i] = s[m + i - 1] BY <1>2
<1>4. Elements(p) \subseteq Elements(s) BY <1>3 DEF Elements
<1>5. ASSUME Rising(s) PROVE Rising(p)
  <2> SUFFICES ASSUME NEW i \in 1..Len(p), NEW j \in 1..Len(p), i < j PROVE p[i] < p[j]
    BY DEF Rising
  <2>1. m + i - 1 < m + j - 1 /\ m + i - 1 \in 1..Len(s) /\ m + j - 1 \in 1..Len(s) BY <1>3
  <2>2. s[m + i - 1] < s[m + j - 1] BY <1>5, <2>1 DEF Rising
  <2> QED BY <1>3, <2>2
<1> QED BY <1>2, <1>3, <1>4, <1>5 DEF p

LEMMA QueuedFacts ==
  ASSUME NEW buf \in Seq(Bytes), NEW data \in Seq(Bytes), NEW size \in Nat, Len(buf) <= size
  PROVE  /\ Queued(buf, data, size) \in Seq(Bytes)
         /\ Len(Queued(buf, data, size)) <= size
         /\ Elements(Queued(buf, data, size)) \subseteq Elements(buf) \cup Elements(data)
         /\ Rising(buf) /\ Rising(data) /\ Ahead(Elements(buf), Elements(data)) =>
              Rising(Queued(buf, data, size))
<1> DEFINE n == Least(Len(data), size - Len(buf))
           head == SubSeq(data, 1, n)
<1>1. n \in 0..Len(data) /\ n <= size - Len(buf) BY DEF Least
<1> HIDE DEF n
<1>2. /\ head \in Seq(Bytes) /\ Len(head) = n
      /\ Elements(head) \subseteq Elements(data) /\ (Rising(data) => Rising(head))
  BY <1>1, Part
<1> HIDE DEF head
<1>3. Queued(buf, data, size) = buf \o head BY DEF Queued, head, n
<1>4. Elements(buf \o head) = Elements(buf) \cup Elements(head) BY <1>2, ElementsOfConcat
<1>5. ASSUME Rising(buf), Rising(data), Ahead(Elements(buf), Elements(data))
      PROVE  Rising(buf \o head)
  BY <1>2, <1>5, RisingConcat DEF Ahead
<1> QED BY <1>1, <1>2, <1>3, <1>4, <1>5

\* A receive splits the buffer into what was taken and what is left behind it.
LEMMA TakenFacts ==
  ASSUME NEW buf \in Seq(Bytes), NEW max \in Nat \ {0}
  PROVE  /\ Taken(buf, max) \in Seq(Bytes) /\ Rest(buf, max) \in Seq(Bytes)
         /\ Len(Taken(buf, max)) <= max /\ Len(Rest(buf, max)) <= Len(buf)
         /\ buf # <<>> => Taken(buf, max) # <<>>
         /\ Elements(Taken(buf, max)) \subseteq Elements(buf)
         /\ Elements(Rest(buf, max)) \subseteq Elements(buf)
         /\ Rising(buf) => /\ Rising(Taken(buf, max)) /\ Rising(Rest(buf, max))
                           /\ Ahead(Elements(Taken(buf, max)), Elements(Rest(buf, max)))
<1> DEFINE n == Least(Len(buf), max)
           t == SubSeq(buf, 1, n)
           r == SubSeq(buf, n + 1, Len(buf))
<1>1. n \in 0..Len(buf) /\ n <= max /\ (buf # <<>> => n > 0) BY DEF Least
<1> HIDE DEF n
<1>2. /\ t \in Seq(Bytes) /\ Len(t) = n /\ \A i \in 1..Len(t) : t[i] = buf[i]
      /\ Elements(t) \subseteq Elements(buf) /\ (Rising(buf) => Rising(t))
  BY <1>1, Part
<1>3. /\ r \in Seq(Bytes) /\ Len(r) = Len(buf) - n
      /\ \A i \in 1..Len(r) : r[i] = buf[n + i]
      /\ Elements(r) \subseteq Elements(buf) /\ (Rising(buf) => Rising(r))
  BY <1>1, Part
<1> HIDE DEF t, r
<1>4. Taken(buf, max) = t /\ Rest(buf, max) = r BY DEF Taken, Rest, t, r, n
<1>5. ASSUME Rising(buf) PROVE Ahead(Elements(t), Elements(r))
  <2> SUFFICES ASSUME NEW i \in 1..Len(t), NEW j \in 1..Len(r) PROVE t[i] < r[j]
    BY DEF Ahead, Elements
  <2>1. i \in 1..Len(buf) /\ n + j \in 1..Len(buf) /\ i < n + j BY <1>1, <1>2, <1>3
  <2>2. buf[i] < buf[n + j] BY <1>5, <2>1 DEF Rising
  <2> QED BY <1>2, <1>3, <2>2
<1> QED BY <1>1, <1>2, <1>3, <1>4, <1>5

\* The bytes of one data callback are new.
LEMMA NewBytes ==
  ASSUME NEW m \in Nat, NEW n \in Nat \ {0}, m + n <= MaxBytes
  PROVE  /\ [i \in 1..n |-> m + i] \in Seq(Bytes) /\ Rising([i \in 1..n |-> m + i])
         /\ Elements([i \in 1..n |-> m + i]) \subseteq (m + 1)..(m + n)
<1> DEFINE new == [i \in 1..n |-> m + i]
<1> USE BytesAssumption
<1>1. new \in [1..n -> Bytes] BY DEF Bytes
<1>2. new \in Seq(Bytes) /\ Len(new) = n BY <1>1
<1>3. Rising(new) /\ Elements(new) \subseteq (m + 1)..(m + n) BY <1>2 DEF Rising, Elements
<1> QED BY <1>2, <1>3

LEMMA Sizes ==
  /\ SinkBytes \in Nat \ {0} /\ CasterBytes \in Nat \ {0} /\ UpstreamBytes \in Nat \ {0}
  /\ UsbChunk \in Nat \ {0} /\ FeedMax \in Nat \ {0} /\ CasterMax \in Nat \ {0}
  /\ UpstreamMax \in Nat \ {0} /\ MaxBytes \in Nat
BY SizesAssumption, BytesAssumption

LEMMA NoElements == Elements(<<>>) = {} /\ Rising(<<>>) /\ <<>> \in Seq(Bytes) /\ Len(<<>>) = 0
BY DEF Elements, Rising

-----------------------------------------------------------------------------
(* The inductive invariant *)

LEMMA IInvInit == Init => IInv
<1> SUFFICES ASSUME Init PROVE IInv OBVIOUS
<1>1. TypeOK
  <2>1. <<>> \in Seq(Bytes) BY NoElements
  <2>2. /\ Len(<<>>) <= SinkBytes /\ Len(<<>>) <= CasterBytes /\ Len(<<>>) <= UpstreamBytes
        /\ Len(<<>>) <= FeedMax /\ Len(<<>>) <= UpstreamMax
    BY NoElements, Sizes
  <2>3. 0 \in 0..MaxBytes BY Sizes
  <2> QED BY <2>1, <2>2, <2>3 DEF Init, TypeOK
<1>2. AllRising BY NoElements DEF Init, AllRising
<1>3. Stages
  <2>1. Past = {} BY NoElements DEF Init, Past
  <2> QED BY <2>1, NoElements DEF Init, Stages, Ahead
<1>4. Holding /\ Marked BY NoElements DEF Init, Holding, Marked, Ahead
<1> QED BY <1>1, <1>2, <1>3, <1>4 DEF IInv

LEMMA DataCbKeeps == IInv /\ DataCb => IInv'
<1> SUFFICES ASSUME IInv, DataCb PROVE IInv' OBVIOUS
<1> USE DEF IInv
<1>1. PICK n \in 1..UsbChunk :
        /\ made + n <= MaxBytes /\ made' = made + n
        /\ s_buf' = Queued(s_buf, [i \in 1..n |-> made + i], SinkBytes)
        /\ UNCHANGED <<s_caster_buf, s_upstream_buf, feed, casterOn, stream, monitored,
                       cast, sent>>
  BY DEF DataCb
<1> DEFINE new == [i \in 1..n |-> made + i]
<1>2. new \in Seq(Bytes) /\ Rising(new) /\ Elements(new) \subseteq (made + 1)..(made + n)
  <2>1. made \in Nat /\ n \in Nat \ {0} BY <1>1, Sizes DEF TypeOK
  <2> QED BY <1>1, <2>1, NewBytes
<1> HIDE DEF new
<1>3. Elements(s_buf) \subseteq 1..made /\ s_buf \in Seq(Bytes) /\ Len(s_buf) <= SinkBytes
  BY DEF Stages, TypeOK
<1>4. Ahead(Elements(s_buf), Elements(new))
  <2> DEFINE A == Elements(s_buf)
             B == Elements(new)
  <2>1. A \subseteq 1..made /\ B \subseteq (made + 1)..(made + n) BY <1>2, <1>3
  <2>2. made \in Int /\ n \in Int BY Sizes DEF TypeOK
  <2> HIDE DEF A, B
  <2>3. \A a \in A, b \in B : a < b BY <2>1, <2>2
  <2> QED BY <2>3 DEF Ahead, A, B
<1>5. /\ s_buf' \in Seq(Bytes) /\ Len(s_buf') <= SinkBytes /\ Rising(s_buf')
      /\ Elements(s_buf') \subseteq Elements(s_buf) \cup Elements(new)
  BY <1>1, <1>2, <1>3, <1>4, QueuedFacts, Sizes DEF AllRising, new
<1>6. TypeOK' BY <1>1, <1>5, Sizes DEF TypeOK, feed, stream
<1>7. AllRising' BY <1>1, <1>5 DEF AllRising, feed, stream
<1>8. Past' = Past BY <1>1 DEF Past, feed, stream
<1>9. Stages'
  <2>0. /\ made \in Nat /\ n \in Nat /\ Past \subseteq 1..made /\ Elements(s_buf) \subseteq 1..made
        /\ Ahead(Past, Elements(s_buf))
    BY <1>1, Sizes DEF Stages, TypeOK
  <2>1. Past' \subseteq 1..made' /\ Elements(s_buf') \subseteq 1..made'
    BY <1>1, <1>2, <1>5, <1>8, <2>0
  <2>2. Ahead(Past', Elements(s_buf')) BY <1>1, <1>2, <1>5, <1>8, <2>0 DEF Ahead
  <2> QED BY <1>1, <2>1, <2>2 DEF Stages, feed, stream
<1>10. Holding' BY <1>1 DEF Holding, feed, stream
<1>11. Marked'
  <2>0. /\ made \in Nat /\ n \in Nat \ {0} /\ mark \in Nat /\ mark <= made
        /\ Ahead({mark}, Elements(chunk) \cup Elements(s_buf))
    BY <1>1, Sizes DEF Marked, TypeOK
  <2>1. mark' <= made' BY <1>1, <2>0 DEF stream
  <2>2. Ahead({mark}, Elements(chunk) \cup Elements(s_buf')) BY <1>2, <1>5, <2>0 DEF Ahead
  <2> QED BY <1>1, <2>1, <2>2 DEF Marked, feed, stream
<1> QED BY <1>6, <1>7, <1>9, <1>10, <1>11

LEMMA FeedReadKeeps == IInv /\ FeedRead => IInv'
<1> SUFFICES ASSUME IInv, FeedRead PROVE IInv' OBVIOUS
<1> USE DEF IInv, FeedRead, feed, stream
<1>1. /\ chunk' \in Seq(Bytes) /\ s_buf' \in Seq(Bytes) /\ Len(chunk') <= FeedMax
      /\ Len(s_buf') <= Len(s_buf) /\ chunk' # <<>> /\ Rising(chunk') /\ Rising(s_buf')
      /\ Elements(chunk') \subseteq Elements(s_buf) /\ Elements(s_buf') \subseteq Elements(s_buf)
      /\ Ahead(Elements(chunk'), Elements(s_buf'))
  BY TakenFacts, Sizes DEF TypeOK, AllRising
<1>2. TypeOK' BY <1>1, Sizes DEF TypeOK
<1>3. AllRising' BY <1>1 DEF AllRising
<1>4. chunk = <<>> /\ Elements(chunk) = {} BY NoElements DEF Holding
<1>5. Stages' BY <1>1, <1>4 DEF Stages, Past, Ahead
<1>6. Holding' BY <1>1 DEF Holding
<1>7. Marked' BY <1>1 DEF Marked, Ahead
<1> QED BY <1>2, <1>3, <1>5, <1>6, <1>7

LEMMA MonitorKeeps == IInv /\ Monitor => IInv'
<1> SUFFICES ASSUME IInv, Monitor PROVE IInv' OBVIOUS
<1> USE DEF IInv, Monitor, stream
<1>1. /\ monitored' \in Seq(Bytes) /\ Rising(monitored')
      /\ Elements(monitored') = Elements(monitored) \cup Elements(chunk)
  BY ElementsOfConcat, RisingConcat DEF TypeOK, AllRising, Stages
<1>2. TypeOK' BY <1>1 DEF TypeOK
<1>3. AllRising' BY <1>1 DEF AllRising
<1>4. Stages' BY <1>1 DEF Stages, Past, Ahead
<1>5. Holding' BY DEF Holding
<1>6. Marked' BY DEF Marked
<1> QED BY <1>2, <1>3, <1>4, <1>5, <1>6

LEMMA TeeCasterKeeps == IInv /\ TeeCaster => IInv'
<1> SUFFICES ASSUME IInv, TeeCaster PROVE IInv' OBVIOUS
<1> USE DEF IInv, TeeCaster, stream
<1>0. Ahead(Elements(s_caster_buf), Elements(chunk)) BY DEF Stages, Ahead
<1>1. /\ s_caster_buf' \in Seq(Bytes) /\ Len(s_caster_buf') <= CasterBytes
      /\ Rising(s_caster_buf')
      /\ Elements(s_caster_buf') \subseteq Elements(s_caster_buf) \cup Elements(chunk)
  BY <1>0, QueuedFacts, Sizes DEF TypeOK, AllRising
<1>2. TypeOK' BY <1>1 DEF TypeOK
<1>3. AllRising' BY <1>1 DEF AllRising
<1>4. Stages' BY <1>1 DEF Stages, Past, Ahead
<1>5. Holding' BY DEF Holding
<1>6. Marked' BY DEF Marked
<1> QED BY <1>2, <1>3, <1>4, <1>5, <1>6

LEMMA TeeUpstreamKeeps == IInv /\ TeeUpstream => IInv'
<1> SUFFICES ASSUME IInv, TeeUpstream PROVE IInv' OBVIOUS
<1> USE DEF IInv, TeeUpstream, stream
<1>0. Ahead(Elements(s_upstream_buf), Elements(chunk)) BY DEF Stages, Ahead
<1>1. /\ s_upstream_buf' \in Seq(Bytes) /\ Len(s_upstream_buf') <= UpstreamBytes
      /\ Rising(s_upstream_buf')
      /\ Elements(s_upstream_buf') \subseteq Elements(s_upstream_buf) \cup Elements(chunk)
  BY <1>0, QueuedFacts, Sizes DEF TypeOK, AllRising
<1>2. TypeOK' BY <1>1, NoElements, Sizes DEF TypeOK
<1>3. AllRising' BY <1>1, NoElements DEF AllRising
<1>4. Stages' BY <1>1, NoElements DEF Stages, Past, Ahead
<1>5. Holding' BY DEF Holding
<1>6. Marked' BY <1>1, NoElements DEF Marked, Ahead
<1> QED BY <1>2, <1>3, <1>4, <1>5, <1>6

LEMMA CasterReadKeeps == IInv /\ CasterRead => IInv'
<1> SUFFICES ASSUME IInv, CasterRead PROVE IInv' OBVIOUS
<1> USE DEF IInv, CasterRead, feed, stream
<1> DEFINE t == Taken(s_caster_buf, CasterMax)
<1>1. /\ t \in Seq(Bytes) /\ s_caster_buf' \in Seq(Bytes) /\ Rising(t) /\ Rising(s_caster_buf')
      /\ Len(s_caster_buf') <= Len(s_caster_buf)
      /\ Elements(t) \subseteq Elements(s_caster_buf)
      /\ Elements(s_caster_buf') \subseteq Elements(s_caster_buf)
      /\ Ahead(Elements(t), Elements(s_caster_buf'))
  BY TakenFacts, Sizes DEF TypeOK, AllRising
<1> HIDE DEF t
<1>2. Ahead(Elements(cast), Elements(t)) BY <1>1 DEF Stages, Ahead
<1>3. /\ cast' \in Seq(Bytes) /\ Rising(cast')
      /\ Elements(cast') = Elements(cast) \cup Elements(t)
  BY <1>1, <1>2, ElementsOfConcat, RisingConcat DEF TypeOK, AllRising, t
<1>4. TypeOK' BY <1>1, <1>3, Sizes DEF TypeOK
<1>5. AllRising' BY <1>1, <1>3 DEF AllRising
<1>6. Stages' BY <1>1, <1>3 DEF Stages, Past, Ahead
<1>7. Holding' BY DEF Holding
<1>8. Marked' BY DEF Marked
<1> QED BY <1>4, <1>5, <1>6, <1>7, <1>8
LEMMA ResetKeeps == IInv /\ Reset => IInv'
<1> SUFFICES ASSUME IInv, Reset PROVE IInv' OBVIOUS
<1> USE DEF IInv, Reset, feed
<1>1. Teed \in 0..made /\ Ahead({Teed}, Elements(chunk) \cup Elements(s_buf))
  <2> USE DEF Teed
  <2>1. /\ made \in Nat /\ chunk \in Seq(Bytes) /\ monitored \in Seq(Bytes)
        /\ Elements(chunk) \subseteq 1..made /\ Elements(monitored) \subseteq 1..made
        /\ Elements(s_buf) \subseteq 1..made
    BY Sizes DEF TypeOK, Stages, Past
  <2>2. CASE fpc \in {"caster", "upstream"}
    <3>1. chunk # <<>> /\ 1 \in 1..Len(chunk) BY <2>1, <2>2, EmptySeq DEF Holding
    <3>2. chunk[1] \in Elements(chunk) BY <3>1 DEF Elements
    <3>3. \A x \in Elements(chunk) : chunk[1] <= x
      <4> SUFFICES ASSUME NEW i \in 1..Len(chunk) PROVE chunk[1] <= chunk[i] BY DEF Elements
      <4>1. chunk[1] \in Bytes /\ chunk[i] \in Bytes BY <2>1, <3>1, ElementOfSeq
      <4>2. i = 1 \/ chunk[1] < chunk[i] BY <3>1 DEF AllRising, Rising
      <4> QED BY <4>1, <4>2 DEF Bytes
    <3>4. Ahead(Elements(chunk), Elements(s_buf)) BY DEF Stages, Past, Ahead
    <3>5. Ahead({chunk[1] - 1}, Elements(chunk) \cup Elements(s_buf))
      BY <2>1, <3>2, <3>3, <3>4 DEF Ahead
    <3> QED BY <2>1, <2>2, <3>2, <3>5
  <2>3. CASE ~(fpc \in {"caster", "upstream"}) /\ monitored = <<>>
    BY <2>1, <2>3 DEF Ahead
  <2>4. CASE ~(fpc \in {"caster", "upstream"}) /\ monitored # <<>>
    <3>1. monitored[Len(monitored)] \in Elements(monitored) BY <2>1, <2>4 DEF Elements
    <3>2. Ahead(Elements(monitored), Elements(s_buf)) BY DEF Stages, Past, Ahead
    <3>3. Ahead(Elements(monitored), Elements(chunk))
      <4>1. CASE fpc = "read" BY <4>1, NoElements DEF Holding, Ahead
      <4>2. CASE fpc = "monitor" BY <4>2 DEF Stages
      <4> QED BY <2>4, <4>1, <4>2 DEF TypeOK
    <3> QED BY <2>1, <2>4, <3>1, <3>2, <3>3 DEF Ahead
  <2> QED BY <2>2, <2>3, <2>4
<1>2. mark' \in 0..MaxBytes BY <1>1, Sizes DEF TypeOK
<1>3. TypeOK' BY <1>2, NoElements, Sizes DEF TypeOK
<1>4. AllRising' BY NoElements DEF AllRising
<1>5. Stages' BY NoElements DEF Stages, Past, Ahead
<1>6. Holding' /\ upChunk = <<>> BY DEF Holding
<1>7. Marked' BY <1>1, <1>6, NoElements DEF Marked, Ahead, TypeOK
<1> QED BY <1>3, <1>4, <1>5, <1>6, <1>7

LEMMA UpstreamReadKeeps == IInv /\ UpstreamRead => IInv'
<1> SUFFICES ASSUME IInv, UpstreamRead PROVE IInv' OBVIOUS
<1> USE DEF IInv, UpstreamRead, feed
<1>1. /\ upChunk' \in Seq(Bytes) /\ s_upstream_buf' \in Seq(Bytes) /\ upChunk' # <<>>
      /\ Rising(upChunk') /\ Rising(s_upstream_buf')
      /\ Len(upChunk') <= UpstreamMax /\ Len(s_upstream_buf') <= Len(s_upstream_buf)
      /\ Elements(upChunk') \subseteq Elements(s_upstream_buf)
      /\ Elements(s_upstream_buf') \subseteq Elements(s_upstream_buf)
      /\ Ahead(Elements(upChunk'), Elements(s_upstream_buf'))
  BY TakenFacts, Sizes DEF TypeOK, AllRising
<1>2. TypeOK' BY <1>1, Sizes DEF TypeOK
<1>3. AllRising' BY <1>1 DEF AllRising
<1>4. Stages' BY <1>1 DEF Stages, Past, Ahead
<1>5. Holding' BY <1>1 DEF Holding
<1>6. Marked' BY <1>1 DEF Marked, Ahead
<1> QED BY <1>2, <1>3, <1>4, <1>5, <1>6

\* The chunk goes out, whole or in part.
LEMMA OutKeeps ==
  ASSUME IInv, link = "send", link' \in {"read", "down"},
         NEW n \in 0..Len(upChunk), Out(SubSeq(upChunk, 1, n))
  PROVE  IInv'
<1> USE DEF IInv, feed
<1> DEFINE part == SubSeq(upChunk, 1, n)
<1>1. /\ part \in Seq(Bytes) /\ Rising(part) /\ Elements(part) \subseteq Elements(upChunk)
      /\ (part # <<>> => part[1] \in Elements(part) /\ part[1] \in Bytes)
  <2>1. /\ part \in Seq(Bytes) /\ Rising(part) /\ Elements(part) \subseteq Elements(upChunk)
    <3>1. upChunk \in Seq(Bytes) /\ Rising(upChunk) BY DEF TypeOK, AllRising
    <3>2. 1 \in 1..(Len(upChunk) + 1) BY <3>1
    <3> QED BY <3>1, <3>2, Part
  <2>2. ASSUME part # <<>> PROVE part[1] \in Elements(part) /\ part[1] \in Bytes
    <3> HIDE DEF part
    <3>1. 1 \in 1..Len(part) BY <2>1, <2>2, EmptySeq
    <3> QED BY <2>1, <3>1, ElementOfSeq DEF Elements
  <2> QED BY <2>1, <2>2
<1>2. Out(part) OBVIOUS
<1> HIDE DEF part
<1> USE DEF Out
<1>3. Ahead(Elements(sent), Elements(part)) BY <1>1 DEF Stages, Ahead
<1>4. /\ sent' \in Seq(Bytes) /\ Rising(sent')
      /\ Elements(sent') = Elements(sent) \cup Elements(part)
  <2>1. sent' = sent \o part BY <1>2
  <2>2. sent \in Seq(Bytes) /\ Rising(sent) BY DEF TypeOK, AllRising
  <2> HIDE DEF Out
  <2> QED BY <1>1, <1>3, <2>1, <2>2, ElementsOfConcat, RisingConcat, ConcatProperties
<1>5. first' \in 0..MaxBytes /\ (first' # 0 => first' > mark)
  <2>1. ASSUME part # <<>> PROVE part[1] > mark /\ part[1] \in 0..MaxBytes
    <3>1. part[1] \in Elements(upChunk) /\ part[1] \in Bytes BY <1>1, <2>1
    <3>2. Ahead({mark}, Elements(upChunk)) BY DEF Marked, Ahead
    <3> QED BY <3>1, <3>2 DEF Ahead, Bytes
  <2> QED BY <1>2, <2>1 DEF Marked, TypeOK
<1>6. TypeOK'
  <2>1. upChunk' = <<>> /\ <<>> \in Seq(Bytes) /\ Len(<<>>) <= UpstreamMax
    BY <1>2, NoElements, Sizes
  <2>2. link' \in {"down", "reset", "read", "send"} OBVIOUS
  <2> QED BY <1>2, <1>4, <1>5, <2>1, <2>2 DEF TypeOK
<1>7. AllRising' BY <1>2, <1>4, NoElements DEF AllRising
<1>8. Stages' BY <1>1, <1>2, <1>4, NoElements DEF Stages, Past, Ahead
<1>9. Holding' BY <1>2 DEF Holding
<1>10. Marked' BY <1>2, <1>5, NoElements DEF Marked, Ahead
<1> QED BY <1>6, <1>7, <1>8, <1>9, <1>10

LEMMA SendKeeps == IInv /\ (SendAll \/ SendFails) => IInv'
<1>1. ASSUME IInv, SendAll PROVE IInv'
  <2>1. upChunk \in Seq(Bytes) BY <1>1 DEF IInv, TypeOK
  <2>2. SubSeq(upChunk, 1, Len(upChunk)) = upChunk /\ Len(upChunk) \in 0..Len(upChunk)
    BY <2>1, SubSeqFull
  <2> QED BY <1>1, <2>2, OutKeeps DEF SendAll
<1>2. ASSUME IInv, SendFails PROVE IInv'
  <2>1. PICK n \in 0..(Len(upChunk) - 1) : Out(SubSeq(upChunk, 1, n)) BY <1>2 DEF SendFails
  <2>2. n \in 0..Len(upChunk) BY <1>2 DEF IInv, TypeOK
  <2> QED BY <1>2, <2>1, <2>2, OutKeeps DEF SendFails
<1> QED BY <1>1, <1>2

\* The steps that move no byte.
LEMMA LinkKeeps == IInv /\ (CasterStart \/ Connected \/ ForcedDrop \/ UNCHANGED vars) => IInv'
BY DEF CasterStart, Connected, ForcedDrop, vars, feed, stream,
       IInv, TypeOK, AllRising, Stages, Holding, Marked, Past

LEMMA IInvNext == IInv /\ [Next]_vars => IInv'
BY DataCbKeeps, FeedReadKeeps, MonitorKeeps, TeeCasterKeeps, TeeUpstreamKeeps,
   CasterReadKeeps, ResetKeeps, UpstreamReadKeeps, SendKeeps, LinkKeeps
   DEF Next, FeedTask, StreamLoop
-----------------------------------------------------------------------------
(* What the code promises, for every size *)

LEMMA IInvAlways == Spec => []IInv
BY IInvInit, IInvNext, PTL DEF Spec

\* Every variable keeps its type and no stream buffer, chunk or read exceeds
\* its size (rtcm_sink.c:40-112, app_main.c:45-56).
THEOREM TypeCorrect == Spec => []TypeOK
BY IInvAlways, PTL DEF IInv

\* A connection carries only bytes the upstream tee was offered after the reset
\* of that connection (upstream.c:267-310, rtcm_sink.c:100-112).
THEOREM NothingStale == Spec => []FreshLink
<1>1. IInv => FreshLink
  <2> SUFFICES ASSUME IInv, link \in {"read", "send"}
               PROVE  /\ \A b \in Elements(upChunk \o s_upstream_buf) : b > mark
                      /\ first # 0 => first > mark
    BY DEF FreshLink
  <2>1. Elements(upChunk \o s_upstream_buf) = Elements(upChunk) \cup Elements(s_upstream_buf)
    BY ElementsOfConcat DEF IInv, TypeOK
  <2> QED BY <2>1 DEF IInv, Marked, Ahead
<1> QED BY <1>1, IInvAlways, PTL

-----------------------------------------------------------------------------
(* Each consumer sees a lossy FIFO *)

\* What a hand-over of newer bytes looks like to the consumer.
LEMMA HandedOver ==
  ASSUME NEW g \in Seq(Bytes), NEW p \in Seq(Bytes), p # <<>>, NEW m,
         Elements(g \o p) \subseteq 1..m
  PROVE  /\ Len(g \o p) > Len(g) /\ SubSeq(g \o p, 1, Len(g)) = g
         /\ \A i \in 1..Len(g \o p) : (g \o p)[i] \in 1..m
<1>1. Len(g \o p) = Len(g) + Len(p) /\ Len(p) \in Nat \ {0} BY EmptySeq, ConcatProperties
<1>2. SubSeq(g \o p, 1, Len(g)) = g
  <2>1. CASE g = <<>> BY <2>1, SubSeqEmpty, ConcatProperties
  <2>2. CASE g # <<>>
    <3>1. 1 \in 1..Len(g) /\ Len(g) \in 1..Len(g) BY <2>2, EmptySeq
    <3> QED BY <3>1, SubSeqOfConcat1, SubSeqFull
  <2> QED BY <2>1, <2>2
<1> QED BY <1>1, <1>2 DEF Elements

\* Only new bytes of the receiver change "made", and they reach nobody at once.
LEMMA Arrival ==
  IInv /\ DataCb => /\ made \in Nat /\ made' \in Nat /\ made' > made
                   /\ UNCHANGED <<monitored, cast, sent>>
BY Sizes DEF IInv, TypeOK, DataCb

LEMMA MonitorFeedStep == IInv /\ [Next]_vars => [MonitorFeed!Next]_<<made, monitored>>
<1> SUFFICES ASSUME IInv, [Next]_vars PROVE [MonitorFeed!Next]_<<made, monitored>> OBVIOUS
<1>1. CASE DataCb BY <1>1, Arrival DEF MonitorFeed!Next, MonitorFeed!Receive
<1>2. CASE Monitor
  <2>1. /\ monitored \in Seq(Bytes) /\ chunk \in Seq(Bytes) /\ chunk # <<>>
        /\ made' = made /\ monitored' = monitored \o chunk
    BY <1>2 DEF IInv, TypeOK, Holding, Monitor
  <2>2. IInv' BY <1>2, MonitorKeeps
  <2>3. Elements(monitored') \subseteq 1..made /\ Rising(monitored')
    BY <2>1, <2>2 DEF IInv, Stages, Past, AllRising
  <2> QED BY <2>1, <2>3, HandedOver
          DEF MonitorFeed!Next, MonitorFeed!Deliver, MonitorFeed!Increasing, Rising
<1>3. CASE ~DataCb /\ ~Monitor
  BY <1>3 DEF Next, FeedTask, StreamLoop, FeedRead, TeeCaster, TeeUpstream, CasterStart,
     CasterRead, Connected, Reset, UpstreamRead, SendAll, SendFails, Out, ForcedDrop, vars
<1> QED BY <1>1, <1>2, <1>3

LEMMA CasterTapStep == IInv /\ [Next]_vars => [CasterTap!Next]_<<made, cast>>
<1> SUFFICES ASSUME IInv, [Next]_vars PROVE [CasterTap!Next]_<<made, cast>> OBVIOUS
<1>1. CASE DataCb BY <1>1, Arrival DEF CasterTap!Next, CasterTap!Receive
<1>2. CASE CasterRead
  <2> DEFINE t == Taken(s_caster_buf, CasterMax)
  <2>1. t \in Seq(Bytes) /\ t # <<>>
    BY <1>2, TakenFacts, Sizes DEF IInv, TypeOK, CasterRead
  <2>2. cast \in Seq(Bytes) /\ made' = made /\ cast' = cast \o t
    BY <1>2 DEF IInv, TypeOK, CasterRead
  <2> HIDE DEF t
  <2>3. IInv' BY <1>2, CasterReadKeeps
  <2>4. Elements(cast') \subseteq 1..made /\ Rising(cast')
    BY <2>2, <2>3 DEF IInv, Stages, Past, AllRising
  <2> QED BY <2>1, <2>2, <2>4, HandedOver
          DEF CasterTap!Next, CasterTap!Deliver, CasterTap!Increasing, Rising
<1>3. CASE ~DataCb /\ ~CasterRead
  BY <1>3 DEF Next, FeedTask, StreamLoop, FeedRead, Monitor, TeeCaster, TeeUpstream,
     CasterStart, Connected, Reset, UpstreamRead, SendAll, SendFails, Out, ForcedDrop, vars
<1> QED BY <1>1, <1>2, <1>3

LEMMA UpstreamTapStep == IInv /\ [Next]_vars => [UpstreamTap!Next]_<<made, sent>>
<1> SUFFICES ASSUME IInv, [Next]_vars PROVE [UpstreamTap!Next]_<<made, sent>> OBVIOUS
<1>1. CASE DataCb BY <1>1, Arrival DEF UpstreamTap!Next, UpstreamTap!Receive
<1>2. CASE SendAll \/ SendFails
  <2>1. upChunk \in Seq(Bytes) /\ sent \in Seq(Bytes) BY DEF IInv, TypeOK
  <2>2. PICK n \in 0..Len(upChunk) : Out(SubSeq(upChunk, 1, n))
    <3>1. CASE SendAll
      <4>1. SubSeq(upChunk, 1, Len(upChunk)) = upChunk BY <2>1, SubSeqFull
      <4>2. Len(upChunk) \in 0..Len(upChunk) BY <2>1
      <4>3. Out(SubSeq(upChunk, 1, Len(upChunk))) BY <3>1, <4>1 DEF SendAll
      <4> QED BY <4>2, <4>3
    <3>2. CASE SendFails BY <2>1, <3>2 DEF SendFails
    <3> QED BY <1>2, <3>1, <3>2
  <2> DEFINE part == SubSeq(upChunk, 1, n)
  <2>3. part \in Seq(Bytes)
    <3>1. 1 \in 1..(Len(upChunk) + 1) BY <2>1
    <3> QED BY <2>1, <3>1, Part
  <2>4. made' = made /\ sent' = sent \o part BY <2>2 DEF Out
  <2> HIDE DEF part
  <2>5. IInv' BY <1>2, SendKeeps
  <2>6. Elements(sent') \subseteq 1..made /\ Rising(sent')
    BY <2>4, <2>5 DEF IInv, Stages, Past, AllRising
  <2>7. CASE part = <<>> BY <2>1, <2>4, <2>7, ConcatEmptySeq
  <2>8. CASE part # <<>>
    BY <2>1, <2>3, <2>4, <2>6, <2>8, HandedOver
       DEF UpstreamTap!Next, UpstreamTap!Deliver, UpstreamTap!Increasing, Rising
  <2> QED BY <2>7, <2>8
<1>3. CASE ~DataCb /\ ~SendAll /\ ~SendFails
  BY <1>3 DEF Next, FeedTask, StreamLoop, FeedRead, Monitor, TeeCaster, TeeUpstream,
     CasterStart, CasterRead, Connected, Reset, UpstreamRead, ForcedDrop, vars
<1> QED BY <1>1, <1>2, <1>3

\* The data path implements the lossy FIFO three times over: whatever is dropped
\* at a full buffer, wherever the reset falls and however often the link breaks,
\* monitor, caster and cloud each get bytes in order of arrival, none twice.
THEOREM Fifos == Spec => ConsumersAreFifos
<1>1. Init => MonitorFeed!Init /\ CasterTap!Init /\ UpstreamTap!Init
  BY DEF Init, MonitorFeed!Init, CasterTap!Init, UpstreamTap!Init
<1>2. Spec => MonitorFeed!Spec
  BY <1>1, IInvAlways, MonitorFeedStep, PTL DEF Spec, MonitorFeed!Spec
<1>3. Spec => CasterTap!Spec
  BY <1>1, IInvAlways, CasterTapStep, PTL DEF Spec, CasterTap!Spec
<1>4. Spec => UpstreamTap!Spec
  BY <1>1, IInvAlways, UpstreamTapStep, PTL DEF Spec, UpstreamTap!Spec
<1> QED BY <1>2, <1>3, <1>4 DEF ConsumersAreFifos
=============================================================================
