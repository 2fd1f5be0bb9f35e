-------------------------- MODULE CmdChannelProofs ---------------------------
(***************************************************************************)
(* Theorems about module CmdChannel, for any number of callers and any     *)
(* sizes: the capture does not outlive the calls, buffers and replies keep *)
(* to their bounds although nothing locks them, and a call that no other   *)
(* one overlapped returns no reply to an earlier command.                  *)
(***************************************************************************)
EXTENDS CmdChannel, FiniteSetTheorems, SequenceTheorems, TLAPS

(* The capture flag *)

\* Some call that will still clear the flag is behind every capture, although
\* not always the one that set it.
Capturing == {"send", "drain", "blocked", "woken", "done"}
CaptureInv ==
  /\ DOMAIN cpc = Callers
  /\ s_cmd_capture \in BOOLEAN
  /\ s_cmd_capture => \E c \in Callers : cpc[c] \in Capturing

LEMMA CaptureStep == CaptureInv /\ [Next]_vars => CaptureInv'
<1> SUFFICES ASSUME CaptureInv, [Next]_vars PROVE CaptureInv' OBVIOUS
<1> USE DEF CaptureInv, Capturing, shared, calls
<1>1. CASE UNCHANGED vars BY <1>1 DEF vars
<1>2. CASE OpenItf \/ CloseItf \/ Arrive \/ TestCapture \/ Push
  BY <1>2 DEF OpenItf, CloseItf, Arrive, TestCapture, Push
<1>3. CASE Tee
  <2>1. s_cmd_capture' = s_cmd_capture BY <1>3 DEF Tee
  <2>2. \/ cpc' = cpc
        \/ cpc' = [c \in Callers |-> IF c = waiting[s_cmd_rx] THEN "woken" ELSE cpc[c]]
    BY <1>3 DEF Tee
  <2> QED BY <2>1, <2>2
<1>4. CASE Restart BY <1>4 DEF Restart, Reboot
<1>5. ASSUME NEW c \in Callers, Begin(c) \/ TestBuffer(c) \/ CreateBuffer(c) \/ ResetBuffer(c)
      PROVE  CaptureInv'
  <2>1. s_cmd_capture' = s_cmd_capture
    BY <1>5 DEF Begin, TestBuffer, CreateBuffer, ResetBuffer
  <2>2. cpc[c] \notin Capturing /\ \E next : cpc' = [cpc EXCEPT ![c] = next]
    BY <1>5 DEF Begin, TestBuffer, CreateBuffer, ResetBuffer, Goto
  <2> QED BY <2>1, <2>2
<1>6. ASSUME NEW c \in Callers, StartCapture(c) PROVE CaptureInv'
  BY <1>6 DEF StartCapture, Goto
<1>7. ASSUME NEW c \in Callers, ~Restart,
             SendCommand(c) \/ Drain(c) \/ Timeout(c) \/ Wake(c) \/ ReplyFull(c)
      PROVE  CaptureInv'
  <2>1. s_cmd_capture' = s_cmd_capture
    BY <1>7 DEF SendCommand, Drain, Timeout, Wake, ReplyFull
  <2>2. cpc' = cpc \/ \E next \in Capturing : cpc' = [cpc EXCEPT ![c] = next]
    BY <1>7 DEF SendCommand, Drain, Timeout, Wake, ReplyFull, Goto
  <2> QED BY <2>1, <2>2
<1>8. ASSUME NEW c \in Callers, StopCapture(c) PROVE CaptureInv'
  BY <1>8 DEF StopCapture, Returned, Goto
<1>9. ASSUME NEW c \in Callers, DrainAborts(c) PROVE CaptureInv'
  BY <1>4, <1>9 DEF DrainAborts
<1> QED BY <1>1, <1>2, <1>3, <1>4, <1>5, <1>6, <1>7, <1>8, <1>9 DEF Next, DataCb, Step

\* However the calls overlap, time out or fail, nothing is captured once the
\* last of them has returned.
THEOREM CaptureEnds == Spec => []CaptureQuiet
<1>1. Init => CaptureInv BY DEF Init, CaptureInv, Reboot
<1>2. CaptureInv => CaptureQuiet BY DEF CaptureInv, Capturing, CaptureQuiet, Active
<1> QED BY <1>1, <1>2, CaptureStep, PTL DEF Spec

-----------------------------------------------------------------------------
(* The buffers and the calls *)

Chunks == Callers \cup {NoCaller}
Creating == {c \in Callers : cpc[c] = "create"}
HasBuffer == {"reset", "capture", "send", "drain", "blocked", "woken", "done"}

\* Every call past the test has a buffer to work on, a task that is blocked is
\* the one the buffer knows, and the callers that are about to create a buffer
\* and the buffers created are no more than the callers: a caller creates one
\* only if it found none, and none is ever removed.
CallInv ==
  /\ TypeOK
  /\ buf \in [Buffers -> Seq(Chunks)]
  /\ s_cmd_rx = Null => created = 0
  /\ created + Cardinality(Creating) <= Cardinality(Callers)
  /\ \A c \in Callers : cpc[c] \in HasBuffer => s_cmd_rx # Null
  /\ \A c \in Callers : cpc[c] \in {"blocked", "woken"} => reading[c] # Null
  /\ \A b \in Buffers : waiting[b] # NoCaller =>
       cpc[waiting[b]] = "blocked" /\ reading[waiting[b]] = b
  /\ dpc = "tee" => s_cmd_rx # Null

LEMMA CallersAre ==
  /\ IsFiniteSet(Callers) /\ Cardinality(Callers) \in Nat
  /\ \A S \in SUBSET Callers : /\ IsFiniteSet(S) /\ Cardinality(S) \in Nat
                               /\ Cardinality(S) <= Cardinality(Callers)
                               /\ \A c \in S : Cardinality(S \ {c}) = Cardinality(S) - 1
<1>1. IsFiniteSet(Callers) /\ Cardinality(Callers) \in Nat
  BY CallerAssumption, FS_CardinalityType
<1>2. ASSUME NEW S \in SUBSET Callers
      PROVE  /\ IsFiniteSet(S) /\ Cardinality(S) \in Nat /\ Cardinality(S) <= Cardinality(Callers)
             /\ \A c \in S : Cardinality(S \ {c}) = Cardinality(S) - 1
  <2>1. IsFiniteSet(S) /\ Cardinality(S) <= Cardinality(Callers) BY <1>1, FS_Subset
  <2> QED BY <2>1, FS_CardinalityType, FS_RemoveElement
<1> QED BY <1>1, <1>2

\* No call is about to create a buffer that was not before.
LEMMA CreatesNoMore ==
  ASSUME CallInv, created' = created, Creating' \subseteq Creating
  PROVE  (created + Cardinality(Creating) <= Cardinality(Callers))'
<1>1. Creating \in SUBSET Callers /\ IsFiniteSet(Creating) /\ Cardinality(Creating) \in Nat
  BY CallersAre DEF Creating
<1>2. Creating' \in SUBSET Callers BY DEF Creating
<1>3. Cardinality(Creating') <= Cardinality(Creating) /\ Cardinality(Creating') \in Nat
  BY <1>1, <1>2, CallersAre, FS_Subset
<1>4. created \in Nat /\ Cardinality(Callers) \in Nat /\ created + Cardinality(Creating) <= Cardinality(Callers)
  BY CallersAre DEF CallInv, TypeOK
<1> QED BY <1>1, <1>3, <1>4

LEMMA CallInit == Init => CallInv
<1> SUFFICES ASSUME Init PROVE CallInv OBVIOUS
<1>1. Creating = {} BY DEF Creating, Init, Reboot
<1>2. Cardinality(Creating) = 0 BY <1>1, FS_EmptySet
<1>3. <<>> \in Seq(Chunks) /\ Len(<<>>) = 0 BY EmptySeq
<1>4. TypeOK
  <2>1. 0 \in 0..Cardinality(Callers) /\ 0 \in 0..0 /\ 0 \in 0..ReplyMax /\ 0 \in Nat
    BY CallersAre, SizeAssumption
  <2>2. \A b \in Buffers : buf[b] = <<>> BY DEF Init
  <2>3. \A b \in Buffers : buf[b] \in Seq(Chunks) /\ Len(buf[b]) <= RxBytes
    <3>1. 0 <= RxBytes BY SizeAssumption
    <3> QED BY <1>3, <2>2, <3>1, Zenon
  <2>4. waiting \in [Buffers -> Chunks] /\ chunk \in Chunks BY DEF Init, Chunks
  <2>5. /\ reading = [c \in Callers |-> 0] /\ got = [c \in Callers |-> 0]
        /\ stale = [c \in Callers |-> 0] /\ cpc = [c \in Callers |-> "idle"]
        /\ closed = [c \in Callers |-> FALSE] /\ alone = [c \in Callers |-> FALSE]
        /\ created = 0 /\ s_cmd_rx = 0 /\ s_cdc = FALSE /\ s_cmd_capture = FALSE /\ dpc = "idle"
    BY DEF Init, Reboot, Null
  <2> QED BY <2>1, <2>3, <2>4, <2>5 DEF TypeOK, Chunks
<1>5. buf \in [Buffers -> Seq(Chunks)] BY <1>3 DEF Init
<1> QED BY <1>2, <1>4, <1>5, CallersAre DEF Init, CallInv, Reboot, HasBuffer

\* Everything but the handle and the callback is as it was.
LEMMA CallSame ==
  ASSUME CallInv, UNCHANGED <<shared, cpc, reading, got>>, (s_cdc \in BOOLEAN)',
         (closed \in [Callers -> BOOLEAN])', (dpc \in {"idle", "test", "tee", "push"})',
         (chunk \in Chunks)', (dpc = "tee" => s_cmd_rx # Null)', UNCHANGED history
  PROVE  CallInv'
<1>1. Creating' = Creating BY DEF Creating
<1>2. (created + Cardinality(Creating) <= Cardinality(Callers))' BY <1>1, CreatesNoMore DEF shared
<1>3. TypeOK' BY DEF CallInv, TypeOK, Chunks, shared, history
<1> QED BY <1>2, <1>3 DEF CallInv, shared

LEMMA CallTee == ASSUME CallInv, Tee PROVE CallInv'
<1> DEFINE b == s_cmd_rx
           w == waiting[b]
<1>1. /\ dpc = "tee" /\ dpc' = "push"
      /\ UNCHANGED <<s_cdc, s_cmd_rx, s_cmd_capture, created, reading, closed, got, chunk, history>>
  BY DEF Tee
<1>2. b \in Buffers /\ b \in 1..created
  BY <1>1, CallersAre DEF CallInv, TypeOK, Null, Buffers
<1>3. CASE UNCHANGED <<buf, waiting, cpc>>
  <2>1. (dpc \in {"idle", "test", "tee", "push"})' /\ (dpc = "tee" => s_cmd_rx # Null)' BY <1>1
  <2> QED BY <1>1, <1>3, <2>1, CallSame DEF CallInv, TypeOK, Chunks, shared
<1>4. CASE /\ Len(buf[b]) < RxBytes
           /\ buf' = [buf EXCEPT ![b] = Append(@, chunk)]
           /\ waiting' = [waiting EXCEPT ![b] = NoCaller]
           /\ cpc' = [c \in Callers |-> IF c = w THEN "woken" ELSE cpc[c]]
  <2> DEFINE s == buf[b]
             t == Append(s, chunk)
  <2>1. s \in Seq(Chunks) /\ chunk \in Chunks BY <1>2 DEF CallInv, TypeOK, Chunks
  <2>2. t \in Seq(Chunks) /\ Len(t) = Len(s) + 1 /\ Len(s) \in Nat
    BY <2>1, AppendProperties, LenProperties
  <2>3. Len(t) <= RxBytes BY <1>4, <2>2, SizeAssumption
  <2> HIDE DEF t
  <2>4. buf' \in [Buffers -> Seq(Chunks)] /\ \A x \in Buffers : Len(buf'[x]) <= RxBytes
    BY <1>2, <1>4, <2>2, <2>3 DEF CallInv, TypeOK, t
  <2>5. waiting' \in [Buffers -> Chunks] /\ \A x \in Buffers : waiting'[x] = IF x = b THEN NoCaller ELSE waiting[x]
    BY <1>2, <1>4 DEF CallInv, TypeOK, Chunks
  <2>6. \A c \in Callers : /\ cpc'[c] = IF c = w THEN "woken" ELSE cpc[c]
                           /\ c = w => cpc[c] = "blocked" /\ reading[c] = b
    BY <1>2, <1>4, CallerAssumption DEF CallInv, TypeOK, Chunks
  <2>7. cpc' \in [Callers -> {"idle", "buffer", "create", "reset", "capture", "send", "drain",
                              "blocked", "woken", "done"}]
    BY <1>4 DEF CallInv, TypeOK
  <2>8. Creating' \subseteq Creating BY <2>6 DEF Creating
  <2>9. (created + Cardinality(Creating) <= Cardinality(Callers))' BY <1>1, <2>8, CreatesNoMore
  <2>10. TypeOK'
    <3>1. \A x \in Buffers : buf'[x] \in Seq(Chunks) /\ Len(buf'[x]) <= RxBytes BY <2>4
    <3>2. TypeOK BY DEF CallInv
    <3> QED BY <1>1, <2>5, <2>7, <3>1, <3>2 DEF TypeOK, Chunks, history
  <2>11. \A c \in Callers : cpc'[c] \in HasBuffer => s_cmd_rx' # Null
    BY <1>1, <2>6 DEF CallInv, HasBuffer
  <2>12. \A c \in Callers : cpc'[c] \in {"blocked", "woken"} => reading'[c] # Null
    BY <1>1, <2>6 DEF CallInv
  <2>13. \A x \in Buffers : waiting'[x] # NoCaller =>
           cpc'[waiting'[x]] = "blocked" /\ reading'[waiting'[x]] = x
    <3> SUFFICES ASSUME NEW x \in Buffers, waiting'[x] # NoCaller
                 PROVE  cpc'[waiting'[x]] = "blocked" /\ reading'[waiting'[x]] = x
      OBVIOUS
    <3>1. x # b /\ waiting'[x] = waiting[x] /\ waiting[x] \in Callers BY <2>5 DEF Chunks
    <3>2. cpc[waiting[x]] = "blocked" /\ reading[waiting[x]] = x BY <3>1, CallerAssumption DEF CallInv
    <3>3. waiting[x] # w BY <2>6, <3>1, <3>2
    <3> QED BY <1>1, <2>6, <3>1, <3>2, <3>3
  <2> QED BY <1>1, <2>4, <2>9, <2>10, <2>11, <2>12, <2>13 DEF CallInv
<1> QED BY <1>3, <1>4 DEF Tee

LEMMA CallRestart == ASSUME Restart PROVE CallInv'
<1>1. Init' BY DEF Restart, Init
<1>2. (Init => CallInv)' BY CallInit, PTL
<1> QED BY <1>1, <1>2

Steps == {"idle", "buffer", "create", "reset", "capture", "send", "drain", "blocked", "woken", "done"}

\* A step of c that neither creates a buffer nor waits on one.
Moves(c, next) ==
  /\ next \in Steps \ {"create", "blocked", "woken"} /\ cpc[c] # "blocked"
  /\ next \in HasBuffer => s_cmd_rx # Null
  /\ Goto(c, next)
  /\ UNCHANGED <<s_cdc, s_cmd_rx, created, waiting, callback>>
  /\ s_cmd_capture' \in BOOLEAN
  /\ buf' \in [Buffers -> Seq(Chunks)] /\ \A b \in Buffers : Len(buf'[b]) <= RxBytes
  /\ reading' \in [Callers -> 0..created] /\ \A d \in Callers : d # c => reading'[d] = reading[d]
  /\ closed' \in [Callers -> BOOLEAN] /\ got' \in [Callers -> 0..ReplyMax]
  /\ alone' \in [Callers -> BOOLEAN] /\ stale' \in [Callers -> Nat]

LEMMA CallMoves ==
  ASSUME CallInv, NEW c \in Callers, NEW next, Moves(c, next)
  PROVE  CallInv'
<1>1. /\ next \in Steps \ {"create", "blocked", "woken"} /\ cpc[c] # "blocked"
      /\ cpc \in [Callers -> Steps] /\ cpc' = [cpc EXCEPT ![c] = next]
      /\ UNCHANGED <<s_cdc, s_cmd_rx, created, waiting, dpc, chunk>>
  BY DEF Moves, Goto, callback, CallInv, TypeOK, Steps
<1>2. cpc' \in [Callers -> Steps] /\ \A d \in Callers : cpc'[d] = IF d = c THEN next ELSE cpc[d]
  BY <1>1
<1>3. Creating' \subseteq Creating BY <1>1, <1>2 DEF Creating
<1>4. (created + Cardinality(Creating) <= Cardinality(Callers))' BY <1>1, <1>3, CreatesNoMore
<1>5. TypeOK'
  <2>1. \A b \in Buffers : buf'[b] \in Seq(Chunks) /\ Len(buf'[b]) <= RxBytes BY DEF Moves
  <2>2. TypeOK BY DEF CallInv
  <2> QED BY <1>1, <1>2, <2>1, <2>2 DEF Moves, TypeOK, Chunks, Steps
<1>6. \A d \in Callers : cpc'[d] \in HasBuffer => s_cmd_rx' # Null
  BY <1>1, <1>2 DEF Moves, CallInv
<1>7. \A d \in Callers : cpc'[d] \in {"blocked", "woken"} => reading'[d] # Null
  BY <1>1, <1>2 DEF Moves, CallInv
<1>8. \A b \in Buffers : waiting'[b] # NoCaller =>
        cpc'[waiting'[b]] = "blocked" /\ reading'[waiting'[b]] = b
  <2> SUFFICES ASSUME NEW b \in Buffers, waiting[b] # NoCaller
               PROVE  cpc'[waiting[b]] = "blocked" /\ reading'[waiting[b]] = b
    BY <1>1
  <2>1. waiting[b] \in Callers BY DEF CallInv, TypeOK
  <2>2. cpc[waiting[b]] = "blocked" /\ reading[waiting[b]] = b BY DEF CallInv
  <2> QED BY <1>1, <1>2, <2>1, <2>2 DEF Moves
<1> QED BY <1>1, <1>4, <1>5, <1>6, <1>7, <1>8 DEF CallInv, Moves

\* What a receive leaves behind, and what it has received, is within the sizes.
LEMMA TakeFits ==
  ASSUME CallInv, NEW c \in Callers, NEW b \in Buffers, Take(c, b)
  PROVE  /\ buf' \in [Buffers -> Seq(Chunks)] /\ \A x \in Buffers : Len(buf'[x]) <= RxBytes
         /\ got' \in [Callers -> 0..ReplyMax] /\ stale' \in [Callers -> Nat]
         /\ Fits(c, b) \in 0..Len(buf[b])
         /\ buf'[b] = SubSeq(buf[b], Fits(c, b) + 1, Len(buf[b]))
         /\ \A d \in Callers : d # c => stale'[d] = stale[d]
         /\ stale'[c] = IF alone[c] THEN stale[c] + Cardinality({i \in 1..Fits(c, b) : buf[b][i] # c})
                        ELSE 0
<1> DEFINE n == Fits(c, b)
           s == buf[b]
           m == Len(s)
           r == SubSeq(s, n + 1, m)
<1>1. s \in Seq(Chunks) /\ m \in Nat /\ m <= RxBytes /\ got[c] \in 0..ReplyMax /\ ReplyMax \in Nat
  BY LenProperties, SizeAssumption DEF CallInv, TypeOK
<1>2. n = IF m < ReplyMax - got[c] THEN m ELSE ReplyMax - got[c] BY DEF Fits
<1>3. n \in 0..m /\ got[c] + n \in 0..ReplyMax
  <2> HIDE DEF n, m
  <2> QED BY <1>1, <1>2
<1> HIDE DEF n
<1>4. r \in Seq(Chunks) /\ Len(r) <= RxBytes
  <2>1. \A i \in (n + 1)..m : s[i] \in Chunks
    <3>1. \A i \in (n + 1)..m : i \in 1..m BY <1>1, <1>3
    <3> QED BY <1>1, <3>1, ElementOfSeq
  <2>2. n + 1 \in Int /\ m \in Int BY <1>1, <1>3
  <2> HIDE DEF m
  <2>3. r \in Seq(Chunks) /\ Len(r) = IF n + 1 <= m THEN m - (n + 1) + 1 ELSE 0
    BY <2>1, <2>2, SubSeqProperties
  <2>4. (IF n + 1 <= m THEN m - (n + 1) + 1 ELSE 0) <= RxBytes BY <1>1, <1>3, SizeAssumption
  <2> QED BY <2>3, <2>4
<1>5. buf' = [buf EXCEPT ![b] = r] BY DEF Take, n
<1> HIDE DEF r
<1>6. /\ buf' \in [Buffers -> Seq(Chunks)] /\ buf'[b] = r
      /\ \A x \in Buffers : Len(buf'[x]) <= RxBytes
  BY <1>4, <1>5 DEF CallInv, TypeOK
<1>7. got' = [got EXCEPT ![c] = got[c] + n] BY DEF Take, Received, n
<1>8. got' \in [Callers -> 0..ReplyMax] BY <1>3, <1>7 DEF CallInv, TypeOK
<1> DEFINE k == Cardinality({i \in 1..n : s[i] # c})
<1>9. k \in Nat
  <2>1. IsFiniteSet(1..n) /\ {i \in 1..n : s[i] # c} \subseteq 1..n BY <1>3, FS_Interval
  <2> QED BY <2>1, FS_Subset, FS_CardinalityType
<1>10. stale' = [stale EXCEPT ![c] = IF alone[c] THEN stale[c] + k ELSE 0] BY DEF Take, n
<1> HIDE DEF k
<1>11. stale \in [Callers -> Nat] BY DEF CallInv, TypeOK
<1>12. /\ stale' \in [Callers -> Nat] /\ \A d \in Callers : d # c => stale'[d] = stale[d]
       /\ stale'[c] = IF alone[c] THEN stale[c] + k ELSE 0
  BY <1>9, <1>10, <1>11
<1> QED BY <1>3, <1>6, <1>8, <1>12 DEF n, r, k

LEMMA CallCreate ==
  ASSUME CallInv, NEW c \in Callers, cpc[c] = "buffer", s_cmd_rx = Null, Goto(c, "create"),
         UNCHANGED <<s_cdc, shared, reading, closed, got, callback, history>>
  PROVE  CallInv'
<1>1. cpc \in [Callers -> Steps] /\ created = 0 BY DEF CallInv, TypeOK, Steps
<1>2. cpc' \in [Callers -> Steps] /\ \A d \in Callers : cpc'[d] = IF d = c THEN "create" ELSE cpc[d]
  BY <1>1 DEF Goto, Steps
<1>3. Creating' \in SUBSET Callers BY DEF Creating
<1>4. created' + Cardinality(Creating') <= Cardinality(Callers)
  BY <1>1, <1>3, CallersAre DEF shared
<1>5. TypeOK' BY <1>2 DEF CallInv, TypeOK, Steps, shared, callback, history
<1>6. \A b \in Buffers : waiting'[b] # NoCaller =>
        cpc'[waiting'[b]] = "blocked" /\ reading'[waiting'[b]] = b
  <2> SUFFICES ASSUME NEW b \in Buffers, waiting[b] # NoCaller
               PROVE  cpc'[waiting[b]] = "blocked" /\ reading[waiting[b]] = b
    BY DEF shared
  <2>1. waiting[b] \in Callers BY DEF CallInv, TypeOK
  <2>2. cpc[waiting[b]] = "blocked" /\ reading[waiting[b]] = b BY DEF CallInv
  <2> QED BY <1>2, <2>1, <2>2
<1>7. /\ \A d \in Callers : cpc'[d] \in HasBuffer => s_cmd_rx' # Null
      /\ \A d \in Callers : cpc'[d] \in {"blocked", "woken"} => reading'[d] # Null
      /\ dpc' = "tee" => s_cmd_rx' # Null
  BY <1>2 DEF CallInv, HasBuffer, shared, callback
<1> QED BY <1>1, <1>4, <1>5, <1>6, <1>7 DEF CallInv, shared

\* Of the callers that found no buffer, each creates one.
LEMMA CallCreated == ASSUME CallInv, NEW c \in Callers, CreateBuffer(c) PROVE CallInv'
<1>1. /\ cpc[c] = "create" /\ created' = created + 1 /\ s_cmd_rx' = created' /\ Goto(c, "reset")
      /\ UNCHANGED <<s_cdc, s_cmd_capture, buf, waiting, reading, closed, got, dpc, chunk, alone, stale>>
  BY DEF CreateBuffer, callback, history
<1>2. cpc \in [Callers -> Steps] /\ created \in Nat /\ created + Cardinality(Creating) <= Cardinality(Callers)
  BY CallersAre DEF CallInv, TypeOK, Steps
<1>3. cpc' \in [Callers -> Steps] /\ \A d \in Callers : cpc'[d] = IF d = c THEN "reset" ELSE cpc[d]
  BY <1>1, <1>2 DEF Goto, Steps
<1>4. Creating \in SUBSET Callers /\ c \in Creating /\ Creating' = Creating \ {c}
  BY <1>1, <1>3 DEF Creating
<1>5. /\ Cardinality(Creating') = Cardinality(Creating) - 1
      /\ Cardinality(Creating) \in Nat /\ Cardinality(Creating') \in Nat
      /\ Cardinality(Callers) \in Nat
  <2>1. Creating' \in SUBSET Callers BY <1>4
  <2> QED BY <1>4, <2>1, CallersAre
<1>6. created' + Cardinality(Creating') <= Cardinality(Callers) /\ created' \in 1..Cardinality(Callers)
  BY <1>1, <1>2, <1>5
<1>7. s_cmd_rx' \in 0..created' /\ s_cmd_rx' # Null BY <1>1, <1>6 DEF Null
<1>8. reading' \in [Callers -> 0..created']
  <2>1. reading \in [Callers -> 0..created] BY DEF CallInv, TypeOK
  <2>2. 0..created \subseteq 0..created' BY <1>1, <1>2
  <2> QED BY <1>1, <2>1, <2>2
<1>9. TypeOK'
  <2>1. TypeOK BY DEF CallInv
  <2>2. created' \in 0..Cardinality(Callers) BY <1>6
  <2> QED BY <1>1, <1>3, <1>7, <1>8, <2>1, <2>2 DEF TypeOK, Steps
<1>10. \A b \in Buffers : waiting'[b] # NoCaller =>
        cpc'[waiting'[b]] = "blocked" /\ reading'[waiting'[b]] = b
  <2> SUFFICES ASSUME NEW b \in Buffers, waiting[b] # NoCaller
               PROVE  cpc'[waiting[b]] = "blocked" /\ reading[waiting[b]] = b
    BY <1>1
  <2>1. waiting[b] \in Callers BY DEF CallInv, TypeOK
  <2>2. cpc[waiting[b]] = "blocked" /\ reading[waiting[b]] = b BY DEF CallInv
  <2> QED BY <1>1, <1>3, <2>1, <2>2
<1>11. \A d \in Callers : cpc'[d] \in {"blocked", "woken"} => reading'[d] # Null
  BY <1>1, <1>3 DEF CallInv
<1> QED BY <1>1, <1>6, <1>7, <1>9, <1>10, <1>11 DEF CallInv

LEMMA CallBlocks ==
  ASSUME CallInv, NEW c \in Callers, cpc[c] = "drain", waiting[s_cmd_rx] = NoCaller,
         waiting' = [waiting EXCEPT ![s_cmd_rx] = c],
         reading' = [reading EXCEPT ![c] = s_cmd_rx], Goto(c, "blocked"),
         UNCHANGED <<s_cdc, s_cmd_rx, s_cmd_capture, created, buf, closed, got, callback, history>>
  PROVE  CallInv'
<1>1. /\ TypeOK /\ cpc \in [Callers -> Steps] /\ s_cmd_rx # Null /\ s_cmd_rx \in 0..created
      /\ reading \in [Callers -> 0..created] /\ waiting \in [Buffers -> Callers \cup {NoCaller}]
  BY DEF CallInv, TypeOK, Steps, HasBuffer
<1>2. s_cmd_rx \in Buffers BY <1>1, CallersAre DEF TypeOK, Buffers, Null
<1>3. cpc' \in [Callers -> Steps] /\ \A d \in Callers : cpc'[d] = IF d = c THEN "blocked" ELSE cpc[d]
  BY <1>1 DEF Goto, Steps
<1>4. /\ reading' \in [Callers -> 0..created]
      /\ \A d \in Callers : reading'[d] = IF d = c THEN s_cmd_rx ELSE reading[d]
  BY <1>1
<1>5. /\ waiting' \in [Buffers -> Callers \cup {NoCaller}]
      /\ \A b \in Buffers : waiting'[b] = IF b = s_cmd_rx THEN c ELSE waiting[b]
  BY <1>1, <1>2
<1>6. TypeOK' BY <1>1, <1>3, <1>4, <1>5 DEF TypeOK, Steps, callback, history
<1>7. Creating' \subseteq Creating BY <1>3 DEF Creating
<1>8. (created + Cardinality(Creating) <= Cardinality(Callers))' BY <1>7, CreatesNoMore
<1>9. \A b \in Buffers : waiting'[b] # NoCaller =>
        cpc'[waiting'[b]] = "blocked" /\ reading'[waiting'[b]] = b
  <2> SUFFICES ASSUME NEW b \in Buffers, waiting'[b] # NoCaller
               PROVE  cpc'[waiting'[b]] = "blocked" /\ reading'[waiting'[b]] = b
    OBVIOUS
  <2>1. CASE b = s_cmd_rx BY <1>3, <1>4, <1>5, <2>1
  <2>2. CASE b # s_cmd_rx
    <3>1. waiting'[b] = waiting[b] /\ waiting[b] \in Callers BY <1>1, <1>5, <2>2
    <3>2. cpc[waiting[b]] = "blocked" /\ reading[waiting[b]] = b BY <3>1, CallerAssumption DEF CallInv
    <3>3. waiting[b] # c BY <3>2
    <3> QED BY <1>3, <1>4, <3>1, <3>2, <3>3
  <2> QED BY <2>1, <2>2
<1>10. /\ \A d \in Callers : cpc'[d] \in HasBuffer => s_cmd_rx' # Null
       /\ \A d \in Callers : cpc'[d] \in {"blocked", "woken"} => reading'[d] # Null
  BY <1>1, <1>3, <1>4 DEF CallInv
<1> QED BY <1>6, <1>8, <1>9, <1>10 DEF CallInv, callback

LEMMA CallTimeout == ASSUME CallInv, NEW c \in Callers, Timeout(c) PROVE CallInv'
<1>1. /\ cpc[c] = "blocked" /\ Goto(c, "woken")
      /\ waiting' = [b \in Buffers |-> IF waiting[b] = c THEN NoCaller ELSE waiting[b]]
      /\ UNCHANGED <<s_cdc, s_cmd_rx, s_cmd_capture, created, buf, reading, closed, got, dpc, chunk, alone, stale>>
  BY DEF Timeout, callback, history
<1>2. TypeOK /\ cpc \in [Callers -> Steps] /\ waiting \in [Buffers -> Callers \cup {NoCaller}]
  BY DEF CallInv, TypeOK, Steps
<1>3. cpc' \in [Callers -> Steps] /\ \A d \in Callers : cpc'[d] = IF d = c THEN "woken" ELSE cpc[d]
  BY <1>1, <1>2 DEF Goto, Steps
<1>4. waiting' \in [Buffers -> Callers \cup {NoCaller}] BY <1>1, <1>2
<1>5. TypeOK' BY <1>1, <1>2, <1>3, <1>4 DEF TypeOK, Steps
<1>6. Creating' \subseteq Creating BY <1>3 DEF Creating
<1>7. (created + Cardinality(Creating) <= Cardinality(Callers))' BY <1>1, <1>6, CreatesNoMore
<1>8. \A b \in Buffers : waiting'[b] # NoCaller =>
        cpc'[waiting'[b]] = "blocked" /\ reading'[waiting'[b]] = b
  <2> SUFFICES ASSUME NEW b \in Buffers, waiting'[b] # NoCaller
               PROVE  cpc'[waiting'[b]] = "blocked" /\ reading'[waiting'[b]] = b
    OBVIOUS
  <2>1. waiting'[b] = waiting[b] /\ waiting[b] # c /\ waiting[b] \in Callers BY <1>1, <1>2
  <2>2. cpc[waiting[b]] = "blocked" /\ reading[waiting[b]] = b BY <2>1, CallerAssumption DEF CallInv
  <2> QED BY <1>1, <1>3, <2>1, <2>2
<1>9. /\ \A d \in Callers : cpc'[d] \in HasBuffer => s_cmd_rx' # Null
      /\ \A d \in Callers : cpc'[d] \in {"blocked", "woken"} => reading'[d] # Null
  BY <1>1, <1>3 DEF CallInv, HasBuffer
<1> QED BY <1>1, <1>5, <1>7, <1>8, <1>9 DEF CallInv

\* The buffer a call works on exists.
LEMMA BufferIsThere ==
  ASSUME CallInv, NEW c \in Callers
  PROVE  /\ cpc[c] \in HasBuffer => s_cmd_rx \in Buffers
         /\ cpc[c] \in {"blocked", "woken"} => reading[c] \in Buffers
<1>1. /\ s_cmd_rx \in 0..created /\ reading[c] \in 0..created /\ created \in 0..Cardinality(Callers)
      /\ Cardinality(Callers) \in Nat
      /\ cpc[c] \in HasBuffer => s_cmd_rx # 0
      /\ cpc[c] \in {"blocked", "woken"} => reading[c] # 0
  BY CallersAre DEF CallInv, TypeOK, Null
<1>2. \A x \in 0..created : x # 0 => x \in 1..Cardinality(Callers) BY <1>1
<1> QED BY <1>1, <1>2 DEF Buffers

LEMMA CallNext == CallInv /\ [Next]_vars => CallInv'
<1> SUFFICES ASSUME CallInv, [Next]_vars PROVE CallInv' OBVIOUS
<1>0. /\ TypeOK /\ cpc \in [Callers -> Steps] /\ s_cdc \in BOOLEAN /\ s_cmd_capture \in BOOLEAN
      /\ buf \in [Buffers -> Seq(Chunks)] /\ \A b \in Buffers : Len(buf[b]) <= RxBytes
      /\ reading \in [Callers -> 0..created] /\ closed \in [Callers -> BOOLEAN]
      /\ got \in [Callers -> 0..ReplyMax] /\ alone \in [Callers -> BOOLEAN]
      /\ stale \in [Callers -> Nat] /\ dpc \in {"idle", "test", "tee", "push"} /\ chunk \in Chunks
      /\ 0 \in 0..ReplyMax /\ 0 \in Nat
      /\ dpc = "tee" => s_cmd_rx # Null
  BY SizeAssumption DEF CallInv, TypeOK, Steps, Chunks
<1>1. CASE UNCHANGED vars
  <2>1. /\ UNCHANGED <<shared, cpc, reading, got, history>>
        /\ s_cdc' = s_cdc /\ closed' = closed /\ dpc' = dpc /\ chunk' = chunk
    BY <1>1 DEF vars, calls, callback
  <2>2. s_cmd_rx' = s_cmd_rx BY <2>1 DEF shared
  <2>3. /\ s_cdc' \in BOOLEAN /\ closed' \in [Callers -> BOOLEAN]
        /\ dpc' \in {"idle", "test", "tee", "push"} /\ chunk' \in Chunks
        /\ dpc' = "tee" => s_cmd_rx' # Null
    BY <1>0, <2>1, <2>2
  <2> QED BY <2>1, <2>3, CallSame
<1>2. CASE OpenItf \/ CloseItf \/ Arrive \/ TestCapture \/ Push
  <2>1. UNCHANGED <<shared, cpc, reading, got, history>> /\ s_cdc' \in BOOLEAN
    BY <1>0, <1>2 DEF OpenItf, CloseItf, Arrive, TestCapture, Push, calls
  <2>2. closed' \in [Callers -> BOOLEAN]
    <3>1. CASE CloseItf
      <4>1. \A c \in Callers : (closed[c] \/ cpc[c] \in BeforeSend) \in BOOLEAN OBVIOUS
      <4> QED BY <3>1, <4>1 DEF CloseItf
    <3>2. CASE OpenItf \/ Arrive \/ TestCapture \/ Push
      BY <1>0, <3>2 DEF OpenItf, Arrive, TestCapture, Push, calls
    <3> QED BY <1>2, <3>1, <3>2
  <2>3. dpc' \in {"idle", "test", "tee", "push"} /\ (dpc' = "tee" => s_cmd_rx' # Null)
    BY <1>0, <1>2 DEF OpenItf, CloseItf, Arrive, TestCapture, Push, callback, shared
  <2>4. chunk' \in Chunks
    <3>1. (\E c \in Callers : Listens(c)) => (CHOOSE c \in Callers : Listens(c)) \in Callers OBVIOUS
    <3> QED BY <1>0, <1>2, <3>1 DEF OpenItf, CloseItf, Arrive, TestCapture, Push, callback, Chunks
  <2> QED BY <2>1, <2>2, <2>3, <2>4, CallSame
<1>3. CASE Tee BY <1>3, CallTee
<1>4. ASSUME NEW c \in Callers, Begin(c) PROVE CallInv'
  <2>1. alone' \in [Callers -> BOOLEAN]
    <3>1. \A d \in Callers : (IF d = c THEN Active = {} ELSE alone[d] /\ d \notin Active) \in BOOLEAN
      BY <1>0
    <3> QED BY <1>4, <3>1 DEF Begin
  <2>2. stale' \in [Callers -> Nat] BY <1>4 DEF Begin, Reboot
  <2>3. Moves(c, "buffer")
    BY <1>0, <1>4, <2>1, <2>2 DEF Begin, Moves, Steps, HasBuffer, shared, callback
  <2> QED BY <2>3, CallMoves
<1>5. ASSUME NEW c \in Callers, TestBuffer(c) PROVE CallInv'
  <2>1. CASE s_cmd_rx = Null BY <1>5, <2>1, CallCreate DEF TestBuffer
  <2>2. CASE s_cmd_rx # Null
    <3>1. Moves(c, "reset")
      BY <1>0, <1>5, <2>2 DEF TestBuffer, Moves, Steps, shared, history
    <3> QED BY <3>1, CallMoves
  <2> QED BY <2>1, <2>2
<1>6. ASSUME NEW c \in Callers, CreateBuffer(c) PROVE CallInv' BY <1>6, CallCreated
<1>7. ASSUME NEW c \in Callers, ResetBuffer(c) PROVE CallInv'
  <2>1. cpc[c] = "reset" /\ s_cmd_rx # Null BY <1>7 DEF ResetBuffer, CallInv, HasBuffer
  <2>2. <<>> \in Seq(Chunks) /\ Len(<<>>) <= RxBytes
    <3>1. 0 <= RxBytes BY SizeAssumption
    <3> QED BY <3>1, EmptySeq
  <2>3. buf' = buf \/ buf' = [buf EXCEPT ![s_cmd_rx] = <<>>] BY <1>7 DEF ResetBuffer
  <2>4. buf' \in [Buffers -> Seq(Chunks)] /\ \A b \in Buffers : Len(buf'[b]) <= RxBytes
    <3>1. CASE buf' = buf BY <1>0, <3>1
    <3>2. CASE buf' = [buf EXCEPT ![s_cmd_rx] = <<>>]
      <4>1. \A b \in Buffers : buf'[b] = <<>> \/ buf'[b] = buf[b] BY <1>0, <3>2
      <4>2. DOMAIN buf' = Buffers /\ buf' = [b \in Buffers |-> buf'[b]] BY <1>0, <3>2
      <4> QED BY <1>0, <2>2, <4>1, <4>2
    <3> QED BY <2>3, <3>1, <3>2
  <2>5. Moves(c, "capture")
    BY <1>0, <1>7, <2>1, <2>4 DEF ResetBuffer, Moves, Steps, history
  <2> QED BY <2>5, CallMoves
<1>8. ASSUME NEW c \in Callers, StartCapture(c) PROVE CallInv'
  <2>1. cpc[c] = "capture" /\ s_cmd_rx # Null BY <1>8 DEF StartCapture, CallInv, HasBuffer
  <2>2. Moves(c, "send") BY <1>0, <1>8, <2>1 DEF StartCapture, Moves, Steps, history
  <2> QED BY <2>2, CallMoves
<1>9. CASE Restart BY <1>9, CallRestart
<1>10. ASSUME NEW c \in Callers, SendCommand(c) PROVE CallInv'
  <2>1. cpc[c] = "send" /\ s_cmd_rx # Null BY <1>10 DEF SendCommand, CallInv, HasBuffer
  <2>2. CASE ~Restart
    <3>1. /\ Goto(c, "drain") /\ closed' = [closed EXCEPT ![c] = FALSE]
          /\ UNCHANGED <<s_cdc, shared, reading, got, callback, history>>
      BY <1>10, <2>2 DEF SendCommand
    <3>2. closed' \in [Callers -> BOOLEAN] BY <1>0, <3>1
    <3>3. Moves(c, "drain") BY <1>0, <2>1, <3>1, <3>2 DEF Moves, Steps, shared, history
    <3> QED BY <3>3, CallMoves
  <2> QED BY <1>9, <2>2
<1>11. ASSUME NEW c \in Callers, Drain(c) PROVE CallInv'
  <2>1. cpc[c] = "drain" /\ s_cmd_rx # Null /\ s_cmd_rx \in Buffers
    BY <1>11, BufferIsThere DEF Drain, CallInv, HasBuffer
  <2>2. CASE buf[s_cmd_rx] /= <<>>
    <3>1. Take(c, s_cmd_rx) /\ UNCHANGED <<cpc, reading, waiting, s_cdc, s_cmd_rx, s_cmd_capture,
                                           created, closed, callback, alone>>
      BY <1>11, <2>2 DEF Drain
    <3>2. /\ buf' \in [Buffers -> Seq(Chunks)] /\ \A x \in Buffers : Len(buf'[x]) <= RxBytes
          /\ got' \in [Callers -> 0..ReplyMax] /\ stale' \in [Callers -> Nat]
      BY <2>1, <3>1, TakeFits
    <3>3. Goto(c, "drain") BY <1>0, <2>1, <3>1 DEF Goto
    <3>4. Moves(c, "drain") BY <1>0, <2>1, <3>1, <3>2, <3>3 DEF Moves, Steps
    <3> QED BY <3>4, CallMoves
  <2>3. CASE buf[s_cmd_rx] = <<>> BY <1>11, <2>3, CallBlocks DEF Drain, history
  <2> QED BY <2>2, <2>3
<1>12. ASSUME NEW c \in Callers, DrainAborts(c) PROVE CallInv' BY <1>9, <1>12 DEF DrainAborts
<1>13. ASSUME NEW c \in Callers, Timeout(c) PROVE CallInv' BY <1>13, CallTimeout
<1>14. ASSUME NEW c \in Callers, Wake(c) PROVE CallInv'
  <2>1. cpc[c] = "woken" /\ s_cmd_rx # Null /\ reading[c] \in Buffers
    BY <1>14, BufferIsThere DEF Wake, CallInv, HasBuffer
  <2>2. reading' = [reading EXCEPT ![c] = Null]
        /\ UNCHANGED <<s_cdc, s_cmd_rx, s_cmd_capture, created, waiting, closed, callback, alone>>
    BY <1>14 DEF Wake
  <2>3. reading' \in [Callers -> 0..created] /\ \A d \in Callers : d # c => reading'[d] = reading[d]
    <3>1. Null \in 0..created BY CallersAre DEF Null, CallInv, TypeOK
    <3> QED BY <1>0, <2>2, <3>1
  <2>4. CASE buf[reading[c]] /= <<>>
    <3>1. Take(c, reading[c]) /\ Goto(c, "drain") BY <1>14, <2>4 DEF Wake
    <3>2. /\ buf' \in [Buffers -> Seq(Chunks)] /\ \A x \in Buffers : Len(buf'[x]) <= RxBytes
          /\ got' \in [Callers -> 0..ReplyMax] /\ stale' \in [Callers -> Nat]
      BY <2>1, <3>1, TakeFits
    <3>3. Moves(c, "drain") BY <1>0, <2>1, <2>2, <2>3, <3>1, <3>2 DEF Moves, Steps
    <3> QED BY <3>3, CallMoves
  <2>5. CASE buf[reading[c]] = <<>>
    <3>1. Goto(c, "done") /\ UNCHANGED <<buf, got, stale>> BY <1>14, <2>5 DEF Wake
    <3>2. Moves(c, "done") BY <1>0, <2>1, <2>2, <2>3, <3>1 DEF Moves, Steps
    <3> QED BY <3>2, CallMoves
  <2> QED BY <2>4, <2>5
<1>15. ASSUME NEW c \in Callers, ReplyFull(c) PROVE CallInv'
  <2>1. cpc[c] = "drain" /\ s_cmd_rx # Null BY <1>15 DEF ReplyFull, CallInv, HasBuffer
  <2>2. Moves(c, "done") BY <1>0, <1>15, <2>1 DEF ReplyFull, Moves, Steps, shared, history
  <2> QED BY <2>2, CallMoves
<1>16. ASSUME NEW c \in Callers, StopCapture(c) PROVE CallInv'
  <2>1. /\ closed' \in [Callers -> BOOLEAN] /\ got' \in [Callers -> 0..ReplyMax]
        /\ stale' \in [Callers -> Nat] /\ alone' \in [Callers -> BOOLEAN]
    BY <1>0, <1>16 DEF StopCapture, Returned
  <2>2. Moves(c, "idle")
    BY <1>0, <1>16, <2>1 DEF StopCapture, Returned, Moves, Steps, HasBuffer
  <2> QED BY <2>2, CallMoves
<1> QED BY <1>1, <1>2, <1>3, <1>4, <1>5, <1>6, <1>7, <1>8, <1>10, <1>11, <1>12, <1>13,
           <1>14, <1>15, <1>16 DEF Next, DataCb, Step

\* Without a lock around it, the lazy creation of the capture buffer makes no
\* more buffers than there are callers, no step of a call meets a missing one,
\* and no reply exceeds the buffer of its caller (usb_cdc_source.c:210-240).
THEOREM CallTypes == Spec => []TypeOK
<1>1. CallInv => TypeOK BY DEF CallInv
<1> QED BY <1>1, CallInit, CallNext, PTL DEF Spec

-----------------------------------------------------------------------------
(* The replies *)

\* Chunks of s that arrived for another call, or for none
Old(s, c) == Cardinality({i \in 1..Len(s) : s[i] # c})
Held(c) == IF dpc \in {"test", "tee"} /\ chunk # c THEN 1 ELSE 0
\* Past its reset, the old chunks a lone call has received, those in the buffer
\* and the one the callback may hold are one at most.
ReplyInv ==
  \A c \in Callers : alone[c] =>
    /\ Active = {c}
    /\ IF cpc[c] \in {"buffer", "create", "reset"} THEN stale[c] = 0
       ELSE stale[c] + Old(buf[s_cmd_rx], c) + Held(c) <= 1
    /\ cpc[c] \in {"blocked", "woken"} => reading[c] = s_cmd_rx

LEMMA OldFinite ==
  ASSUME NEW s \in Seq(Chunks), NEW c, NEW a \in Int, NEW b \in Int
  PROVE  /\ IsFiniteSet({i \in a..b : s[i] # c}) /\ Cardinality({i \in a..b : s[i] # c}) \in Nat
         /\ Old(s, c) \in Nat
<1>1. ASSUME NEW x \in Int, NEW y \in Int
      PROVE  IsFiniteSet({i \in x..y : s[i] # c}) /\ Cardinality({i \in x..y : s[i] # c}) \in Nat
  <2>1. IsFiniteSet(x..y) /\ {i \in x..y : s[i] # c} \subseteq x..y BY FS_Interval
  <2> QED BY <2>1, FS_Subset, FS_CardinalityType
<1>2. Len(s) \in Int /\ 1 \in Int BY LenProperties
<1>3. Cardinality({i \in 1..Len(s) : s[i] # c}) \in Nat BY <1>1, <1>2
<1>4. Old(s, c) \in Nat BY <1>3 DEF Old
<1> QED BY <1>1, <1>4

LEMMA OldEmpty == ASSUME NEW c PROVE Old(<<>>, c) = 0
<1>1. {i \in 1..Len(<<>>) : <<>>[i] # c} = {} BY EmptySeq
<1> QED BY <1>1, FS_EmptySet DEF Old

LEMMA OldAppend ==
  ASSUME NEW s \in Seq(Chunks), NEW c, NEW x \in Chunks
  PROVE  Old(Append(s, x), c) = IF x # c THEN Old(s, c) + 1 ELSE Old(s, c)
<1> DEFINE t == Append(s, x)
           A == {i \in 1..Len(s) : s[i] # c}
           n == Len(s) + 1
<1>1. /\ Len(t) = n /\ Len(s) \in Nat
      /\ \A i \in 1..Len(s) : t[i] = s[i]
      /\ t[n] = x
  BY AppendProperties, LenProperties
<1> HIDE DEF t
<1>2. {i \in 1..Len(t) : t[i] # c} = IF x # c THEN A \cup {n} ELSE A
  <2>1. \A i : i \in 1..Len(t) <=> i \in 1..Len(s) \/ i = n BY <1>1
  <2> QED BY <1>1, <2>1
<1>3. IsFiniteSet(A) /\ n \notin A
  <2>1. Len(s) \in Int /\ 1 \in Int BY <1>1
  <2>2. IsFiniteSet(A) BY <2>1, OldFinite
  <2>3. n \notin 1..Len(s) BY <1>1
  <2> QED BY <2>2, <2>3
<1> HIDE DEF A, n
<1>4. Cardinality(A \cup {n}) = Cardinality(A) + 1 BY <1>3, FS_AddElement
<1>5. Old(t, c) = Cardinality(IF x # c THEN A \cup {n} ELSE A) BY <1>2 DEF Old
<1>6. Old(s, c) = Cardinality(A) BY DEF Old, A
<1> QED BY <1>4, <1>5, <1>6 DEF t

\* What is taken from the front and what is left are what was there.
LEMMA OldTaken ==
  ASSUME NEW s \in Seq(Chunks), NEW c, NEW n \in 0..Len(s)
  PROVE  Cardinality({i \in 1..n : s[i] # c}) + Old(SubSeq(s, n + 1, Len(s)), c) = Old(s, c)
<1> DEFINE m == Len(s)
           r == SubSeq(s, n + 1, m)
           A == {i \in 1..n : s[i] # c}
           B == {i \in (n + 1)..m : s[i] # c}
           C == {i \in 1..Len(r) : r[i] # c}
           f == [i \in C |-> n + i]
<1>1. m \in Nat /\ n \in Nat /\ n <= m BY LenProperties
<1>2. r \in Seq(Chunks) /\ Len(r) = m - n /\ \A i \in 1..(m - n) : r[i] = s[n + i]
  <2>1. \A i \in (n + 1)..m : s[i] \in Chunks
    <3>1. \A i \in (n + 1)..m : i \in 1..m BY <1>1
    <3> QED BY <3>1, ElementOfSeq
  <2>2. n + 1 \in Int /\ m \in Int BY <1>1
  <2> DEFINE y == n + 1
  <2>3. (IF y <= m THEN m - y + 1 ELSE 0) = m - n /\ m - y + 1 = m - n
        /\ \A i \in 1..(m - n) : y + i - 1 = n + i
    BY <1>1
  <2> HIDE DEF m, y
  <2>4. /\ SubSeq(s, y, m) \in Seq(Chunks) /\ Len(SubSeq(s, y, m)) = IF y <= m THEN m - y + 1 ELSE 0
        /\ \A i \in 1..(m - y + 1) : SubSeq(s, y, m)[i] = s[y + i - 1]
    BY <2>1, <2>2, SubSeqProperties DEF y
  <2> QED BY <2>3, <2>4 DEF y
<1> HIDE DEF m, r
<1>3. IsFiniteSet(A) /\ IsFiniteSet(B) /\ IsFiniteSet(C)
  <2>1. 1 \in Int /\ n \in Int /\ n + 1 \in Int /\ m \in Int /\ Len(r) \in Int BY <1>1, <1>2
  <2> QED BY <1>2, <2>1, OldFinite
<1>4. f \in Bijection(C, B)
  <2>1. \A i \in C : n + i \in B
    <3> TAKE i \in C
    <3>1. i \in 1..(m - n) /\ n + i \in (n + 1)..m BY <1>1, <1>2
    <3> QED BY <1>2, <3>1
  <2>2. \A j \in B : j - n \in C /\ f[j - n] = j
    <3> TAKE j \in B
    <3>1. j - n \in 1..(m - n) /\ n + (j - n) = j BY <1>1
    <3>2. r[j - n] = s[j] BY <1>2, <3>1
    <3> QED BY <1>2, <3>1, <3>2
  <2>3. f \in [C -> B] BY <2>1
  <2>4. \A i, j \in C : f[i] = f[j] => i = j
    <3> TAKE i, j \in C
    <3>1. i \in Int /\ j \in Int /\ f[i] = n + i /\ f[j] = n + j BY <1>2
    <3> HIDE DEF f
    <3> QED BY <1>1, <3>1
  <2>5. \A j \in B : \E i \in C : f[i] = j BY <2>2
  <2> HIDE DEF B, C, f
  <2>6. f \in Injection(C, B) BY <2>3, <2>4 DEF Injection, IsInjective
  <2>7. f \in Surjection(C, B) BY <2>3, <2>5 DEF Surjection
  <2> QED BY <2>6, <2>7 DEF Bijection
<1>5. Cardinality(B) = Cardinality(C)
  <2> HIDE DEF B, C, f
  <2>1. ExistsBijection(C, B) BY <1>4 DEF ExistsBijection
  <2> QED BY <1>3, <2>1, FS_Bijection
<1>6. {i \in 1..m : s[i] # c} = A \cup B /\ A \cap B = {}
  <2>1. \A i : i \in 1..m <=> i \in 1..n \/ i \in (n + 1)..m BY <1>1
  <2>2. \A i : ~(i \in 1..n /\ i \in (n + 1)..m) BY <1>1
  <2> QED BY <2>1, <2>2
<1> HIDE DEF B, C
<1>7. Cardinality(A \cup B) = Cardinality(A) + Cardinality(B)
  <2> HIDE DEF A
  <2>1. Cardinality(A \cup B) = Cardinality(A) + Cardinality(B) - Cardinality(A \cap B)
    BY <1>3, FS_Union
  <2>2. Cardinality(A \cap B) = 0 BY <1>6, FS_EmptySet
  <2>3. Cardinality(A) \in Nat /\ Cardinality(B) \in Nat BY <1>3, FS_CardinalityType
  <2> QED BY <2>1, <2>2, <2>3
<1>8. Old(s, c) = Cardinality(A \cup B) BY <1>6 DEF Old, m
<1>9. Old(r, c) = Cardinality(C) BY DEF Old, C
<1> QED BY <1>5, <1>7, <1>8, <1>9 DEF r, m, A

\* What the invariant says of one call.
Recent(c) ==
  /\ Active = {c}
  /\ IF cpc[c] \in {"buffer", "create", "reset"} THEN stale[c] = 0
     ELSE stale[c] + Old(buf[s_cmd_rx], c) + Held(c) <= 1
  /\ cpc[c] \in {"blocked", "woken"} => reading[c] = s_cmd_rx

\* A receive moves old chunks from the buffer to the reply.
LEMMA TakeKeeps ==
  ASSUME CallInv, NEW c \in Callers, s_cmd_rx \in Buffers, alone[c], Take(c, s_cmd_rx)
  PROVE  stale'[c] + Old(buf'[s_cmd_rx], c) = stale[c] + Old(buf[s_cmd_rx], c)
<1> DEFINE b == s_cmd_rx
           s == buf[b]
           n == Fits(c, b)
           k == Cardinality({i \in 1..n : s[i] # c})
           r == SubSeq(s, n + 1, Len(s))
<1>1. n \in 0..Len(s) /\ buf'[b] = r /\ stale'[c] = stale[c] + k BY TakeFits
<1>2. s \in Seq(Chunks) /\ stale[c] \in Nat BY DEF CallInv, TypeOK
<1> HIDE DEF s, n
<1>3. k + Old(r, c) = Old(s, c) BY <1>1, <1>2, OldTaken
<1>4. k \in Nat /\ Old(s, c) \in Nat
  <2>1. 1 \in Int /\ n \in Int BY <1>1, <1>2, LenProperties
  <2> QED BY <1>2, <2>1, OldFinite
<1>5. Old(r, c) \in Int
  <2>1. \A i \in (n + 1)..Len(s) : s[i] \in Chunks
    <3>1. \A i \in (n + 1)..Len(s) : i \in 1..Len(s) BY <1>1, <1>2, LenProperties
    <3> QED BY <1>2, <3>1, ElementOfSeq
  <2>2. n + 1 \in Int /\ Len(s) \in Int BY <1>1, <1>2, LenProperties
  <2>3. r \in Seq(Chunks) BY <2>1, <2>2, SubSeqProperties
  <2>4. 1 \in Int OBVIOUS
  <2> HIDE DEF r
  <2>5. Old(r, c) \in Nat BY <2>3, <2>4, OldFinite
  <2> QED BY <2>5
<1> HIDE DEF k, r
<1>6. stale'[c] + Old(r, c) = stale[c] + Old(s, c) BY <1>1, <1>2, <1>3, <1>4, <1>5
<1> QED BY <1>1, <1>6 DEF s

LEMMA ReplyCallback ==
  ASSUME CallInv, ReplyInv, OpenItf \/ CloseItf \/ Arrive \/ DataCb, NEW c \in Callers, alone'[c]
  PROVE  Recent(c)'
<1>1. alone[c] /\ stale' = stale /\ reading' = reading /\ s_cmd_rx' = s_cmd_rx
  BY DEF OpenItf, CloseItf, Arrive, DataCb, TestCapture, Tee, Push, calls, history, shared
<1>2. Recent(c) BY <1>1 DEF ReplyInv, Recent
<1>3. cpc \in [Callers -> Steps] /\ stale[c] \in Nat BY DEF CallInv, TypeOK, Steps
<1>4. CASE ~Tee
  <2>1. UNCHANGED <<cpc, buf>>
    BY <1>4 DEF OpenItf, CloseItf, Arrive, DataCb, TestCapture, Push, calls, shared
  <2>2. Active' = {c} BY <1>2, <2>1 DEF Recent, Active
  <2>3. cpc[c] \notin {"buffer", "create", "reset"} => Held(c)' <= Held(c)
    <3>1. CASE Arrive
      <4> HAVE cpc[c] \notin {"buffer", "create", "reset"}
      <4>1. Listens(c) BY <1>1 DEF Listens
      <4>2. \A d \in Callers : Listens(d) => d = c
        <5> SUFFICES ASSUME NEW d \in Callers, Listens(d) PROVE d = c OBVIOUS
        <5>1. alone[d] BY DEF Listens
        <5>2. Active = {d} BY <5>1 DEF ReplyInv
        <5> QED BY <1>2, <5>2 DEF Recent
      <4>3. (CHOOSE d \in Callers : Listens(d)) = c BY <4>1, <4>2
      <4>4. chunk' = c BY <3>1, <4>1, <4>3 DEF Arrive
      <4> QED BY <4>4 DEF Held
    <3>2. CASE OpenItf \/ CloseItf BY <3>2 DEF OpenItf, CloseItf, callback, Held
    <3>3. CASE TestCapture BY <3>3 DEF TestCapture, Held
    <3>4. CASE Push BY <3>4 DEF Push, Held
    <3> QED BY <1>4, <3>1, <3>2, <3>3, <3>4 DEF DataCb
  <2>4. cpc[c] \notin {"buffer", "create", "reset"} =>
          stale'[c] + Old(buf'[s_cmd_rx'], c) + Held(c)' <= 1
    <3> HAVE cpc[c] \notin {"buffer", "create", "reset"}
    <3> DEFINE o == stale[c] + Old(buf[s_cmd_rx], c)
    <3>1. o + Held(c) <= 1 BY <1>2 DEF Recent
    <3>2. Held(c)' \in {0, 1} /\ Held(c) \in {0, 1} BY DEF Held
    <3>3. o \in Int
      <4>1. cpc[c] \in HasBuffer BY <1>2, <1>3 DEF Recent, Active, Steps, HasBuffer
      <4>2. buf[s_cmd_rx] \in Seq(Chunks) BY <4>1, BufferIsThere DEF CallInv
      <4>3. 1 \in Int OBVIOUS
      <4>4. Old(buf[s_cmd_rx], c) \in Nat BY <4>2, <4>3, OldFinite
      <4> QED BY <1>3, <4>4
    <3>4. stale'[c] + Old(buf'[s_cmd_rx'], c) = o BY <1>1, <2>1
    <3>5. Held(c)' <= Held(c) BY <2>3
    <3> DEFINE h == Held(c)
               hh == Held(c)'
    <3>6. o \in Int /\ h \in {0, 1} /\ hh \in {0, 1} /\ o + h <= 1 /\ hh <= h BY <3>1, <3>2, <3>3, <3>5
    <3> HIDE DEF o, h, hh
    <3>7. o + hh <= 1 BY <3>6
    <3> QED BY <3>4, <3>7 DEF hh
  <2> QED BY <1>1, <1>2, <2>1, <2>2, <2>4 DEF Recent
<1>5. CASE Tee
  <2> DEFINE b == s_cmd_rx
             s == buf[b]
             w == waiting[b]
  <2>1. b \in Buffers /\ s \in Seq(Chunks) /\ chunk \in Chunks
    <3>1. dpc = "tee" /\ s_cmd_rx # Null BY <1>5 DEF Tee, CallInv
    <3>2. s_cmd_rx \in 0..created /\ created \in 0..Cardinality(Callers) /\ chunk \in Chunks
      BY DEF CallInv, TypeOK, Chunks
    <3>3. b \in Buffers BY <3>1, <3>2, CallersAre DEF Null, Buffers
    <3>4. buf \in [Buffers -> Seq(Chunks)] BY DEF CallInv
    <3> QED BY <3>2, <3>3, <3>4
  <2>2. \A d \in Callers : d = w => cpc[d] = "blocked" /\ reading[d] = b
    BY <2>1, CallerAssumption DEF CallInv
  <2>3. \A d \in Callers : cpc'[d] = cpc[d] \/ (cpc[d] = "blocked" /\ cpc'[d] = "woken")
    BY <1>5, <2>2 DEF Tee
  <2>4. Active' = {c}
    <3>1. Active' = Active BY <2>3 DEF Active
    <3> QED BY <1>2, <3>1 DEF Recent
  <2>5. Held(c)' = 0 /\ dpc = "tee" BY <1>5 DEF Tee, Held
  <2>6. s \in Seq(Chunks) /\ Old(s, c) \in Nat
    <3>1. 1 \in Int OBVIOUS
    <3> QED BY <2>1, <3>1, OldFinite
  <2>7. Old(buf'[b], c) \in Int /\ Old(buf'[b], c) <= Old(s, c) + Held(c)
    <3>1. CASE buf' = buf
      <4>1. Held(c) \in {0, 1} BY DEF Held
      <4> QED BY <2>6, <3>1, <4>1
    <3>2. CASE buf' = [buf EXCEPT ![b] = Append(@, chunk)]
      <4>1. buf'[b] = Append(s, chunk) BY <2>1, <3>2 DEF CallInv
      <4>2. Old(buf'[b], c) = IF chunk # c THEN Old(s, c) + 1 ELSE Old(s, c)
        BY <2>1, <4>1, OldAppend
      <4>3. Held(c) = IF chunk # c THEN 1 ELSE 0 BY <2>5 DEF Held
      <4> QED BY <2>6, <4>2, <4>3
    <3> QED BY <1>5, <3>1, <3>2 DEF Tee
  <2>8. cpc[c] \notin {"buffer", "create", "reset"} =>
          stale'[c] + Old(buf'[s_cmd_rx'], c) + Held(c)' <= 1
    <3> HAVE cpc[c] \notin {"buffer", "create", "reset"}
    <3>1. stale[c] + Old(s, c) + Held(c) <= 1 BY <1>2 DEF Recent
    <3>2. Held(c) \in {0, 1} BY DEF Held
    <3> DEFINE x == stale[c]
               y == Old(s, c)
               z == Old(buf'[b], c)
               h == Held(c)
    <3>3. x \in Nat /\ y \in Nat /\ z \in Int /\ z <= y + h /\ h \in {0, 1} /\ x + y + h <= 1
      BY <1>3, <2>6, <2>7, <3>1, <3>2
    <3> HIDE DEF x, y, z, h
    <3>4. x + z + 0 <= 1 BY <3>3
    <3> QED BY <1>1, <2>5, <3>4 DEF x, z
  <2> QED BY <1>1, <1>2, <2>3, <2>4, <2>8 DEF Recent
<1> QED BY <1>4, <1>5

\* A step of the only call: it stays the only one.
LEMMA ReplyGoes ==
  ASSUME CallInv, NEW c \in Callers, Active = {c}, NEW next \in Steps \ {"idle"}, Goto(c, next)
  PROVE  Active' = {c} /\ cpc'[c] = next
<1>1. cpc \in [Callers -> Steps] /\ cpc[c] # "idle" BY DEF CallInv, TypeOK, Steps, Active
<1>2. \A d \in Callers : cpc'[d] = IF d = c THEN next ELSE cpc[d] BY <1>1 DEF Goto
<1>3. \A d \in Callers : cpc'[d] # "idle" <=> cpc[d] # "idle" BY <1>1, <1>2
<1>4. Active' = Active BY <1>3 DEF Active
<1> QED BY <1>2, <1>4

LEMMA ReplyBegin ==
  ASSUME CallInv, ReplyInv, NEW d \in Callers, Begin(d), NEW c \in Callers, alone'[c]
  PROVE  Recent(c)'
<1>1. /\ cpc[d] = "idle" /\ Goto(d, "buffer") /\ stale' = Reboot(0)
      /\ alone'[c] = IF c = d THEN Active = {} ELSE alone[c] /\ c \notin Active
  BY DEF Begin
<1>2. c = d /\ Active = {}
  <2>1. alone[c] => c \in Active BY DEF ReplyInv
  <2> QED BY <1>1, <2>1
<1>3. cpc \in [Callers -> Steps] BY DEF CallInv, TypeOK, Steps
<1>4. \A x \in Callers : cpc'[x] = IF x = d THEN "buffer" ELSE cpc[x] BY <1>1, <1>3 DEF Goto
<1>5. Active' = {c} BY <1>2, <1>4 DEF Active
<1>6. stale'[c] = 0 BY <1>1 DEF Reboot
<1> QED BY <1>2, <1>4, <1>5, <1>6 DEF Recent

LEMMA ReplyStep ==
  ASSUME CallInv, ReplyInv, NEW d \in Callers, Step(d), NEW c \in Callers, alone'[c]
  PROVE  Recent(c)'
<1>1. ~Restart
  <2>1. Restart => alone'[c] = FALSE BY DEF Restart, Reboot
  <2> QED BY <2>1
<1>2. ~DrainAborts(d) /\ (SendCommand(d) => Goto(d, "drain")
                          /\ UNCHANGED <<s_cdc, shared, reading, got, callback, history>>)
  BY <1>1 DEF DrainAborts, SendCommand
<1>3. alone[c]
  <2>1. CASE ~StopCapture(d) /\ ~SendCommand(d)
    <3>1. alone' = alone
      BY <1>2, <2>1 DEF Step, TestBuffer, CreateBuffer, ResetBuffer, StartCapture, Drain, Timeout,
                        Wake, ReplyFull, history
    <3> QED BY <3>1
  <2>2. CASE StopCapture(d)
    <3>1. alone' = [alone EXCEPT ![d] = FALSE] BY <2>2 DEF StopCapture, Returned
    <3>2. alone \in [Callers -> BOOLEAN] BY DEF CallInv, TypeOK
    <3> QED BY <3>1, <3>2
  <2>3. CASE SendCommand(d) BY <1>2, <2>3 DEF history
  <2> QED BY <2>1, <2>2, <2>3
<1>4. Recent(c) /\ Active = {c} BY <1>3 DEF ReplyInv, Recent
<1>5. d = c
  <2>1. cpc[d] # "idle"
    BY <1>2 DEF Step, TestBuffer, CreateBuffer, ResetBuffer, StartCapture, SendCommand, Drain, Timeout,
                Wake, ReplyFull, StopCapture
  <2> QED BY <1>4, <2>1 DEF Active
<1>6. /\ cpc \in [Callers -> Steps] /\ stale \in [Callers -> Nat]
      /\ alone \in [Callers -> BOOLEAN] /\ reading \in [Callers -> 0..created]
  BY DEF CallInv, TypeOK, Steps
<1>7. ~StopCapture(c)
  <2>1. StopCapture(c) => alone' = [alone EXCEPT ![c] = FALSE] BY DEF StopCapture, Returned
  <2> QED BY <1>6, <2>1
<1>8. CASE TestBuffer(c) \/ CreateBuffer(c)
  <2>1. cpc[c] \in {"buffer", "create"} /\ stale' = stale
    BY <1>8 DEF TestBuffer, CreateBuffer, history
  <2>2. stale'[c] = 0 BY <1>4, <2>1 DEF Recent
  <2>3. \E next \in {"create", "reset"} : Goto(c, next) BY <1>8 DEF TestBuffer, CreateBuffer
  <2>4. PICK next \in {"create", "reset"} : Goto(c, next) BY <2>3
  <2>5. Active' = {c} /\ cpc'[c] = next
    <3>1. next \in Steps \ {"idle"} BY DEF Steps
    <3> QED BY <1>4, <2>4, <3>1, ReplyGoes
  <2> QED BY <2>2, <2>5 DEF Recent
<1>9. CASE ResetBuffer(c)
  <2>1. cpc[c] = "reset" /\ Goto(c, "capture") /\ UNCHANGED <<s_cmd_rx, waiting, reading, dpc, chunk, stale>>
        /\ buf' = IF waiting[s_cmd_rx] = NoCaller THEN [buf EXCEPT ![s_cmd_rx] = <<>>] ELSE buf
    BY <1>9 DEF ResetBuffer, callback, history
  <2>2. s_cmd_rx \in Buffers BY <2>1, BufferIsThere DEF HasBuffer
  <2>3. waiting[s_cmd_rx] = NoCaller
    <3> SUFFICES ASSUME waiting[s_cmd_rx] # NoCaller PROVE FALSE OBVIOUS
    <3>1. waiting[s_cmd_rx] \in Callers /\ cpc[waiting[s_cmd_rx]] = "blocked"
      BY <2>2 DEF CallInv, TypeOK
    <3>2. waiting[s_cmd_rx] \in Active BY <3>1 DEF Active
    <3> QED BY <1>4, <2>1, <3>1, <3>2
  <2>4. buf'[s_cmd_rx'] = <<>> BY <2>1, <2>2, <2>3 DEF CallInv
  <2>5. stale'[c] = 0 BY <1>4, <2>1 DEF Recent
  <2>6. Active' = {c} /\ cpc'[c] = "capture"
    <3>1. "capture" \in Steps \ {"idle"} BY DEF Steps
    <3> QED BY <1>4, <2>1, <3>1, ReplyGoes
  <2>7. Old(buf'[s_cmd_rx'], c) = 0 /\ Held(c)' \in {0, 1} BY <2>4, OldEmpty DEF Held
  <2>8. stale'[c] + Old(buf'[s_cmd_rx'], c) + Held(c)' <= 1 BY <2>5, <2>7
  <2> QED BY <2>6, <2>8 DEF Recent
<1>10. CASE StartCapture(c) \/ SendCommand(c) \/ Timeout(c) \/ ReplyFull(c)
  <2>1. /\ cpc[c] \in {"capture", "send", "blocked", "drain"}
        /\ UNCHANGED <<s_cmd_rx, buf, reading, dpc, chunk, stale>>
    BY <1>2, <1>5, <1>10 DEF StartCapture, SendCommand, Timeout, ReplyFull, shared, callback, history
  <2>2. PICK next \in {"send", "drain", "woken", "done"} :
          Goto(c, next) /\ (next = "woken" => cpc[c] = "blocked")
    BY <1>2, <1>5, <1>10 DEF StartCapture, Timeout, ReplyFull
  <2>3. Active' = {c} /\ cpc'[c] = next
    <3>1. next \in Steps \ {"idle"} BY DEF Steps
    <3> QED BY <1>4, <2>2, <3>1, ReplyGoes
  <2>4. Held(c)' = Held(c) BY <2>1 DEF Held
  <2> QED BY <1>4, <2>1, <2>2, <2>3, <2>4 DEF Recent
<1>11. CASE Drain(c) \/ Wake(c)
  <2>1. cpc[c] \in {"drain", "woken"} /\ UNCHANGED <<s_cmd_rx, dpc, chunk>>
    BY <1>11 DEF Drain, Wake, callback
  <2>2. s_cmd_rx \in Buffers /\ Held(c)' = Held(c)
    BY <2>1, BufferIsThere DEF HasBuffer, Held
  <2>3. cpc[c] = "woken" => reading[c] = s_cmd_rx BY <1>4 DEF Recent
  <2>4. stale'[c] + Old(buf'[s_cmd_rx'], c) = stale[c] + Old(buf[s_cmd_rx], c)
    <3>1. CASE Take(c, s_cmd_rx) BY <1>3, <2>1, <2>2, <3>1, TakeKeeps
    <3>2. CASE UNCHANGED <<buf, stale>> BY <2>1, <3>2
    <3> QED BY <1>11, <2>3, <3>1, <3>2 DEF Drain, Wake
  <2>5. \E next \in {"drain", "blocked", "done"} :
          Goto(c, next) /\ (next = "blocked" => reading'[c] = s_cmd_rx)
    <3>1. CASE Wake(c) BY <3>1 DEF Wake
    <3>2. CASE Drain(c)
      <4>1. CASE cpc' = cpc
        <5>1. Goto(c, "drain") BY <1>6, <3>2, <4>1 DEF Drain, Goto
        <5> QED BY <5>1
      <4>2. CASE reading' = [reading EXCEPT ![c] = s_cmd_rx] /\ Goto(c, "blocked")
        BY <1>6, <4>2
      <4> QED BY <3>2, <4>1, <4>2 DEF Drain
    <3> QED BY <1>11, <3>1, <3>2
  <2>6. PICK next \in {"drain", "blocked", "done"} :
          Goto(c, next) /\ (next = "blocked" => reading'[c] = s_cmd_rx)
    BY <2>5
  <2>7. Active' = {c} /\ cpc'[c] = next
    <3>1. next \in Steps \ {"idle"} BY DEF Steps
    <3> QED BY <1>4, <2>6, <3>1, ReplyGoes
  <2>8. stale[c] + Old(buf[s_cmd_rx], c) + Held(c) <= 1 BY <1>4, <2>1 DEF Recent
  <2> QED BY <2>1, <2>2, <2>4, <2>6, <2>7, <2>8 DEF Recent
<1> QED BY <1>2, <1>5, <1>7, <1>8, <1>9, <1>10, <1>11 DEF Step

LEMMA ReplyNext == CallInv /\ ReplyInv /\ [Next]_vars => ReplyInv'
<1> SUFFICES ASSUME CallInv, ReplyInv, [Next]_vars, NEW c \in Callers, alone'[c] PROVE Recent(c)'
  BY DEF ReplyInv, Recent
<1>1. CASE UNCHANGED vars
  <2>1. /\ cpc' = cpc /\ stale' = stale /\ buf' = buf /\ s_cmd_rx' = s_cmd_rx /\ dpc' = dpc
        /\ chunk' = chunk /\ reading' = reading /\ alone' = alone
    BY <1>1 DEF vars, shared, calls, callback, history
  <2>2. Recent(c) BY <2>1 DEF ReplyInv, Recent
  <2>3. Active' = Active /\ Held(c)' = Held(c) BY <2>1 DEF Active, Held
  <2> QED BY <2>1, <2>2, <2>3 DEF Recent
<1>2. CASE OpenItf \/ CloseItf \/ Arrive \/ DataCb BY <1>2, ReplyCallback
<1>3. ASSUME NEW d \in Callers, Begin(d) PROVE Recent(c)' BY <1>3, ReplyBegin
<1>4. ASSUME NEW d \in Callers, Step(d) PROVE Recent(c)' BY <1>4, ReplyStep
<1> QED BY <1>1, <1>2, <1>3, <1>4 DEF Next

\* The reset before a command keeps old output out of the reply, but for the one
\* chunk a callback may have held (usb_cdc_source.c:210-215).
THEOREM RepliesAreRecent == Spec => []ReplyIsRecent
<1>1. Init => ReplyInv BY DEF Init, ReplyInv, Reboot
<1>2. ASSUME CallInv, ReplyInv PROVE ReplyIsRecent
  <2> SUFFICES ASSUME NEW c \in Callers, alone[c] PROVE stale[c] <= 1 BY DEF ReplyIsRecent
  <2>1. Recent(c) /\ stale[c] \in Nat BY <1>2 DEF ReplyInv, Recent, CallInv, TypeOK
  <2>2. CASE cpc[c] \in {"buffer", "create", "reset"} BY <2>1, <2>2 DEF Recent
  <2>3. CASE cpc[c] \notin {"buffer", "create", "reset"}
    <3>1. cpc[c] \in HasBuffer
      <4>1. cpc[c] \in Steps /\ cpc[c] # "idle" BY <1>2, <2>1 DEF Recent, Active, CallInv, TypeOK, Steps
      <4> QED BY <2>3, <4>1 DEF Steps, HasBuffer
    <3>2. buf[s_cmd_rx] \in Seq(Chunks) /\ 1 \in Int BY <1>2, <3>1, BufferIsThere DEF CallInv
    <3>3. Old(buf[s_cmd_rx], c) \in Nat BY <3>2, OldFinite
    <3>4. Held(c) \in {0, 1} /\ stale[c] + Old(buf[s_cmd_rx], c) + Held(c) <= 1
      BY <2>1, <2>3 DEF Held, Recent
    <3> QED BY <2>1, <3>3, <3>4
  <2> QED BY <2>2, <2>3
<1> QED BY <1>1, <1>2, CallInit, CallNext, ReplyNext, PTL DEF Spec
=============================================================================
