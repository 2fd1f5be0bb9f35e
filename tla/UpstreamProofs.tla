---------------------------- MODULE UpstreamProofs ----------------------------
(***************************************************************************)
(* Proofs about Upstream, for every set of callers, every kind of caster   *)
(* and every number of upstream_set_creds calls.                           *)
(***************************************************************************)
EXTENDS Upstream, TLAPS

USE DEF stored, callers, flags, st, task

\* The keys are read and written in an order that names each of them.
LEMMA KeysAreNamed == Len(Keys) = 3 /\ \A k \in 1..3 : Keys[k] \in KeyNames
  BY DEF Keys, KeyNames

-----------------------------------------------------------------------------
(* Type correctness, the flags apart from the rest *)

TypeFlags ==
  /\ netOk \in BOOLEAN /\ s_use_v2 \in BOOLEAN /\ s_force_drop \in BOOLEAN
  /\ connected \in BOOLEAN /\ provisioned \in BOOLEAN /\ dropLive \in BOOLEAN
TypeCreds ==
  /\ nvs \in [KeyNames -> Version] /\ sets \in Version
  /\ step \in [Callers -> 0..4] /\ ver \in [Callers -> Version]
TypeTask ==
  /\ pc \in {"load", "idle", "connect", "post", "not_v2", "source", "accepted",
             "stream", "delay"}
  /\ lk \in 1..4 /\ creds \in [KeyNames -> Version]
  /\ backoff \in 1..BACKOFF_MAX_S /\ fails \in 0..FailsCap

\* TypeOK is the conjunction of the three groups.
LEMMA TypeGroups == TypeOK <=> TypeFlags /\ TypeCreds /\ TypeTask
  BY DEF TypeOK, TypeFlags, TypeCreds, TypeTask

\* A box that just booted is in a state of the right type.
LEMMA InitType == Init => TypeFlags /\ TypeCreds /\ TypeTask
<1> SUFFICES ASSUME Init PROVE TypeFlags /\ TypeCreds /\ TypeTask OBVIOUS
<1>1. TypeFlags BY DEF Init, TypeFlags
<1>2. TypeCreds BY SetsAssumption DEF Init, TypeCreds, Version, NoCreds
<1>3. TypeTask BY SetsAssumption DEF Init, TypeTask, Version, NoCreds, BACKOFF_MAX_S
<1> QED BY <1>1, <1>2, <1>3

\* No step gives a flag another value than TRUE or FALSE.
LEMMA FlagsPreserved ==
  ASSUME TypeFlags, [Next]_vars
  PROVE  TypeFlags'
<1> USE DEF TypeFlags
<1>1. CASE NetChanges BY <1>1 DEF NetChanges
<1>2. ASSUME NEW c \in Callers, Caller(c) PROVE TypeFlags'
  <2>1. CASE SetStart(c) BY <2>1 DEF SetStart
  <2>2. CASE SetKey(c) BY <2>2 DEF SetKey
  <2>3. CASE SetDone(c) BY <2>3 DEF SetDone
  <2>4. CASE Forget(c) BY <2>4 DEF Forget
  <2>5. CASE Drop(c) BY <2>5 DEF Drop
  <2> QED BY <1>2, <2>1, <2>2, <2>3, <2>4, <2>5 DEF Caller
<1>3. CASE UpstreamTask
  <2>1. CASE LoadKey BY <2>1 DEF LoadKey
  <2>2. CASE Loaded BY <2>2 DEF Loaded
  <2>3. CASE Idle BY <2>3 DEF Idle
  <2>4. CASE IdlePoll BY <2>4 DEF IdlePoll
  <2>5. CASE ConnectOk BY <2>5 DEF ConnectOk
  <2>6. CASE ConnectFails BY <2>6 DEF ConnectFails, Fail
  <2>7. CASE PostOk BY <2>7 DEF PostOk
  <2>8. CASE PostNotV2 BY <2>8 DEF PostNotV2
  <2>9. CASE FallBack BY <2>9 DEF FallBack, Fail
  <2>10. CASE SourceOk BY <2>10 DEF SourceOk
  <2>11. CASE Refused BY <2>11 DEF Refused, Fail
  <2>12. CASE Accepted BY <2>12 DEF Accepted
  <2>13. CASE ForcedDrop BY <2>13 DEF ForcedDrop, Fail
  <2>14. CASE SendFails BY <2>14 DEF SendFails, Fail
  <2>15. CASE Delay BY <2>15 DEF Delay
  <2> QED BY <1>3, <2>1, <2>2, <2>3, <2>4, <2>5, <2>6, <2>7, <2>8, <2>9, <2>10, <2>11, <2>12, <2>13, <2>14, <2>15 DEF UpstreamTask
<1>4. CASE UNCHANGED vars BY <1>4 DEF vars
<1> QED BY <1>1, <1>2, <1>3, <1>4 DEF Next

\* What is stored, and what a caller is storing, stay versions of the keys.
LEMMA CredsPreserved ==
  ASSUME TypeCreds, [Next]_vars
  PROVE  TypeCreds'
<1> USE SetsAssumption, KeysAreNamed DEF TypeCreds, Version, NoCreds
<1>1. CASE NetChanges BY <1>1 DEF NetChanges
<1>2. ASSUME NEW c \in Callers, Caller(c) PROVE TypeCreds'
  <2>1. CASE SetStart(c) BY <2>1 DEF SetStart
  <2>2. CASE SetKey(c) BY <2>2 DEF SetKey
  <2>3. CASE SetDone(c) BY <2>3 DEF SetDone
  <2>4. CASE Forget(c) BY <2>4 DEF Forget
  <2>5. CASE Drop(c) BY <2>5 DEF Drop
  <2> QED BY <1>2, <2>1, <2>2, <2>3, <2>4, <2>5 DEF Caller
<1>3. CASE UpstreamTask
  <2>1. CASE LoadKey BY <2>1 DEF LoadKey
  <2>2. CASE Loaded BY <2>2 DEF Loaded
  <2>3. CASE Idle BY <2>3 DEF Idle
  <2>4. CASE IdlePoll BY <2>4 DEF IdlePoll
  <2>5. CASE ConnectOk BY <2>5 DEF ConnectOk
  <2>6. CASE ConnectFails BY <2>6 DEF ConnectFails, Fail
  <2>7. CASE PostOk BY <2>7 DEF PostOk
  <2>8. CASE PostNotV2 BY <2>8 DEF PostNotV2
  <2>9. CASE FallBack BY <2>9 DEF FallBack, Fail
  <2>10. CASE SourceOk BY <2>10 DEF SourceOk
  <2>11. CASE Refused BY <2>11 DEF Refused, Fail
  <2>12. CASE Accepted BY <2>12 DEF Accepted
  <2>13. CASE ForcedDrop BY <2>13 DEF ForcedDrop, Fail
  <2>14. CASE SendFails BY <2>14 DEF SendFails, Fail
  <2>15. CASE Delay BY <2>15 DEF Delay
  <2> QED BY <1>3, <2>1, <2>2, <2>3, <2>4, <2>5, <2>6, <2>7, <2>8, <2>9, <2>10, <2>11, <2>12, <2>13, <2>14, <2>15 DEF UpstreamTask
<1>4. CASE UNCHANGED vars BY <1>4 DEF vars
<1> QED BY <1>1, <1>2, <1>3, <1>4 DEF Next

\* upstream_task keeps its place, its copy of the credentials and its backoff.
LEMMA TaskPreserved ==
  ASSUME TypeCreds, TypeTask, [Next]_vars
  PROVE  TypeTask'
<1> USE SetsAssumption, KeysAreNamed DEF TypeCreds, TypeTask, Version, NoCreds, BACKOFF_MAX_S
<1>1. CASE NetChanges BY <1>1 DEF NetChanges
<1>2. ASSUME NEW c \in Callers, Caller(c) PROVE TypeTask'
  <2>1. CASE SetStart(c) BY <2>1 DEF SetStart
  <2>2. CASE SetKey(c) BY <2>2 DEF SetKey
  <2>3. CASE SetDone(c) BY <2>3 DEF SetDone
  <2>4. CASE Forget(c) BY <2>4 DEF Forget
  <2>5. CASE Drop(c) BY <2>5 DEF Drop
  <2> QED BY <1>2, <2>1, <2>2, <2>3, <2>4, <2>5 DEF Caller
<1>3. CASE UpstreamTask
  <2>1. CASE LoadKey BY <2>1 DEF LoadKey
  <2>2. CASE Loaded BY <2>2 DEF Loaded
  <2>3. CASE Idle BY <2>3 DEF Idle
  <2>4. CASE IdlePoll BY <2>4 DEF IdlePoll
  <2>5. CASE ConnectOk BY <2>5 DEF ConnectOk
  <2>6. CASE ConnectFails BY <2>6 DEF ConnectFails, Fail, Doubled
  <2>7. CASE PostOk BY <2>7 DEF PostOk
  <2>8. CASE PostNotV2 BY <2>8 DEF PostNotV2
  <2>9. CASE FallBack BY <2>9 DEF FallBack, Fail, Doubled
  <2>10. CASE SourceOk BY <2>10 DEF SourceOk
  <2>11. CASE Refused BY <2>11 DEF Refused, Fail, Doubled
  <2>12. CASE Accepted BY <2>12 DEF Accepted
  <2>13. CASE ForcedDrop BY <2>13 DEF ForcedDrop, Fail, Doubled
  <2>14. CASE SendFails BY <2>14 DEF SendFails, Fail, Doubled
  <2>15. CASE Delay BY <2>15 DEF Delay
  <2> QED BY <1>3, <2>1, <2>2, <2>3, <2>4, <2>5, <2>6, <2>7, <2>8, <2>9, <2>10, <2>11, <2>12, <2>13, <2>14, <2>15 DEF UpstreamTask
<1>4. CASE UNCHANGED vars BY <1>4 DEF vars
<1> QED BY <1>1, <1>2, <1>3, <1>4 DEF Next

\* Type correctness of the upstream client.
THEOREM TypeCorrect == Spec => []TypeOK
<1> DEFINE Types == TypeFlags /\ TypeCreds /\ TypeTask
<1>1. Init => Types BY InitType
<1>2. Types /\ [Next]_vars => Types'
  BY FlagsPreserved, CredsPreserved, TaskPreserved
<1>3. Types => TypeOK BY TypeGroups
<1> QED BY <1>1, <1>2, <1>3, PTL DEF Spec

-----------------------------------------------------------------------------
(* The backoff and the status *)

\* Doubling follows the schedule: 1, 2, 4, 8, 16, and then the maximum.
LEMMA DoublingFollows ==
  ASSUME TypeTask, BackoffSchedule,
         NEW n \in Nat, n = IF fails < FailsCap THEN fails + 1 ELSE fails
  PROVE  Doubled = IF n < 5 THEN Schedule[n + 1] ELSE BACKOFF_MAX_S
<1>1. CASE fails = 0 BY <1>1, SetsAssumption DEF BackoffSchedule, Schedule, Doubled, BACKOFF_MAX_S
<1>2. CASE fails = 1 BY <1>2, SetsAssumption DEF BackoffSchedule, Schedule, Doubled, BACKOFF_MAX_S
<1>3. CASE fails = 2 BY <1>3, SetsAssumption DEF BackoffSchedule, Schedule, Doubled, BACKOFF_MAX_S
<1>4. CASE fails = 3 BY <1>4, SetsAssumption DEF BackoffSchedule, Schedule, Doubled, BACKOFF_MAX_S
<1>5. CASE fails = 4 BY <1>5, SetsAssumption DEF BackoffSchedule, Schedule, Doubled, BACKOFF_MAX_S
<1>6. CASE fails >= 5 BY <1>6, SetsAssumption DEF BackoffSchedule, Schedule, Doubled, BACKOFF_MAX_S, TypeTask
<1> QED BY <1>1, <1>2, <1>3, <1>4, <1>5, <1>6, SetsAssumption DEF TypeTask

\* A failure exit moves the backoff one step along the schedule.
LEMMA FailFollows ==
  ASSUME TypeTask, BackoffSchedule, Fail
  PROVE  BackoffSchedule'
<1>1. fails' \in Nat BY SetsAssumption DEF TypeTask, Fail
<1> QED BY <1>1, DoublingFollows DEF Fail, BackoffSchedule

\* Only the failure exits and a login touch the backoff.
LEMMA BackoffPreserved ==
  ASSUME TypeTask, BackoffSchedule, [Next]_vars
  PROVE  BackoffSchedule'
<1> USE DEF BackoffSchedule
<1>1. CASE NetChanges BY <1>1 DEF NetChanges
<1>2. ASSUME NEW c \in Callers, Caller(c) PROVE BackoffSchedule'
  <2>1. CASE SetStart(c) BY <2>1 DEF SetStart
  <2>2. CASE SetKey(c) BY <2>2 DEF SetKey
  <2>3. CASE SetDone(c) BY <2>3 DEF SetDone
  <2>4. CASE Forget(c) BY <2>4 DEF Forget
  <2>5. CASE Drop(c) BY <2>5 DEF Drop
  <2> QED BY <1>2, <2>1, <2>2, <2>3, <2>4, <2>5 DEF Caller
<1>3. CASE UpstreamTask
  <2>1. CASE LoadKey BY <2>1 DEF LoadKey
  <2>2. CASE Loaded BY <2>2 DEF Loaded
  <2>3. CASE Idle BY <2>3 DEF Idle
  <2>4. CASE IdlePoll BY <2>4 DEF IdlePoll
  <2>5. CASE ConnectOk BY <2>5 DEF ConnectOk
  <2>6. CASE ConnectFails BY <2>6, FailFollows DEF ConnectFails
  <2>7. CASE PostOk BY <2>7 DEF PostOk
  <2>8. CASE PostNotV2 BY <2>8 DEF PostNotV2
  <2>9. CASE FallBack BY <2>9, FailFollows DEF FallBack
  <2>10. CASE SourceOk BY <2>10 DEF SourceOk
  <2>11. CASE Refused BY <2>11, FailFollows DEF Refused
  <2>12. CASE Accepted BY <2>12 DEF Accepted, Schedule
  <2>13. CASE ForcedDrop BY <2>13, FailFollows DEF ForcedDrop
  <2>14. CASE SendFails BY <2>14, FailFollows DEF SendFails
  <2>15. CASE Delay BY <2>15 DEF Delay
  <2> QED BY <1>3, <2>1, <2>2, <2>3, <2>4, <2>5, <2>6, <2>7, <2>8, <2>9, <2>10, <2>11, <2>12, <2>13, <2>14, <2>15 DEF UpstreamTask
<1>4. CASE UNCHANGED vars BY <1>4 DEF vars
<1> QED BY <1>1, <1>2, <1>3, <1>4 DEF Next

LoggingInHonest == StatusHonest /\ (pc \in LoggingIn => provisioned)

\* Every exit of the stream loop takes the status with it.
LEMMA HonestPreserved ==
  ASSUME TypeFlags, TypeTask, LoggingInHonest, [Next]_vars
  PROVE  LoggingInHonest'
<1> USE DEF TypeFlags, TypeTask, LoggingInHonest, StatusHonest, LoggingIn
<1>1. CASE NetChanges BY <1>1 DEF NetChanges
<1>2. ASSUME NEW c \in Callers, Caller(c) PROVE LoggingInHonest'
  <2>1. CASE SetStart(c) BY <2>1 DEF SetStart
  <2>2. CASE SetKey(c) BY <2>2 DEF SetKey
  <2>3. CASE SetDone(c) BY <2>3 DEF SetDone
  <2>4. CASE Forget(c) BY <2>4 DEF Forget
  <2>5. CASE Drop(c) BY <2>5 DEF Drop
  <2> QED BY <1>2, <2>1, <2>2, <2>3, <2>4, <2>5 DEF Caller
<1>3. CASE UpstreamTask
  <2>1. CASE LoadKey BY <2>1 DEF LoadKey
  <2>2. CASE Loaded BY <2>2 DEF Loaded
  <2>3. CASE Idle BY <2>3 DEF Idle
  <2>4. CASE IdlePoll BY <2>4 DEF IdlePoll
  <2>5. CASE ConnectOk BY <2>5 DEF ConnectOk
  <2>6. CASE ConnectFails BY <2>6 DEF ConnectFails, Fail
  <2>7. CASE PostOk BY <2>7 DEF PostOk
  <2>8. CASE PostNotV2 BY <2>8 DEF PostNotV2
  <2>9. CASE FallBack BY <2>9 DEF FallBack, Fail
  <2>10. CASE SourceOk BY <2>10 DEF SourceOk
  <2>11. CASE Refused BY <2>11 DEF Refused, Fail
  <2>12. CASE Accepted BY <2>12 DEF Accepted
  <2>13. CASE ForcedDrop BY <2>13 DEF ForcedDrop, Fail
  <2>14. CASE SendFails BY <2>14 DEF SendFails, Fail
  <2>15. CASE Delay BY <2>15 DEF Delay
  <2> QED BY <1>3, <2>1, <2>2, <2>3, <2>4, <2>5, <2>6, <2>7, <2>8, <2>9, <2>10, <2>11, <2>12, <2>13, <2>14, <2>15 DEF UpstreamTask
<1>4. CASE UNCHANGED vars BY <1>4 DEF vars
<1> QED BY <1>1, <1>2, <1>3, <1>4 DEF Next

\* The inductive invariant holds of every behaviour.
THEOREM Inductive == Spec => []IInv
<1> DEFINE Strong == TypeFlags /\ TypeCreds /\ TypeTask /\ BackoffSchedule /\ LoggingInHonest
<1>1. Init => Strong
  <2> SUFFICES ASSUME Init PROVE Strong OBVIOUS
  <2>1. TypeFlags /\ TypeCreds /\ TypeTask BY InitType
  <2>2. BackoffSchedule BY DEF Init, BackoffSchedule, Schedule
  <2>3. LoggingInHonest BY DEF Init, LoggingInHonest, StatusHonest, LoggingIn
  <2> QED BY <2>1, <2>2, <2>3
<1>2. Strong /\ [Next]_vars => Strong'
  BY FlagsPreserved, CredsPreserved, TaskPreserved, BackoffPreserved, HonestPreserved
<1>3. Strong => IInv BY TypeGroups DEF IInv, LoggingInHonest
<1> QED BY <1>1, <1>2, <1>3, PTL DEF Spec

\* The waits between the attempts follow the exponential schedule.
THEOREM BacksOff == Spec => []BackoffSchedule
<1>1. IInv => BackoffSchedule BY DEF IInv
<1> QED BY <1>1, Inductive, PTL

\* The reported status is that of the link, at every moment.
THEOREM ReportsTheLink == Spec => []StatusHonest
<1>1. IInv => StatusHonest BY DEF IInv
<1> QED BY <1>1, Inductive, PTL
=============================================================================
