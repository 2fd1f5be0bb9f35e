--------------------------- MODULE UsbSourceProofs ---------------------------
(***************************************************************************)
(* Proofs about UsbSource, for every number of plugs, every dwell length   *)
(* and every choice of the receiver's interfaces.                          *)
(***************************************************************************)
EXTENDS UsbSource, TLAPS

\* The interfaces swept are interfaces of the receiver.
LEMMA ComItf == 0 \in Itf /\ \A k \in 0..2 : MOSAIC_COM_ITFS[k + 1] \in Itf
  BY DEF MOSAIC_COM_ITFS, Itf

\* Releasing a handle frees that handle and leaves the others alone.
LEMMA ReleasedClaim ==
  ASSUME NEW i \in Itf, NEW owner \in {"cdc", "nmea"}, TypeDriver
  PROVE  /\ Released(i, owner) \in [Itf -> {"free", "cdc", "nmea"}]
         /\ Released(i, owner)[i] # owner
         /\ \A j \in Itf : Released(i, owner)[j] = claim[j]
                             \/ (j = i /\ claim[j] = owner /\ Released(i, owner)[j] = "free")
  BY DEF Released, TypeDriver

-----------------------------------------------------------------------------
(* Type correctness, one group of variables at a time *)

\* The box boots into a state of the right type.
LEMMA InitType == Init => TypeOK
<1> SUFFICES ASSUME Init PROVE TypeOK OBVIOUS
<1>1. TypeFlags BY DEF Init, TypeFlags
<1>2. TypeDriver BY DEF Init, TypeDriver, Itf
<1>3. TypeItfs BY DEF Init, TypeItfs, Itf
<1>4. TypeLocals BY BoundAssumption DEF Init, TypeLocals
<1> QED BY <1>1, <1>2, <1>3, <1>4 DEF TypeOK

\* No step of any task gives a flag another value than TRUE or FALSE.
LEMMA FlagsPreserved ==
  ASSUME TypeOK, [Next]_vars
  PROVE  TypeFlags'
<1> USE DEF receiver, driver, status, locals, pipe, nmea, TypeOK, TypeFlags
<1>1. CASE Plug BY <1>1 DEF Plug
<1>2. CASE Unplug BY <1>2 DEF Unplug
<1>3. CASE StartStream BY <1>3 DEF StartStream
<1>4. CASE DataCb BY <1>4 DEF DataCb
<1>5. CASE Feed BY <1>5 DEF Feed
<1>6. CASE DriverStep
  <2>1. CASE Deliver BY <2>1 DEF Deliver
  <2>2. CASE CdcEventClear BY <2>2 DEF CdcEventClear
  <2>3. CASE CdcEventClose BY <2>3 DEF CdcEventClose
  <2>4. CASE CdcEventGive BY <2>4 DEF CdcEventGive
  <2>5. CASE NmeaEventClose BY <2>5 DEF NmeaEventClose
  <2>6. CASE NmeaEventGive BY <2>6 DEF NmeaEventGive
  <2> QED BY <1>6, <2>1, <2>2, <2>3, <2>4, <2>5, <2>6 DEF DriverStep
<1>7. CASE CdcTask
  <2>1. CASE Open BY <2>1 DEF Open
  <2>2. CASE OpenFails BY <2>2 DEF OpenFails
  <2>3. CASE Retry BY <2>3 DEF Retry
  <2>4. CASE Publish BY <2>4 DEF Publish
  <2>5. CASE PublishStatus BY <2>5 DEF PublishStatus
  <2>6. CASE Provision BY <2>6 DEF Provision
  <2>7. CASE Acked BY <2>7 DEF Acked
  <2>8. CASE AssumedApplied BY <2>8 DEF AssumedApplied
  <2>9. CASE NotProvisioned BY <2>9 DEF NotProvisioned
  <2>10. CASE SetProvisioned BY <2>10 DEF SetProvisioned
  <2>11. CASE Base BY <2>11 DEF Base
  <2>12. CASE DwellDisconnected BY <2>12 DEF DwellDisconnected, Rescan
  <2>13. CASE DwellTimeout250 BY <2>13 DEF DwellTimeout250
  <2>14. CASE Latch BY <2>14 DEF Latch
  <2>15. CASE DwellOn BY <2>15 DEF DwellOn
  <2>16. CASE HopClear BY <2>16 DEF HopClear
  <2>17. CASE HopClose BY <2>17 DEF HopClose
  <2>18. CASE Unlatch BY <2>18 DEF Unlatch, Rescan
  <2> QED BY <1>7, <2>1, <2>2, <2>3, <2>4, <2>5, <2>6, <2>7, <2>8, <2>9, <2>10, <2>11,
             <2>12, <2>13, <2>14, <2>15, <2>16, <2>17, <2>18 DEF CdcTask
<1>8. CASE NmeaTask
  <2>1. CASE NmeaOpen BY <2>1 DEF NmeaOpen
  <2>2. CASE NmeaOpenFails BY <2>2 DEF NmeaOpenFails
  <2>3. CASE NmeaMark BY <2>3 DEF NmeaMark
  <2>4. CASE NmeaWake BY <2>4 DEF NmeaWake
  <2>5. CASE NmeaDelay BY <2>5 DEF NmeaDelay
  <2> QED BY <1>8, <2>1, <2>2, <2>3, <2>4, <2>5 DEF NmeaTask
<1>9. CASE UNCHANGED vars BY <1>9 DEF vars
<1> QED BY <1>1, <1>2, <1>3, <1>4, <1>5, <1>6, <1>7, <1>8, <1>9 DEF Next

\* The steps of cdc_task that keep its handle and the driver's tables.
CdcKeeps ==
  OpenFails \/ Retry \/ Publish \/ PublishStatus \/ Provision \/ Acked
    \/ AssumedApplied \/ NotProvisioned \/ SetProvisioned \/ Base
    \/ DwellDisconnected \/ DwellTimeout250 \/ Latch \/ DwellOn \/ HopClear \/ Unlatch

\* The steps of cdc_task fall into three: opening, closing, and those that touch no handle.
LEMMA CdcTaskCases == CdcTask => Open \/ HopClose \/ CdcKeeps
  BY DEF CdcTask, CdcKeeps

\* What those steps leave alone.
LEMMA CdcKeepsFrame ==
  CdcKeeps => UNCHANGED <<plugged, plugs, driver, itf, pend, npc, n_disconnected>>
<1> USE DEF receiver, driver, status, locals, pipe, nmea
<1>1. OpenFails \/ Retry \/ Publish \/ PublishStatus \/ Provision
        => UNCHANGED <<plugged, plugs, driver, itf, pend, npc, n_disconnected>>
  BY DEF OpenFails, Retry, Publish, PublishStatus, Provision
<1>2. Acked \/ AssumedApplied \/ NotProvisioned \/ SetProvisioned \/ Base
        => UNCHANGED <<plugged, plugs, driver, itf, pend, npc, n_disconnected>>
  BY DEF Acked, AssumedApplied, NotProvisioned, SetProvisioned, Base
<1>3. DwellDisconnected \/ DwellTimeout250 \/ Latch \/ DwellOn \/ HopClear \/ Unlatch
        => UNCHANGED <<plugged, plugs, driver, itf, pend, npc, n_disconnected>>
  BY DEF DwellDisconnected, DwellTimeout250, Latch, DwellOn, HopClear, Unlatch, Rescan
<1> QED BY <1>1, <1>2, <1>3 DEF CdcKeeps

\* The handles, and the events about them, stay of their types.
LEMMA DriverPreserved ==
  ASSUME TypeOK, [Next]_vars
  PROVE  TypeDriver'
<1> USE DEF receiver, driver, TypeOK
<1>1. CASE Plug \/ StartStream \/ DataCb \/ Feed
  BY <1>1 DEF Plug, StartStream, DataCb, Feed, TypeDriver
<1>2. CASE Unplug BY <1>2 DEF Unplug, TypeDriver
<1>3. CASE Deliver \/ CdcEventClear \/ CdcEventGive \/ NmeaEventGive
  BY <1>3, ComItf DEF Deliver, CdcEventClear, CdcEventGive, NmeaEventGive, TypeDriver
<1>4. CASE CdcEventClose \/ NmeaEventClose
  BY <1>4, ReleasedClaim DEF CdcEventClose, NmeaEventClose, TypeDriver
<1>5. CASE Open BY <1>5 DEF Open, TypeDriver
<1>6. CASE HopClose BY <1>6, ReleasedClaim DEF HopClose, TypeItfs, TypeDriver
<1>7. CASE CdcKeeps BY <1>7, CdcKeepsFrame DEF TypeDriver
<1>8. CASE NmeaTask
  BY <1>8 DEF NmeaTask, NmeaOpen, NmeaOpenFails, NmeaMark, NmeaWake, NmeaDelay, TypeDriver
<1>9. CASE UNCHANGED vars BY <1>9 DEF vars, TypeDriver
<1> QED BY <1>1, <1>2, <1>3, <1>4, <1>5, <1>6, <1>7, <1>8, <1>9, CdcTaskCases
     DEF Next, DriverStep

\* What is recorded of interfaces is always one of the receiver's.
LEMMA ItfsPreserved ==
  ASSUME TypeOK, [Next]_vars
  PROVE  TypeItfs'
<1> USE DEF status, locals, TypeOK, TypeItfs
<1>1. CASE Plug \/ Unplug \/ StartStream \/ DataCb \/ Feed
  BY <1>1 DEF Plug, Unplug, StartStream, DataCb, Feed
<1>2. CASE DriverStep
  BY <1>2 DEF DriverStep, Deliver, CdcEventClear, CdcEventClose, CdcEventGive,
       NmeaEventClose, NmeaEventGive
<1>3. CASE CdcTask
  <2>1. CASE Open BY <2>1, ComItf DEF Open, TypeLocals
  <2>2. CASE OpenFails \/ Retry \/ Publish \/ PublishStatus \/ Provision
    BY <2>2 DEF OpenFails, Retry, Publish, PublishStatus, Provision
  <2>3. CASE Acked \/ AssumedApplied \/ NotProvisioned \/ SetProvisioned \/ Base
    BY <2>3 DEF Acked, AssumedApplied, NotProvisioned, SetProvisioned, Base
  <2>4. CASE DwellDisconnected \/ DwellTimeout250 \/ Latch \/ DwellOn
    BY <2>4 DEF DwellDisconnected, DwellTimeout250, Latch, DwellOn, Rescan
  <2>5. CASE HopClear \/ HopClose \/ Unlatch
    BY <2>5 DEF HopClear, HopClose, Unlatch, Rescan
  <2> QED BY <1>3, <2>1, <2>2, <2>3, <2>4, <2>5 DEF CdcTask
<1>4. CASE NmeaTask
  BY <1>4 DEF NmeaTask, NmeaOpen, NmeaOpenFails, NmeaMark, NmeaWake, NmeaDelay
<1>5. CASE UNCHANGED vars BY <1>5 DEF vars
<1> QED BY <1>1, <1>2, <1>3, <1>4, <1>5 DEF Next

\* Each task stays within its steps, the sweep within its interfaces.
LEMMA LocalsPreserved ==
  ASSUME TypeOK, [Next]_vars
  PROVE  TypeLocals'
<1> USE BoundAssumption DEF receiver, locals, pipe, nmea, TypeOK, TypeLocals
<1>1. CASE Plug \/ Unplug \/ StartStream \/ DataCb \/ Feed
  BY <1>1 DEF Plug, Unplug, StartStream, DataCb, Feed
<1>2. CASE DriverStep
  BY <1>2 DEF DriverStep, Deliver, CdcEventClear, CdcEventClose, CdcEventGive,
       NmeaEventClose, NmeaEventGive
<1>3. CASE CdcTask
  <2>1. CASE Open \/ OpenFails \/ Retry \/ Publish \/ PublishStatus \/ Provision
    BY <2>1 DEF Open, OpenFails, Retry, Publish, PublishStatus, Provision
  <2>2. CASE Acked \/ AssumedApplied \/ NotProvisioned \/ SetProvisioned
    BY <2>2 DEF Acked, AssumedApplied, NotProvisioned, SetProvisioned
  <2>3. CASE Base \/ DwellDisconnected \/ DwellTimeout250 \/ Latch \/ Unlatch
    BY <2>3 DEF Base, DwellDisconnected, DwellTimeout250, Latch, Unlatch, Rescan
  <2>4. CASE DwellOn BY <2>4 DEF DwellOn, DwellPolls
  <2>5. CASE HopClear BY <2>5 DEF HopClear
  <2>6. CASE HopClose
    <3>1. Len(MOSAIC_COM_ITFS) = 3 BY DEF MOSAIC_COM_ITFS
    <3> QED BY <2>6, <3>1 DEF HopClose, NextSweep
  <2> QED BY <1>3, <2>1, <2>2, <2>3, <2>4, <2>5, <2>6 DEF CdcTask
<1>4. CASE NmeaTask
  BY <1>4 DEF NmeaTask, NmeaOpen, NmeaOpenFails, NmeaMark, NmeaWake, NmeaDelay
<1>5. CASE UNCHANGED vars BY <1>5 DEF vars
<1> QED BY <1>1, <1>2, <1>3, <1>4, <1>5 DEF Next

\* Every variable keeps its type, whatever the receiver and its cable do.
THEOREM TypeCorrect == Spec => []TypeOK
<1>1. Init => TypeOK BY InitType
<1>2. TypeOK /\ [Next]_vars => TypeOK'
  BY FlagsPreserved, DriverPreserved, ItfsPreserved, LocalsPreserved DEF TypeOK
<1> QED BY <1>1, <1>2, PTL DEF Spec

-----------------------------------------------------------------------------
(* The inductive invariant *)

\* Nothing is open, waited for or signalled at boot.
LEMMA InitIInv == Init => IInv
<1> SUFFICES ASSUME Init PROVE IInv OBVIOUS
<1>1. TypeOK BY InitType
<1>2. EventsAccountForHandles BY DEF Init, EventsAccountForHandles
<1>3. TokenIsFresh /\ CdcWakeup /\ NmeaWakeup
  BY DEF Init, TokenIsFresh, CdcWakeup, NmeaWakeup, Holding
<1> QED BY <1>1, <1>2, <1>3 DEF IInv

\* Every open handle of a receiver that left has its event: unplugging queues
\* one for each, delivering moves it to the callback that closes the handle.
LEMMA EventsPreserved ==
  ASSUME TypeOK, EventsAccountForHandles, [Next]_vars
  PROVE  EventsAccountForHandles'
<1> USE DEF receiver, driver, TypeOK, TypeDriver, EventsAccountForHandles
<1>1. CASE Plug BY <1>1 DEF Plug
<1>2. CASE Unplug BY <1>2 DEF Unplug
<1>3. CASE StartStream \/ DataCb \/ Feed BY <1>3 DEF StartStream, DataCb, Feed
<1>4. CASE Deliver BY <1>4 DEF Deliver
<1>5. CASE CdcEventClear \/ CdcEventGive \/ NmeaEventGive
  BY <1>5 DEF CdcEventClear, CdcEventGive, NmeaEventGive
<1>6. CASE CdcEventClose BY <1>6, ReleasedClaim DEF CdcEventClose
<1>7. CASE NmeaEventClose BY <1>7, ReleasedClaim DEF NmeaEventClose
<1>8. CASE Open BY <1>8 DEF Open, CanOpen
<1>9. CASE HopClose BY <1>9, ReleasedClaim DEF HopClose, TypeItfs
<1>10. CASE CdcKeeps BY <1>10, CdcKeepsFrame
<1>11. CASE NmeaOpen BY <1>11 DEF NmeaOpen, CanOpen
<1>12. CASE NmeaOpenFails \/ NmeaMark \/ NmeaWake \/ NmeaDelay
  BY <1>12 DEF NmeaOpenFails, NmeaMark, NmeaWake, NmeaDelay
<1>13. CASE UNCHANGED vars BY <1>13 DEF vars
<1> QED BY <1>1, <1>2, <1>3, <1>4, <1>5, <1>6, <1>7, <1>8, <1>9, <1>10, <1>11, <1>12,
           <1>13, CdcTaskCases DEF Next, DriverStep, NmeaTask

\* A token given after the poll comes from the disconnect of the receiver.
LEMMA TokenPreserved ==
  ASSUME TypeOK, EventsAccountForHandles, TokenIsFresh, [Next]_vars
  PROVE  TokenIsFresh'
<1> USE DEF receiver, driver, locals, TypeOK, TypeDriver, TypeItfs, TokenIsFresh, Alive
<1>1. CASE Plug BY <1>1 DEF Plug, EventsAccountForHandles
<1>2. CASE Unplug \/ StartStream \/ DataCb \/ Feed
  BY <1>2 DEF Unplug, StartStream, DataCb, Feed
<1>3. CASE Deliver \/ CdcEventClear \/ NmeaEventGive
  BY <1>3 DEF Deliver, CdcEventClear, NmeaEventGive, status
<1>4. CASE CdcEventGive BY <1>4 DEF CdcEventGive, EventsAccountForHandles
<1>5. CASE CdcEventClose \/ NmeaEventClose
  <2>1. \A j \in Itf : claim'[j] = "cdc" => claim[j] = "cdc"
    BY <1>5, ReleasedClaim DEF CdcEventClose, NmeaEventClose
  <2>2. UNCHANGED <<plugged, pc, s_disconnected, itf>>
    BY <1>5 DEF CdcEventClose, NmeaEventClose
  <2> QED BY <2>1, <2>2
<1>6. CASE Open \/ HopClose BY <1>6 DEF Open, HopClose
<1>7. CASE CdcKeeps
  <2>1. CASE OpenFails \/ Retry \/ Publish \/ PublishStatus \/ Provision
    BY <2>1 DEF OpenFails, Retry, Publish, PublishStatus, Provision
  <2>2. CASE Acked \/ AssumedApplied \/ NotProvisioned \/ SetProvisioned \/ Base
    BY <2>2 DEF Acked, AssumedApplied, NotProvisioned, SetProvisioned, Base
  <2>3. CASE DwellDisconnected \/ DwellOn \/ HopClear \/ Unlatch
    BY <2>3 DEF DwellDisconnected, DwellOn, HopClear, Unlatch, Rescan
  <2>4. CASE DwellTimeout250 BY <2>4 DEF DwellTimeout250
  <2>5. CASE Latch BY <2>5 DEF Latch
  <2> QED BY <1>7, <2>1, <2>2, <2>3, <2>4, <2>5 DEF CdcKeeps
<1>8. CASE NmeaOpen BY <1>8 DEF NmeaOpen
<1>9. CASE NmeaOpenFails \/ NmeaMark \/ NmeaWake \/ NmeaDelay
  BY <1>9 DEF NmeaOpenFails, NmeaMark, NmeaWake, NmeaDelay
<1>10. CASE UNCHANGED vars BY <1>10 DEF vars
<1> QED BY <1>1, <1>2, <1>3, <1>4, <1>5, <1>6, <1>7, <1>8, <1>9, <1>10, CdcTaskCases
     DEF Next, DriverStep, NmeaTask

\* cdc_task's wakeup survives: the handle's close is one step of a callback
\* that goes on to give the semaphore, and only cdc_task takes the semaphore.
LEMMA CdcWakeupPreserved ==
  ASSUME TypeOK, CdcWakeup, [Next]_vars
  PROVE  CdcWakeup'
<1> USE DEF receiver, driver, locals, TypeOK, TypeDriver, TypeItfs, CdcWakeup,
            CdcEventRunning
<1>1. CASE Plug \/ Unplug \/ StartStream \/ DataCb \/ Feed
  BY <1>1 DEF Plug, Unplug, StartStream, DataCb, Feed
<1>2. CASE Deliver BY <1>2 DEF Deliver
<1>3. CASE CdcEventClear \/ CdcEventClose \/ CdcEventGive
  BY <1>3 DEF CdcEventClear, CdcEventClose, CdcEventGive
<1>4. CASE NmeaEventClose
  <2>1. \A j \in Itf : claim[j] = "cdc" => claim'[j] = "cdc"
    BY <1>4, ReleasedClaim DEF NmeaEventClose
  <2> QED BY <1>4, <2>1 DEF NmeaEventClose
<1>5. CASE NmeaEventGive BY <1>5 DEF NmeaEventGive
<1>6. CASE Open BY <1>6, ComItf DEF Open, TypeLocals
<1>7. CASE HopClose BY <1>7 DEF HopClose, Holding
<1>8. CASE CdcKeeps
  <2> USE DEF Holding
  <2>1. CASE OpenFails \/ Retry \/ Publish \/ PublishStatus \/ Provision
    BY <2>1 DEF OpenFails, Retry, Publish, PublishStatus, Provision
  <2>2. CASE Acked \/ AssumedApplied \/ NotProvisioned \/ SetProvisioned \/ Base
    BY <2>2 DEF Acked, AssumedApplied, NotProvisioned, SetProvisioned, Base
  <2>3. CASE DwellDisconnected \/ DwellTimeout250 \/ Latch
    BY <2>3 DEF DwellDisconnected, DwellTimeout250, Latch, Rescan
  <2>4. CASE DwellOn \/ HopClear \/ Unlatch
    BY <2>4 DEF DwellOn, HopClear, Unlatch, Rescan
  <2> QED BY <1>8, <2>1, <2>2, <2>3, <2>4 DEF CdcKeeps
<1>9. CASE NmeaOpen BY <1>9 DEF NmeaOpen, CanOpen
<1>10. CASE NmeaOpenFails \/ NmeaMark \/ NmeaWake \/ NmeaDelay
  BY <1>10 DEF NmeaOpenFails, NmeaMark, NmeaWake, NmeaDelay
<1>11. CASE UNCHANGED vars BY <1>11 DEF vars
<1> QED BY <1>1, <1>2, <1>3, <1>4, <1>5, <1>6, <1>7, <1>8, <1>9, <1>10, <1>11,
           CdcTaskCases DEF Next, DriverStep, NmeaTask

\* nmea_task's handle goes only through nmea_event_cb, which goes on to wake it.
LEMMA NmeaWakeupPreserved ==
  ASSUME TypeOK, NmeaWakeup, [Next]_vars
  PROVE  NmeaWakeup'
<1> USE DEF receiver, driver, nmea, TypeOK, TypeDriver, TypeItfs, NmeaWakeup,
            NmeaEventRunning
<1>0. NMEA_ITF \in Itf BY DEF NMEA_ITF, Itf
<1>1. CASE Plug \/ Unplug \/ StartStream \/ DataCb \/ Feed
  BY <1>1 DEF Plug, Unplug, StartStream, DataCb, Feed
<1>2. CASE Deliver BY <1>2 DEF Deliver
<1>3. CASE CdcEventClear \/ CdcEventGive BY <1>3 DEF CdcEventClear, CdcEventGive
<1>4. CASE CdcEventClose \/ HopClose
  <2>1. \A j \in Itf : claim[j] = "nmea" => claim'[j] = "nmea"
    BY <1>4, ReleasedClaim DEF CdcEventClose, HopClose
  <2> QED BY <1>0, <1>4, <2>1 DEF CdcEventClose, HopClose
<1>5. CASE NmeaEventClose \/ NmeaEventGive BY <1>5 DEF NmeaEventClose, NmeaEventGive
<1>6. CASE Open BY <1>0, <1>6 DEF Open, CanOpen
<1>7. CASE CdcKeeps BY <1>7, CdcKeepsFrame
<1>8. CASE NmeaOpen BY <1>0, <1>8 DEF NmeaOpen
<1>9. CASE NmeaOpenFails \/ NmeaMark \/ NmeaWake \/ NmeaDelay
  BY <1>9 DEF NmeaOpenFails, NmeaMark, NmeaWake, NmeaDelay
<1>10. CASE UNCHANGED vars BY <1>10 DEF vars
<1> QED BY <1>1, <1>2, <1>3, <1>4, <1>5, <1>6, <1>7, <1>8, <1>9, <1>10,
           CdcTaskCases DEF Next, DriverStep, NmeaTask

\* IInv holds in every reachable state.
THEOREM Inductive == Spec => []IInv
<1>1. Init => IInv BY InitIInv
<1>2. IInv /\ [Next]_vars => IInv'
  BY FlagsPreserved, DriverPreserved, ItfsPreserved, LocalsPreserved, EventsPreserved,
     TokenPreserved, CdcWakeupPreserved, NmeaWakeupPreserved DEF IInv, TypeOK
<1> QED BY <1>1, <1>2, PTL DEF Spec

-----------------------------------------------------------------------------
(* The properties *)

\* Neither task waits for a wakeup that was lost: cdc_task's wait at
\* usb_cdc_source.c:342 and nmea_task's at nmea_source.c:197.
THEOREM NoLostWakeup == Spec => [](CdcWakeup /\ NmeaWakeup)
<1>1. IInv => CdcWakeup /\ NmeaWakeup BY DEF IInv
<1> QED BY <1>1, Inductive, PTL

\* Only the receiver's unplug ends a latched stream (usb_cdc_source.c:342,
\* "stay until unplug"), however often it is unplugged during a sweep.
THEOREM StaysLatched == Spec => LatchedUntilUnplug
<1>1. ASSUME IInv, [Next]_vars, pc = "latched", pc' # "latched"
      PROVE  ~Alive(itf)
  <2> USE <1>1 DEF locals
  <2>1. CASE Unlatch BY <2>1 DEF Unlatch, IInv, TokenIsFresh
  <2>2. CASE CdcTask
    <3>1. ~(Open \/ OpenFails \/ Retry \/ Publish \/ PublishStatus \/ Provision \/ HopClose)
      BY DEF Open, OpenFails, Retry, Publish, PublishStatus, Provision, HopClose
    <3>2. ~(Acked \/ AssumedApplied \/ NotProvisioned \/ SetProvisioned \/ Base)
      BY DEF Acked, AssumedApplied, NotProvisioned, SetProvisioned, Base
    <3>3. ~(DwellDisconnected \/ DwellTimeout250 \/ Latch \/ DwellOn \/ HopClear)
      BY DEF DwellDisconnected, DwellTimeout250, Latch, DwellOn, HopClear
    <3> QED BY <2>1, <2>2, <3>1, <3>2, <3>3 DEF CdcTask
  <2>3. CASE Plug \/ Unplug \/ StartStream \/ DataCb \/ Feed
    BY <2>3 DEF Plug, Unplug, StartStream, DataCb, Feed
  <2>4. CASE DriverStep
    BY <2>4 DEF DriverStep, Deliver, CdcEventClear, CdcEventClose, CdcEventGive,
         NmeaEventClose, NmeaEventGive
  <2>5. CASE NmeaTask
    BY <2>5 DEF NmeaTask, NmeaOpen, NmeaOpenFails, NmeaMark, NmeaWake, NmeaDelay
  <2>6. CASE UNCHANGED vars BY <2>6 DEF vars
  <2> QED BY <2>2, <2>3, <2>4, <2>5, <2>6 DEF Next
<1>2. IInv /\ [Next]_vars => [pc = "latched" /\ pc' # "latched" => ~Alive(itf)]_vars
  BY <1>1
<1> QED BY <1>2, Inductive, PTL DEF Spec, LatchedUntilUnplug
=============================================================================
