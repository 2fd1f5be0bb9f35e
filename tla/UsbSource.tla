------------------------------ MODULE UsbSource ------------------------------
(***************************************************************************)
(* The byte source of the caster (main/usb_cdc_source.c, with the calls it *)
(* makes into main/mosaic_config.c) and the second reader of the same USB  *)
(* device (main/nmea_source.c).                                            *)
(*                                                                         *)
(* Four tasks and the cable take part:                                     *)
(*   - the receiver and its cable: plug, unplug, start streaming;          *)
(*   - the CDC driver task, which delivers data and disconnect events and  *)
(*     runs cdc_event_cb / nmea_event_cb one at a time;                    *)
(*   - cdc_task, which sweeps interfaces 0, 2, 4 for valid RTCM3;          *)
(*   - nmea_task, which opens interface 4 and holds it;                    *)
(*   - rtcm_feed_task, which moves frames to rtcm_monitor.                 *)
(*                                                                         *)
(* esp-idf's cdc_acm_host is external.  Its contract, as the code relies   *)
(* on it: an interface is claimed by at most one handle; open succeeds iff *)
(* a device is attached and the interface is unclaimed; close of a handle  *)
(* already closed does nothing; when the device goes away every open       *)
(* handle gets one disconnect event; a device is enumerated again only     *)
(* after the events of the previous one were delivered.                    *)
(***************************************************************************)
EXTENDS Integers, Sequences

CONSTANTS
  RtcmItf,      \* the interface the receiver streams RTCM3 on (USB1)
  CmdItfs,      \* the interfaces that answer a command in time
  ChatterItfs,  \* the interfaces that emit bytes other than RTCM3
  ShortDwell,   \* polls of the dwell loop, MOSAIC_SWEEP_DWELL_MS / 250
  LongDwell,    \* polls of the dwell loop after provisioning, 15000 / 250
  MaxPlugs,     \* bound on the times the receiver is plugged in
  MaxPend       \* frames the sink holds

MOSAIC_COM_ITFS == <<0, 2, 4>>
NMEA_ITF == 4
Itf == {0, 2, 4}
NoItf == 255          \* cur_itf = stream_itf = 0xFF, and s_cdc = NULL

ASSUME RtcmAssumption == RtcmItf \in Itf /\ CmdItfs \subseteq Itf /\ ChatterItfs \subseteq Itf
ASSUME BoundAssumption ==
  /\ ShortDwell \in Nat \ {0} /\ LongDwell \in Nat /\ ShortDwell <= LongDwell
  /\ MaxPlugs \in Nat /\ MaxPend \in Nat \ {0}

\* Locals of cdc_task are reset to their first value where they go out of use.
VARIABLES
  plugged, plugs,          \* the cable, and how often it was plugged in
  answers,                 \* the receiver acks every command it is sent
  configured, streaming,   \* it was told to stream RTCM3; it does
  claim,                   \* interface -> the callback set of its open handle
  gone,                    \* interfaces whose disconnect event is undelivered
  drv, ev,                 \* what the driver task runs, and for which handle
  s_disconnected,          \* usb_cdc_source.c: the binary semaphore
  s_cdc, s_provisioned,
  cdc_open, cur_itf, stream_itf,
  pc, sweep, itf, provisioned_here, waited,    \* cdc_task's locals
  due,                     \* timing: a frame is due within this dwell
  pend, advanced,          \* frames in the sink; valid_frames > base
  npc, n_disconnected, itf_open                \* nmea_source.c

receiver == <<plugged, plugs, answers, configured, streaming>>
driver == <<claim, gone, drv, ev>>
status == <<s_cdc, s_provisioned, cdc_open, cur_itf, stream_itf>>
locals == <<pc, sweep, itf, provisioned_here, waited, due>>
pipe == <<pend, advanced>>
nmea == <<npc, n_disconnected, itf_open>>
vars == <<receiver, driver, s_disconnected, status, locals, pipe, nmea>>

Init ==
  /\ plugged = FALSE /\ plugs = 0 /\ answers = FALSE
  /\ configured = FALSE /\ streaming = FALSE
  /\ claim = [i \in Itf |-> "free"] /\ gone = {} /\ drv = "idle" /\ ev = 0
  /\ s_disconnected = FALSE /\ s_cdc = NoItf /\ s_provisioned = FALSE
  /\ cdc_open = FALSE /\ cur_itf = NoItf /\ stream_itf = NoItf
  /\ pc = "open" /\ sweep = 0 /\ itf = 0 /\ provisioned_here = FALSE
  /\ waited = 0 /\ due = FALSE /\ pend = 0 /\ advanced = FALSE
  /\ npc = "open" /\ n_disconnected = FALSE /\ itf_open = FALSE

-----------------------------------------------------------------------------
(* The receiver and its cable *)

\* Any receiver: configured by its saved configuration, or factory fresh.
Plug ==
  /\ ~plugged /\ plugs < MaxPlugs /\ gone = {} /\ drv = "idle"
  /\ plugged' = TRUE /\ plugs' = plugs + 1
  /\ answers' \in BOOLEAN /\ configured' \in BOOLEAN /\ streaming' = FALSE
  /\ UNCHANGED <<driver, s_disconnected, status, locals, pipe, nmea>>

Unplug ==
  /\ plugged
  /\ plugged' = FALSE /\ answers' = FALSE /\ configured' = FALSE /\ streaming' = FALSE
  /\ gone' = {i \in Itf : claim[i] # "free"}
  /\ UNCHANGED <<plugs, claim, drv, ev, s_disconnected, status, locals, pipe, nmea>>

StartStream ==
  /\ plugged /\ configured /\ ~streaming
  /\ streaming' = TRUE
  /\ UNCHANGED <<plugged, plugs, answers, configured, driver, s_disconnected,
                 status, locals, pipe, nmea>>

-----------------------------------------------------------------------------
(* The CDC driver task *)

\* cdc_data_cb with a frame of the RTCM3 interface; a full sink drops it.
DataCb ==
  /\ drv = "idle" /\ plugged /\ streaming /\ claim[RtcmItf] = "cdc"
  /\ pend < MaxPend /\ pend' = pend + 1
  /\ UNCHANGED <<receiver, driver, s_disconnected, status, locals, advanced, nmea>>

\* The driver takes up the disconnect event of one handle.
Deliver ==
  /\ drv = "idle"
  /\ \E i \in gone :
       /\ ev' = i /\ gone' = gone \ {i}
       /\ drv' = IF claim[i] = "cdc" THEN "cdc_clear" ELSE "nmea_close"
  /\ UNCHANGED <<receiver, claim, s_disconnected, status, locals, pipe, nmea>>

\* close(h) for the handle that `owner` has on interface i
Released(i, owner) == IF claim[i] = owner THEN [claim EXCEPT ![i] = "free"] ELSE claim

CdcEventClear ==
  /\ drv = "cdc_clear" /\ drv' = "cdc_close"
  /\ s_cdc' = NoItf /\ s_provisioned' = FALSE
  /\ UNCHANGED <<receiver, claim, gone, ev, s_disconnected, cdc_open, cur_itf,
                 stream_itf, locals, pipe, nmea>>

CdcEventClose ==
  /\ drv = "cdc_close" /\ drv' = "cdc_give"
  /\ claim' = Released(ev, "cdc") /\ cdc_open' = FALSE
  /\ UNCHANGED <<receiver, gone, ev, s_disconnected, s_cdc, s_provisioned,
                 cur_itf, stream_itf, locals, pipe, nmea>>

\* Mutant: gives the semaphore only once a stream was latched.
CdcEventGive_OnlyIfOpen ==
  /\ drv = "cdc_give" /\ drv' = "idle"
  /\ s_disconnected' = (s_disconnected \/ stream_itf # NoItf) /\ ev' = 0
  /\ UNCHANGED <<receiver, claim, gone, status, locals, pipe, nmea>>

CdcEventGive ==
  /\ drv = "cdc_give" /\ drv' = "idle"
  /\ s_disconnected' = TRUE /\ ev' = 0
  /\ UNCHANGED <<receiver, claim, gone, status, locals, pipe, nmea>>

NmeaEventClose ==
  /\ drv = "nmea_close" /\ drv' = "nmea_give"
  /\ claim' = Released(ev, "nmea")
  /\ UNCHANGED <<receiver, gone, ev, s_disconnected, status, locals, pipe, nmea>>

\* Mutant: forgets to wake nmea_task.
NmeaEventGive_Forgets ==
  /\ drv = "nmea_give" /\ drv' = "idle" /\ itf_open' = FALSE /\ ev' = 0
  /\ UNCHANGED <<receiver, claim, gone, s_disconnected, status, locals, pipe, npc,
                 n_disconnected>>

NmeaEventGive ==
  /\ drv = "nmea_give" /\ drv' = "idle"
  /\ itf_open' = FALSE /\ n_disconnected' = TRUE /\ ev' = 0
  /\ UNCHANGED <<receiver, claim, gone, s_disconnected, status, locals, pipe, npc>>

-----------------------------------------------------------------------------
(* cdc_task *)

\* cdc_acm_host_open would succeed on interface i.
CanOpen(i) == plugged /\ claim[i] = "free"

Open ==
  LET i == MOSAIC_COM_ITFS[sweep + 1] IN
  /\ pc = "open" /\ CanOpen(i)
  /\ claim' = [claim EXCEPT ![i] = "cdc"] /\ itf' = i /\ pc' = "publish"
  /\ UNCHANGED <<receiver, gone, drv, ev, s_disconnected, status, sweep,
                 provisioned_here, waited, due, pipe, nmea>>

OpenFails ==
  /\ pc = "open" /\ ~CanOpen(MOSAIC_COM_ITFS[sweep + 1])
  /\ pc' = "retry"
  /\ UNCHANGED <<receiver, driver, s_disconnected, status, sweep, itf,
                 provisioned_here, waited, due, pipe, nmea>>

Retry ==
  /\ pc = "retry" /\ pc' = "open"
  /\ UNCHANGED <<receiver, driver, s_disconnected, status, sweep, itf,
                 provisioned_here, waited, due, pipe, nmea>>

Publish ==
  /\ pc = "publish" /\ pc' = "status"
  /\ s_cdc' = itf
  /\ UNCHANGED <<receiver, driver, s_disconnected, s_provisioned, cdc_open,
                 cur_itf, stream_itf, sweep, itf, provisioned_here, waited, due,
                 pipe, nmea>>

PublishStatus ==
  /\ pc = "status" /\ pc' = "provision"
  /\ cdc_open' = TRUE /\ cur_itf' = itf
  /\ UNCHANGED <<receiver, driver, s_disconnected, s_cdc, s_provisioned,
                 stream_itf, sweep, itf, provisioned_here, waited, due, pipe, nmea>>

\* `if (!s_provisioned)`, and send_command's test of s_cdc
Provision ==
  /\ pc = "provision"
  /\ pc' = IF s_provisioned \/ s_cdc = NoItf THEN "base" ELSE "reply"
  /\ provisioned_here' = FALSE
  /\ UNCHANGED <<receiver, driver, s_disconnected, status, sweep, itf, waited,
                 due, pipe, nmea>>

\* The handle is open on an attached receiver.
Alive(i) == plugged /\ claim[i] = "cdc"

\* "$R:": the receiver took the command.
Acked ==
  /\ pc = "reply" /\ Alive(itf) /\ itf \in CmdItfs
  /\ configured' = TRUE /\ pc' = "acked"
  /\ UNCHANGED <<plugged, plugs, answers, streaming, driver, s_disconnected,
                 status, sweep, itf, provisioned_here, waited, due, pipe, nmea>>

\* Bytes but no "$R:" : mosaic_provision assumes the command applied.
AssumedApplied ==
  /\ pc = "reply" /\ Alive(itf)
  /\ itf \in ChatterItfs \/ (itf = RtcmItf /\ streaming)
  /\ configured' \in {configured, TRUE} /\ pc' = "acked"
  /\ UNCHANGED <<plugged, plugs, answers, streaming, driver, s_disconnected,
                 status, sweep, itf, provisioned_here, waited, due, pipe, nmea>>

\* TX error, "$R?" or no reply at all: fall back to the saved config.
NotProvisioned ==
  /\ pc = "reply" /\ (answers => ~(Alive(itf) /\ itf \in CmdItfs))
  /\ pc' = "base"
  /\ UNCHANGED <<receiver, driver, s_disconnected, status, sweep, itf,
                 provisioned_here, waited, due, pipe, nmea>>

\* provision_nmea returned whatever it met; mosaic_provision() == ESP_OK.
SetProvisioned ==
  /\ pc = "acked" /\ pc' = "base"
  /\ s_provisioned' = TRUE /\ provisioned_here' = TRUE
  /\ UNCHANGED <<receiver, driver, s_disconnected, s_cdc, cdc_open, cur_itf,
                 stream_itf, sweep, itf, waited, due, pipe, nmea>>

DwellPolls_Short == ShortDwell    \* mutant
DwellPolls == IF provisioned_here THEN LongDwell ELSE ShortDwell

\* rtcm_monitor_get(&base).  `due` is the timing of the receiver: streaming at
\* 1 Hz it delivers a frame within the short dwell, and once configured it
\* starts its output within the long one.
Base ==
  /\ pc = "base" /\ pc' = "dwell" /\ waited' = 0 /\ advanced' = FALSE
  /\ due' = (Alive(itf) /\ itf = RtcmItf /\ (streaming \/ (configured /\ DwellPolls >= LongDwell)))
  /\ UNCHANGED <<receiver, driver, s_disconnected, status, sweep, itf,
                 provisioned_here, pend, nmea>>

Rescan ==
  /\ s_disconnected' = FALSE /\ cur_itf' = NoItf /\ sweep' = 0 /\ pc' = "open"
  /\ provisioned_here' = FALSE /\ waited' = 0 /\ due' = FALSE /\ advanced' = FALSE
  /\ UNCHANGED <<receiver, driver, s_cdc, s_provisioned, cdc_open, stream_itf,
                 itf, pend, nmea>>

DwellDisconnected == pc = "dwell" /\ s_disconnected /\ Rescan

\* Mutant: looks at the frame count first, whatever the semaphore says.
DwellTimeout250_FramesFirst ==
  /\ pc = "dwell" /\ pc' = "check"
  /\ UNCHANGED <<receiver, driver, s_disconnected, status, sweep, itf,
                 provisioned_here, waited, due, pipe, nmea>>

DwellTimeout250 ==
  /\ pc = "dwell" /\ ~s_disconnected /\ pc' = "check"
  /\ UNCHANGED <<receiver, driver, s_disconnected, status, sweep, itf,
                 provisioned_here, waited, due, pipe, nmea>>

Latch ==
  /\ pc = "check" /\ advanced
  /\ stream_itf' = itf /\ pc' = "latched"
  /\ provisioned_here' = FALSE /\ waited' = 0 /\ due' = FALSE /\ advanced' = FALSE
  /\ UNCHANGED <<receiver, driver, s_disconnected, s_cdc, s_provisioned,
                 cdc_open, cur_itf, sweep, itf, pend, nmea>>

DwellOn ==
  /\ pc = "check" /\ ~advanced /\ waited + 1 < DwellPolls
  /\ waited' = waited + 1 /\ pc' = "dwell"
  /\ UNCHANGED <<receiver, driver, s_disconnected, status, sweep, itf,
                 provisioned_here, due, pipe, nmea>>

\* The dwell ran out: `s_cdc = NULL`.
HopClear ==
  /\ pc = "check" /\ ~advanced /\ waited + 1 >= DwellPolls
  /\ ~(due /\ Alive(itf))
  /\ s_cdc' = NoItf /\ pc' = "hop"
  /\ UNCHANGED <<receiver, driver, s_disconnected, s_provisioned, cdc_open,
                 cur_itf, stream_itf, sweep, itf, provisioned_here, waited, due,
                 pipe, nmea>>

NextSweep == (sweep + 1) % Len(MOSAIC_COM_ITFS)

HopClose ==
  /\ pc = "hop" /\ pc' = "open"
  /\ claim' = Released(itf, "cdc")
  /\ gone' = IF claim[itf] = "cdc" THEN gone \ {itf} ELSE gone
  /\ cdc_open' = FALSE /\ cur_itf' = NoItf
  /\ sweep' = NextSweep
  /\ provisioned_here' = FALSE /\ waited' = 0 /\ due' = FALSE /\ advanced' = FALSE
  /\ UNCHANGED <<receiver, drv, ev, s_disconnected, s_cdc, s_provisioned,
                 stream_itf, itf, pend, nmea>>

\* `xSemaphoreTake(s_disconnected, portMAX_DELAY)` returned.
Unlatch == pc = "latched" /\ s_disconnected /\ Rescan

-----------------------------------------------------------------------------
(* rtcm_feed_task *)

\* A frame reaches rtcm_monitor: valid_frames passes the base of a dwell.
Feed ==
  /\ pend > 0 /\ pend' = pend - 1
  /\ advanced' = (advanced \/ pc \in {"dwell", "check"})
  /\ UNCHANGED <<receiver, driver, s_disconnected, status, locals, nmea>>

-----------------------------------------------------------------------------
(* nmea_task *)

NmeaOpen ==
  /\ npc = "open" /\ CanOpen(NMEA_ITF)
  /\ claim' = [claim EXCEPT ![NMEA_ITF] = "nmea"] /\ npc' = "mark"
  /\ UNCHANGED <<receiver, gone, drv, ev, s_disconnected, status, locals, pipe,
                 n_disconnected, itf_open>>

NmeaOpenFails ==
  /\ npc = "open" /\ ~CanOpen(NMEA_ITF) /\ npc' = "delay"
  /\ UNCHANGED <<receiver, driver, s_disconnected, status, locals, pipe,
                 n_disconnected, itf_open>>

NmeaMark ==
  /\ npc = "mark" /\ npc' = "wait" /\ itf_open' = TRUE
  /\ UNCHANGED <<receiver, driver, s_disconnected, status, locals, pipe, n_disconnected>>

NmeaWake ==
  /\ npc = "wait" /\ n_disconnected
  /\ n_disconnected' = FALSE /\ npc' = "delay"
  /\ UNCHANGED <<receiver, driver, s_disconnected, status, locals, pipe, itf_open>>

NmeaDelay ==
  /\ npc = "delay" /\ npc' = "open"
  /\ UNCHANGED <<receiver, driver, s_disconnected, status, locals, pipe,
                 n_disconnected, itf_open>>

-----------------------------------------------------------------------------
DriverStep ==
  Deliver \/ CdcEventClear \/ CdcEventClose \/ CdcEventGive
    \/ NmeaEventClose \/ NmeaEventGive
CdcTask ==
  Open \/ OpenFails \/ Retry \/ Publish \/ PublishStatus \/ Provision
    \/ Acked \/ AssumedApplied \/ NotProvisioned \/ SetProvisioned \/ Base
    \/ DwellDisconnected \/ DwellTimeout250 \/ Latch \/ DwellOn
    \/ HopClear \/ HopClose \/ Unlatch
NmeaTask == NmeaOpen \/ NmeaOpenFails \/ NmeaMark \/ NmeaWake \/ NmeaDelay

Next ==
  Plug \/ Unplug \/ StartStream \/ DataCb \/ DriverStep \/ CdcTask \/ Feed \/ NmeaTask

Spec == Init /\ [][Next]_vars

\* Every task keeps running: FreeRTOS schedules each of them, and a receiver
\* that was told to stream does.  Nobody has to plug or unplug anything.
Fairness ==
  /\ WF_vars(DriverStep) /\ WF_vars(CdcTask) /\ WF_vars(NmeaTask)
  /\ WF_vars(Feed) /\ WF_vars(DataCb) /\ WF_vars(StartStream)

FairSpec == Spec /\ Fairness

-----------------------------------------------------------------------------
(* Properties *)

\* Every variable keeps its type; in particular the sweep index never leaves
\* MOSAIC_COM_ITFS and the sink never holds more frames than it has room for.
TypeFlags ==
  /\ plugged \in BOOLEAN /\ answers \in BOOLEAN /\ configured \in BOOLEAN
  /\ streaming \in BOOLEAN
  /\ s_disconnected \in BOOLEAN /\ s_provisioned \in BOOLEAN /\ cdc_open \in BOOLEAN
  /\ provisioned_here \in BOOLEAN /\ due \in BOOLEAN /\ advanced \in BOOLEAN
  /\ n_disconnected \in BOOLEAN /\ itf_open \in BOOLEAN
TypeDriver ==
  /\ claim \in [Itf -> {"free", "cdc", "nmea"}] /\ gone \subseteq Itf /\ ev \in Itf
  /\ drv \in {"idle", "cdc_clear", "cdc_close", "cdc_give", "nmea_close", "nmea_give"}
TypeItfs ==
  /\ s_cdc \in Itf \cup {NoItf} /\ cur_itf \in Itf \cup {NoItf}
  /\ stream_itf \in Itf \cup {NoItf} /\ itf \in Itf
TypeLocals ==
  /\ pc \in {"open", "retry", "publish", "status", "provision", "reply", "acked",
             "base", "dwell", "check", "hop", "latched"}
  /\ npc \in {"open", "delay", "mark", "wait"}
  /\ plugs \in 0..MaxPlugs /\ sweep \in 0..2
  /\ waited \in 0..LongDwell /\ pend \in 0..MaxPend
TypeOK == TypeFlags /\ TypeDriver /\ TypeItfs /\ TypeLocals

\* The steps of cdc_task at which it relies on the handle it opened.
Holding == {"publish", "status", "provision", "reply", "acked", "base", "dwell",
            "check", "latched"}
CdcEventRunning == drv \in {"cdc_clear", "cdc_close", "cdc_give"}
NmeaEventRunning == drv \in {"nmea_close", "nmea_give"}

\* No lost wakeup: whenever cdc_task relies on a handle, that handle is still
\* open, or the semaphore it will wait on has been given, or a cdc_event_cb is
\* on its way to giving it (xSemaphoreTake(.., portMAX_DELAY) at :342).
CdcWakeup ==
  pc \in Holding => claim[itf] = "cdc" \/ s_disconnected \/ CdcEventRunning

\* The same for nmea_task's wait at nmea_source.c:197.
NmeaWakeup ==
  npc \in {"mark", "wait"} =>
    claim[NMEA_ITF] = "nmea" \/ n_disconnected \/ NmeaEventRunning

\* "stay until unplug": cdc_task gives up a latched interface only when its
\* handle was closed under it or the receiver is gone; a token left over from
\* an earlier disconnect never makes it drop a live stream.
LatchedUntilUnplug ==
  [][pc = "latched" /\ pc' # "latched" => ~Alive(itf)]_vars

\* A task that waits for the unplug of its handle notices it: both tasks come
\* back to opening once the receiver is gone, whatever the sweep was doing.
UnplugNoticed ==
  /\ (pc = "latched" /\ ~plugged) ~> (pc = "open")
  /\ (npc = "wait" /\ ~plugged) ~> (npc = "open")

\* The first receiver plugged in, if it acks the command that provisions it, ends
\* up latched on the interface that carries RTCM3 with its bytes flowing into
\* the sink (or is unplugged before that), whatever configuration it came with.
FirstAttachLatches ==
  (plugged /\ plugs = 1 /\ answers)
    ~> (~plugged \/ (pc = "latched" /\ itf = RtcmItf /\ stream_itf = RtcmItf
                       /\ Alive(itf)))

-----------------------------------------------------------------------------
(* Why these hold: the inductive invariant *)

\* Disconnect events exist only while the receiver is away, and until they are
\* all delivered they account for every handle that is still open.
EventsAccountForHandles ==
  /\ plugged => gone = {} /\ drv = "idle"
  /\ ~plugged => \A i \in Itf :
       /\ claim[i] = "cdc" => i \in gone \/ (drv \in {"cdc_clear", "cdc_close"} /\ ev = i)
       /\ claim[i] = "nmea" => i \in gone \/ (drv = "nmea_close" /\ ev = i)

\* Past the poll of the semaphore, a token stands for the handle in use: it was
\* given after the poll, by the disconnect of the receiver.
TokenIsFresh ==
  pc \in {"check", "latched"} /\ s_disconnected => ~Alive(itf)

\* The conjunction is inductive (UsbSourceProofs).
IInv ==
  TypeOK /\ EventsAccountForHandles /\ TokenIsFresh /\ CdcWakeup /\ NmeaWakeup

-----------------------------------------------------------------------------
(* What the comments of the code say, and TLC refutes *)

\* usb_cdc_source.c:324, "handle already closed by cdc_event_cb": when the
\* dwell loop takes the semaphore and starts over without closing, the handle
\* it opened is not an open handle on an attached receiver.
DisconnectedMeansClosed ==
  [][DwellDisconnected => ~Alive(itf)]_vars

\* usb_cdc_source.c:153, s_provisioned is "reset on disconnect so a
\* freshly-plugged receiver gets provisioned again": a dwell that skips
\* provisioning does so on a receiver that was told what to stream.
SkipMeansConfigured ==
  [][pc = "provision" /\ s_provisioned /\ pc' = "base" /\ Alive(itf)
       => configured]_vars

\* usb_cdc_source.c:48, "we SWEEP the three comm-interface indices until one
\* actually streams bytes": a receiver that stays plugged in and streams for
\* ever is latched at some point.
SweepFindsStream ==
  <>[](plugged /\ streaming) => <>(pc = "latched")
=============================================================================
