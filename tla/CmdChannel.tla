----------------------------- MODULE CmdChannel ------------------------------
(***************************************************************************)
(* The command channel to the receiver: usb_cdc_send_command and the       *)
(* capture in cdc_data_cb (main/usb_cdc_source.c:182-244).  It is called   *)
(* by cdc_task (mosaic_provision), by the console (`mosaic`) and by the    *)
(* web server (POST /admin/mosaic), each on a task of its own and without  *)
(* a lock; the capture buffer and the capture flag are shared.             *)
(*                                                                         *)
(* FreeRTOS's stream buffer is external.  Its contract: a reset does       *)
(* nothing while a task is blocked on the buffer; a receive takes what is  *)
(* there, up to its maximum, and blocks only on an empty buffer; a second  *)
(* task that would block fails an assertion, which restarts the box; a     *)
(* send queues what fits and wakes the blocked task.                       *)
(*                                                                         *)
(* A chunk of bytes is represented by the call that was waiting for its    *)
(* reply, past its reset, when the chunk arrived, if that was the only     *)
(* call at the time.                                                       *)
(***************************************************************************)
EXTENDS Integers, Sequences, FiniteSets

CONSTANTS
  Callers,      \* tasks that call usb_cdc_send_command, one call at a time
  RxBytes,      \* chunks s_cmd_rx holds
  ReplyMax      \* chunks the reply buffer of a caller holds, reply_max - 1

NoCaller == "none"

ASSUME CallerAssumption == IsFiniteSet(Callers) /\ NoCaller \notin Callers
ASSUME SizeAssumption == RxBytes \in Nat \ {0} /\ ReplyMax \in Nat \ {0}

Null == 0
Buffers == 1..Cardinality(Callers)    \* a buffer is created at most once a caller

VARIABLES
  s_cdc,                    \* an interface is open and its handle published
  s_cmd_rx, s_cmd_capture,  \* the shared capture buffer and flag
  created, buf, waiting,    \* stream buffers: how many, contents, blocked task
  cpc,                      \* caller -> where its call is
  reading,                  \* caller -> the buffer its receive was called with
  closed,                   \* caller -> its copy of s_cdc was closed meanwhile
  got,                      \* caller -> chunks received so far
  dpc, chunk,               \* cdc_data_cb: its next step, and its data
  alone, stale              \* history: no other call ran during the call of
                            \* this caller; chunks it got from before its reset

shared == <<s_cmd_rx, s_cmd_capture, created, buf, waiting>>
calls == <<cpc, reading, closed, got>>
callback == <<dpc, chunk>>
history == <<alone, stale>>
vars == <<s_cdc, shared, calls, callback, history>>

Reboot(next) == [c \in Callers |-> next]

Init ==
  /\ s_cdc = FALSE
  /\ s_cmd_rx = Null /\ s_cmd_capture = FALSE
  /\ created = 0 /\ buf = [b \in Buffers |-> <<>>] /\ waiting = [b \in Buffers |-> NoCaller]
  /\ cpc = Reboot("idle") /\ reading = Reboot(Null) /\ closed = Reboot(FALSE) /\ got = Reboot(0)
  /\ dpc = "idle" /\ chunk = NoCaller
  /\ alone = Reboot(FALSE) /\ stale = Reboot(0)

\* A failed assertion, or a use of a freed handle that goes that way.
Restart ==
  /\ s_cdc' = FALSE
  /\ s_cmd_rx' = Null /\ s_cmd_capture' = FALSE
  /\ created' = 0 /\ buf' = [b \in Buffers |-> <<>>] /\ waiting' = [b \in Buffers |-> NoCaller]
  /\ cpc' = Reboot("idle") /\ reading' = Reboot(Null) /\ closed' = Reboot(FALSE) /\ got' = Reboot(0)
  /\ dpc' = "idle" /\ chunk' = NoCaller
  /\ alone' = Reboot(FALSE) /\ stale' = Reboot(0)

Active == {c \in Callers : cpc[c] /= "idle"}
BeforeSend == {"buffer", "create", "reset", "capture", "send"}

-----------------------------------------------------------------------------
(* The handle: published after the open, and unpublished before the close by  *)
(* a hop of cdc_task or by the disconnect callback                             *)

OpenItf == ~s_cdc /\ s_cdc' = TRUE /\ UNCHANGED <<shared, calls, callback, history>>

\* One step: a copy of s_cdc taken before either is closed after both.
CloseItf ==
  /\ s_cdc /\ s_cdc' = FALSE
  /\ closed' = [c \in Callers |-> closed[c] \/ cpc[c] \in BeforeSend]
  /\ UNCHANGED <<shared, cpc, reading, got, callback, history>>

-----------------------------------------------------------------------------
(* cdc_data_cb, on the driver's task                                           *)

Listens(c) == alone[c] /\ cpc[c] \notin {"buffer", "create", "reset"}

\* A chunk arrives: a reply, or what the interface streams.
Arrive ==
  /\ s_cdc /\ dpc = "idle" /\ dpc' = "test"
  /\ chunk' = IF \E c \in Callers : Listens(c) THEN CHOOSE c \in Callers : Listens(c)
                                               ELSE NoCaller
  /\ UNCHANGED <<s_cdc, shared, calls, history>>

TestCapture ==
  /\ dpc = "test"
  /\ dpc' = (IF s_cmd_capture /\ s_cmd_rx /= Null THEN "tee" ELSE "push")
  /\ UNCHANGED <<s_cdc, shared, calls, chunk, history>>

\* xStreamBufferSend without waiting: dropped when full; the task blocked on
\* the buffer is woken and no longer counts as waiting.
Tee ==
  /\ dpc = "tee" /\ dpc' = "push"
  /\ LET b == s_cmd_rx
     IN  IF Len(buf[b]) < RxBytes
           THEN /\ buf' = [buf EXCEPT ![b] = Append(@, chunk)]
                /\ waiting' = [waiting EXCEPT ![b] = NoCaller]
                /\ cpc' = [c \in Callers |-> IF c = waiting[b] THEN "woken" ELSE cpc[c]]
           ELSE UNCHANGED <<buf, waiting, cpc>>
  /\ UNCHANGED <<s_cdc, s_cmd_rx, s_cmd_capture, created, reading, closed, got, chunk, history>>

\* rtcm_sink_push, module RtcmSink.
Push ==
  /\ dpc = "push" /\ dpc' = "idle" /\ chunk' = NoCaller
  /\ UNCHANGED <<s_cdc, shared, calls, history>>

DataCb == TestCapture \/ Tee \/ Push

-----------------------------------------------------------------------------
(* usb_cdc_send_command                                                        *)

Goto(c, next) == cpc' = [cpc EXCEPT ![c] = next]

\* Without an open interface the call returns at once and nothing changes.
Begin(c) ==
  /\ cpc[c] = "idle" /\ s_cdc
  /\ Goto(c, "buffer")
  /\ alone' = [d \in Callers |-> IF d = c THEN Active = {} ELSE alone[d] /\ d \notin Active]
  /\ stale' = Reboot(0)
  /\ UNCHANGED <<s_cdc, shared, reading, closed, got, callback>>

\* The first call creates the buffer; so do two first calls, and the buffer of
\* one of them is lost.
TestBuffer(c) ==
  /\ cpc[c] = "buffer" /\ Goto(c, IF s_cmd_rx = Null THEN "create" ELSE "reset")
  /\ UNCHANGED <<s_cdc, shared, reading, closed, got, callback, history>>

Returned(c) ==
  /\ Goto(c, "idle") /\ closed' = [closed EXCEPT ![c] = FALSE]
  /\ got' = [got EXCEPT ![c] = 0] /\ stale' = [stale EXCEPT ![c] = 0]
  /\ alone' = [alone EXCEPT ![c] = FALSE]

CreateBuffer(c) ==
  /\ cpc[c] = "create"
  /\ created' = created + 1 /\ s_cmd_rx' = created' /\ Goto(c, "reset")
  /\ UNCHANGED <<s_cdc, s_cmd_capture, buf, waiting, reading, closed, got, callback, history>>

\* Mutant: the reset is left out.
ResetBuffer_Keeps(c) ==
  /\ cpc[c] = "reset" /\ Goto(c, "capture")
  /\ UNCHANGED <<s_cdc, shared, reading, closed, got, callback, history>>

ResetBuffer(c) ==
  /\ cpc[c] = "reset" /\ Goto(c, "capture")
  /\ buf' = IF waiting[s_cmd_rx] = NoCaller THEN [buf EXCEPT ![s_cmd_rx] = <<>>] ELSE buf
  /\ UNCHANGED <<s_cdc, s_cmd_rx, s_cmd_capture, created, waiting, reading, closed, got, callback, history>>

StartCapture(c) ==
  /\ cpc[c] = "capture" /\ Goto(c, "send") /\ s_cmd_capture' = TRUE
  /\ UNCHANGED <<s_cdc, s_cmd_rx, created, buf, waiting, reading, closed, got, callback, history>>

\* Mutant: a failed transfer returns at once.
SendCommand_ReturnsEarly(c) ==
  /\ cpc[c] = "send"
  /\ \/ /\ Goto(c, "drain") /\ closed' = [closed EXCEPT ![c] = FALSE]
        /\ UNCHANGED <<got, history>>
     \/ Returned(c)
  /\ UNCHANGED <<s_cdc, shared, reading, callback>>

\* The command, then CR LF if that went well.  A transfer that fails or times
\* out is reported in the end, but the reply is waited for all the same.  On a
\* handle closed meanwhile it is a use of freed memory, which may crash.
SendCommand(c) ==
  /\ cpc[c] = "send"
  /\ \/ /\ Goto(c, "drain") /\ closed' = [closed EXCEPT ![c] = FALSE]
        /\ UNCHANGED <<s_cdc, shared, reading, got, callback, history>>
     \/ closed[c] /\ Restart

\* xStreamBufferReceive on b: it takes what is there and what fits.
Fits(c, b) == IF Len(buf[b]) < ReplyMax - got[c] THEN Len(buf[b]) ELSE ReplyMax - got[c]

\* Mutants: the reply is counted anew, or may overrun its buffer.
Received_Anew(c, b) == Fits(c, b)
Received_Overruns(c, b) == got[c] + Len(buf[b])
Received(c, b) == got[c] + Fits(c, b)

Take(c, b) ==
  LET n == Fits(c, b)
  IN  /\ buf' = [buf EXCEPT ![b] = SubSeq(@, n + 1, Len(@))]
      /\ got' = [got EXCEPT ![c] = Received(c, b)]
      /\ stale' = [stale EXCEPT ![c] =
                     IF alone[c] THEN @ + Cardinality({i \in 1..n : buf[b][i] /= c}) ELSE 0]

Drain(c) ==
  /\ cpc[c] = "drain" /\ got[c] < ReplyMax
  /\ IF buf[s_cmd_rx] /= <<>>
       THEN Take(c, s_cmd_rx) /\ UNCHANGED <<cpc, reading, waiting>>
       ELSE /\ waiting[s_cmd_rx] = NoCaller
            /\ waiting' = [waiting EXCEPT ![s_cmd_rx] = c]
            /\ reading' = [reading EXCEPT ![c] = s_cmd_rx] /\ Goto(c, "blocked")
            /\ UNCHANGED <<buf, got, stale>>
  /\ UNCHANGED <<s_cdc, s_cmd_rx, s_cmd_capture, created, closed, callback, alone>>

\* The second task that would block fails FreeRTOS's assertion.
Asserts(c) ==
  cpc[c] = "drain" /\ got[c] < ReplyMax /\ buf[s_cmd_rx] = <<>> /\ waiting[s_cmd_rx] /= NoCaller

DrainAborts(c) == Asserts(c) /\ Restart

\* No byte within the wait.
Timeout(c) ==
  /\ cpc[c] = "blocked" /\ Goto(c, "woken")
  /\ waiting' = [b \in Buffers |-> IF waiting[b] = c THEN NoCaller ELSE waiting[b]]
  /\ UNCHANGED <<s_cdc, s_cmd_rx, s_cmd_capture, created, buf, reading, closed, got, callback, history>>

\* The receive reads once more after it was woken or ran out of time; zero
\* bytes end the reply.
Wake(c) ==
  /\ cpc[c] = "woken"
  /\ reading' = [reading EXCEPT ![c] = Null]
  /\ IF buf[reading[c]] /= <<>> THEN Take(c, reading[c]) /\ Goto(c, "drain")
                                ELSE Goto(c, "done") /\ UNCHANGED <<buf, got, stale>>
  /\ UNCHANGED <<s_cdc, s_cmd_rx, s_cmd_capture, created, waiting, closed, callback, alone>>

ReplyFull(c) ==
  /\ cpc[c] = "drain" /\ got[c] >= ReplyMax /\ Goto(c, "done")
  /\ UNCHANGED <<s_cdc, shared, reading, closed, got, callback, history>>

StopCapture(c) ==
  /\ cpc[c] = "done" /\ s_cmd_capture' = FALSE /\ Returned(c)
  /\ UNCHANGED <<s_cdc, s_cmd_rx, created, buf, waiting, reading, callback>>

Step(c) ==
  \/ TestBuffer(c) \/ CreateBuffer(c) \/ ResetBuffer(c) \/ StartCapture(c) \/ SendCommand(c)
  \/ Drain(c) \/ DrainAborts(c) \/ Timeout(c) \/ Wake(c) \/ ReplyFull(c) \/ StopCapture(c)

-----------------------------------------------------------------------------
Next == OpenItf \/ CloseItf \/ Arrive \/ DataCb
        \/ \E c \in Callers : Begin(c) \/ Step(c)

Spec == Init /\ [][Next]_vars

\* Tasks go on, transfers and waits have timeouts.
FairSpec == Spec /\ WF_vars(DataCb) /\ \A c \in Callers : WF_vars(Step(c))

-----------------------------------------------------------------------------
(* Properties *)

\* Types, and the three bounds: two first calls at once create no more buffers
\* than there are callers, the capture buffer holds what it was made for, and a
\* reply never exceeds the caller's (usb_cdc_source.c:210-236).
TypeOK ==
  /\ s_cdc \in BOOLEAN
  /\ created \in 0..Cardinality(Callers) /\ s_cmd_rx \in 0..created /\ s_cmd_capture \in BOOLEAN
  /\ \A b \in Buffers : buf[b] \in Seq(Callers \cup {NoCaller}) /\ Len(buf[b]) <= RxBytes
  /\ waiting \in [Buffers -> Callers \cup {NoCaller}]
  /\ cpc \in [Callers -> {"idle", "buffer", "create", "reset", "capture", "send", "drain",
                          "blocked", "woken", "done"}]
  /\ reading \in [Callers -> 0..created] /\ closed \in [Callers -> BOOLEAN]
  /\ got \in [Callers -> 0..ReplyMax]
  /\ dpc \in {"idle", "test", "tee", "push"} /\ chunk \in Callers \cup {NoCaller}
  /\ alone \in [Callers -> BOOLEAN] /\ stale \in [Callers -> Nat]

\* When nobody waits for a reply nothing is captured, whatever way the calls
\* ended and however they overlapped (usb_cdc_source.c:184-187).
CaptureQuiet == Active = {} => ~s_cmd_capture

\* A call that no other one overlapped returns what arrived after it began,
\* but for the one chunk a callback may have held since the call before.
ReplyIsRecent == \A c \in Callers : alone[c] => stale[c] <= 1

\* Every call returns, also while the port streams without a pause.
CallsReturn == \A c \in Callers : cpc[c] /= "idle" ~> cpc[c] = "idle"

-----------------------------------------------------------------------------
(* What a comment of the code says, and TLC refutes *)

\* rtcm_sink.h:26, "a FreeRTOS StreamBuffer allows only one" reader: no task
\* receives from a capture buffer while another waits on it.
OneReader == \A c \in Callers : ~Asserts(c)
=============================================================================
