------------------------------- MODULE RtcmSink -------------------------------
(***************************************************************************)
(* The way of the bytes from the USB driver to the consumers               *)
(* (main/rtcm_sink.c): the sink that cdc_data_cb fills, rtcm_feed_task     *)
(* (main/app_main.c) that drains it into the monitor and the two tees, the *)
(* caster that reads the first tee and upstream.c's stream_loop that       *)
(* resets and reads the second.                                            *)
(*                                                                         *)
(* Bytes are numbered in order of arrival; byte b belongs to frame         *)
(* (b - 1) \div FrameLen.  FreeRTOS's StreamBuffer is external: a send     *)
(* without timeout queues the prefix that fits, a receive takes at most so *)
(* many of the oldest bytes, a reset empties the buffer.                   *)
(***************************************************************************)
EXTENDS Integers, Sequences

CONSTANTS
  SinkBytes, CasterBytes, UpstreamBytes,   \* sizes of the three buffers
  UsbChunk,      \* bytes in one data callback, at most
  FeedMax,       \* rtcm_feed_task's read size
  CasterMax, UpstreamMax,                  \* the consumers' read sizes
  FrameLen,      \* bytes of an RTCM3 frame
  MaxBytes       \* bound on the bytes the receiver sends

ASSUME SizesAssumption ==
  \A c \in {SinkBytes, CasterBytes, UpstreamBytes, UsbChunk, FeedMax, CasterMax,
            UpstreamMax, FrameLen} : c \in Nat \ {0}
ASSUME BytesAssumption == MaxBytes \in Nat

VARIABLES
  made,                                      \* bytes received from the receiver
  s_buf, s_caster_buf, s_upstream_buf,       \* the stream buffers
  fpc, chunk,                                \* rtcm_feed_task
  casterOn,                                  \* the caster runs
  link, upChunk,                             \* stream_loop
  monitored, cast, sent,                     \* history: bytes handed over
  mark, first       \* history: last byte teed before the reset of this
                    \* connection, first byte sent on it

feed == <<fpc, chunk>>
stream == <<link, upChunk, mark, first>>
vars == <<made, s_buf, s_caster_buf, s_upstream_buf, feed, casterOn, stream,
          monitored, cast, sent>>

Init ==
  /\ made = 0 /\ s_buf = <<>> /\ s_caster_buf = <<>> /\ s_upstream_buf = <<>>
  /\ fpc = "read" /\ chunk = <<>> /\ casterOn = FALSE
  /\ link = "down" /\ upChunk = <<>> /\ mark = 0 /\ first = 0
  /\ monitored = <<>> /\ cast = <<>> /\ sent = <<>>

Elements(s) == {s[i] : i \in 1..Len(s)}
Least(a, b) == IF a < b THEN a ELSE b

\* xStreamBufferSend(buf, data, len, 0) and xStreamBufferReceive
Queued(buf, data, size) == buf \o SubSeq(data, 1, Least(Len(data), size - Len(buf)))
Taken(buf, max) == SubSeq(buf, 1, Least(Len(buf), max))
Rest(buf, max) == SubSeq(buf, Least(Len(buf), max) + 1, Len(buf))

-----------------------------------------------------------------------------
(* The CDC driver task: cdc_data_cb calls rtcm_sink_push *)

DataCb ==
  \E n \in 1..UsbChunk :
    /\ made + n <= MaxBytes /\ made' = made + n
    /\ s_buf' = Queued(s_buf, [i \in 1..n |-> made + i], SinkBytes)
    /\ UNCHANGED <<s_caster_buf, s_upstream_buf, feed, casterOn, stream, monitored,
                   cast, sent>>

-----------------------------------------------------------------------------
(* rtcm_feed_task *)

FeedRead ==
  /\ fpc = "read" /\ s_buf # <<>>
  /\ chunk' = Taken(s_buf, FeedMax) /\ s_buf' = Rest(s_buf, FeedMax)
  /\ fpc' = "monitor"
  /\ UNCHANGED <<made, s_caster_buf, s_upstream_buf, casterOn, stream, monitored,
                 cast, sent>>

Monitor ==
  /\ fpc = "monitor" /\ fpc' = "caster"
  /\ monitored' = monitored \o chunk
  /\ UNCHANGED <<made, s_buf, s_caster_buf, s_upstream_buf, chunk, casterOn, stream,
                 cast, sent>>

\* Mutant: waits for room in the tee.
TeeCaster_Blocks ==
  /\ fpc = "caster" /\ fpc' = "upstream"
  /\ Len(s_caster_buf) + Len(chunk) <= CasterBytes
  /\ s_caster_buf' = s_caster_buf \o chunk
  /\ UNCHANGED <<made, s_buf, s_upstream_buf, chunk, casterOn, stream, monitored,
                 cast, sent>>

TeeCaster ==
  /\ fpc = "caster" /\ fpc' = "upstream"
  /\ s_caster_buf' = Queued(s_caster_buf, chunk, CasterBytes)
  /\ UNCHANGED <<made, s_buf, s_upstream_buf, chunk, casterOn, stream, monitored,
                 cast, sent>>

TeeUpstream ==
  /\ fpc = "upstream" /\ fpc' = "read"
  /\ s_upstream_buf' = Queued(s_upstream_buf, chunk, UpstreamBytes)
  /\ chunk' = <<>>
  /\ UNCHANGED <<made, s_buf, s_caster_buf, casterOn, stream, monitored, cast, sent>>

-----------------------------------------------------------------------------
(* The caster *)

\* caster_start, on the first IP address.
CasterStart ==
  /\ ~casterOn /\ casterOn' = TRUE
  /\ UNCHANGED <<made, s_buf, s_caster_buf, s_upstream_buf, feed, stream, monitored,
                 cast, sent>>

CasterRead ==
  /\ casterOn /\ s_caster_buf # <<>>
  /\ cast' = cast \o Taken(s_caster_buf, CasterMax)
  /\ s_caster_buf' = Rest(s_caster_buf, CasterMax)
  /\ UNCHANGED <<made, s_buf, s_upstream_buf, feed, casterOn, stream, monitored, sent>>

-----------------------------------------------------------------------------
(* stream_loop of upstream.c *)

Connected ==
  /\ link = "down" /\ link' = "reset"
  /\ UNCHANGED <<made, s_buf, s_caster_buf, s_upstream_buf, feed, casterOn, upChunk,
                 mark, first, monitored, cast, sent>>

\* The last byte the upstream tee was offered.
Teed ==
  IF fpc \in {"caster", "upstream"} THEN chunk[1] - 1
  ELSE IF monitored = <<>> THEN 0 ELSE monitored[Len(monitored)]

\* Mutant: keeps what was queued while the link was down.
Reset_Keeps ==
  /\ link = "reset" /\ link' = "read" /\ mark' = Teed /\ first' = 0
  /\ UNCHANGED <<made, s_buf, s_caster_buf, s_upstream_buf, feed, casterOn, upChunk,
                 monitored, cast, sent>>

Reset ==
  /\ link = "reset" /\ link' = "read"
  /\ s_upstream_buf' = <<>> /\ mark' = Teed /\ first' = 0
  /\ UNCHANGED <<made, s_buf, s_caster_buf, feed, casterOn, upChunk, monitored, cast,
                 sent>>

UpstreamRead ==
  /\ link = "read" /\ s_upstream_buf # <<>>
  /\ upChunk' = Taken(s_upstream_buf, UpstreamMax)
  /\ s_upstream_buf' = Rest(s_upstream_buf, UpstreamMax)
  /\ link' = "send"
  /\ UNCHANGED <<made, s_buf, s_caster_buf, feed, casterOn, mark, first, monitored,
                 cast, sent>>

Out(bytes) ==
  /\ sent' = sent \o bytes
  /\ first' = IF first = 0 /\ bytes # <<>> THEN bytes[1] ELSE first
  /\ upChunk' = <<>>
  /\ UNCHANGED <<made, s_buf, s_caster_buf, s_upstream_buf, feed, casterOn, mark,
                 monitored, cast>>

\* Mutant: sends what it read a second time after a failure, on the next link.
SendAll_Requeues ==
  /\ link = "send" /\ link' = "read"
  /\ sent' = sent \o upChunk
  /\ first' = IF first = 0 THEN upChunk[1] ELSE first
  /\ upChunk' = <<>> /\ s_upstream_buf' = Queued(upChunk, s_upstream_buf, UpstreamBytes)
  /\ UNCHANGED <<made, s_buf, s_caster_buf, feed, casterOn, mark, monitored, cast>>

SendAll == link = "send" /\ link' = "read" /\ Out(upChunk)

\* The connection broke in the middle of the chunk; the rest of it is lost.
SendFails ==
  /\ link = "send" /\ link' = "down"
  /\ \E n \in 0..(Len(upChunk) - 1) : Out(SubSeq(upChunk, 1, n))

ForcedDrop ==
  /\ link = "read" /\ link' = "down"
  /\ UNCHANGED <<made, s_buf, s_caster_buf, s_upstream_buf, feed, casterOn, upChunk,
                 mark, first, monitored, cast, sent>>

-----------------------------------------------------------------------------
FeedTask == FeedRead \/ Monitor \/ TeeCaster \/ TeeUpstream
StreamLoop == Reset \/ UpstreamRead \/ SendAll \/ SendFails

Next ==
  DataCb \/ FeedTask \/ CasterStart \/ CasterRead \/ Connected \/ StreamLoop \/ ForcedDrop

Spec == Init /\ [][Next]_vars

\* Only rtcm_feed_task, and the stream loop while it has a link, must make
\* progress: the caster may stall, and no link needs ever to come up.
FairSpec == Spec /\ WF_vars(FeedTask) /\ WF_vars(StreamLoop)

-----------------------------------------------------------------------------
(* Properties *)

Bytes == 1..MaxBytes

\* Every variable keeps its type; no buffer exceeds its size.
TypeOK ==
  /\ made \in 0..MaxBytes
  /\ s_buf \in Seq(Bytes) /\ Len(s_buf) <= SinkBytes
  /\ s_caster_buf \in Seq(Bytes) /\ Len(s_caster_buf) <= CasterBytes
  /\ s_upstream_buf \in Seq(Bytes) /\ Len(s_upstream_buf) <= UpstreamBytes
  /\ fpc \in {"read", "monitor", "caster", "upstream"}
  /\ chunk \in Seq(Bytes) /\ Len(chunk) <= FeedMax
  /\ casterOn \in BOOLEAN /\ link \in {"down", "reset", "read", "send"}
  /\ upChunk \in Seq(Bytes) /\ Len(upChunk) <= UpstreamMax
  /\ monitored \in Seq(Bytes) /\ cast \in Seq(Bytes) /\ sent \in Seq(Bytes)
  /\ mark \in 0..MaxBytes /\ first \in 0..MaxBytes

\* "a fresh connection starts ... instead of replaying stale bytes": a connection
\* carries only bytes the tee was offered after its reset.
FreshLink ==
  link \in {"read", "send"} =>
    /\ \A b \in Elements(upChunk \o s_upstream_buf) : b > mark
    /\ first # 0 => first > mark

\* A stalled caster and a missing link do not hold up the monitor: what reaches
\* the sink is monitored, in a bounded run all of it.
NothingStallsFeed == <>[](s_buf = <<>> /\ fpc = "read")

\* Each of the three consumers is served by a lossy FIFO: no byte twice, late or
\* out of order, no matter what was dropped on the way, where the reset fell and
\* how often the upstream link broke (rtcm_sink.c:40-112, app_main.c:45-56).
MonitorFeed == INSTANCE LossyFifo WITH got <- monitored
CasterTap == INSTANCE LossyFifo WITH got <- cast
UpstreamTap == INSTANCE LossyFifo WITH got <- sent
ConsumersAreFifos == MonitorFeed!Spec /\ CasterTap!Spec /\ UpstreamTap!Spec

-----------------------------------------------------------------------------
(* What a comment of the code says, and TLC refutes *)

\* rtcm_sink.c:102, the reset makes a fresh connection start "on a current RTCM
\* frame boundary": the first byte sent on it is the first of a frame.
StartsOnFrame == first # 0 => (first - 1) % FrameLen = 0
=============================================================================
