----------------------------- MODULE RtcmMonitor -----------------------------
(***************************************************************************)
(* The RTCM3 monitor (main/rtcm_monitor.c): rtcm_monitor_feed reassembles  *)
(* frames from chunks that cut them anywhere, tallies them and keeps the   *)
(* last one and a tap of the latest raw bytes.  s_lock makes every call    *)
(* atomic.                                                                 *)
(*                                                                         *)
(* A byte is a member of Byte, and a frame is in small what RTCM3 has in   *)
(* large: the preamble, a byte that holds the payload length in its low    *)
(* bits, the payload, and a checksum byte computed from all before it.     *)
(***************************************************************************)
EXTENDS Integers, Sequences, FiniteSets, FiniteSetsExt

CONSTANTS
  Byte,          \* 0..n, the values of a byte
  Preamble,      \* RTCM3_PREAMBLE
  MaxPayload,    \* RTCM3_MAX_PAYLOAD
  PARSE_BUF_LEN, RTCM_MON_RAW_BYTES, RTCM_MON_SNAP_BYTES, RTCM_MON_MAX_TYPES,
  ChunkMax,      \* bytes rtcm_feed_task feeds at once
  MaxBytes       \* bound on the bytes fed

HDR_LEN == 2
CRC_LEN == 1
MaxFrame == HDR_LEN + MaxPayload + CRC_LEN

ASSUME ByteAssumption == Byte \subseteq Nat /\ Preamble \in Byte /\ MaxPayload \in Nat
ASSUME TapAssumption == {RTCM_MON_RAW_BYTES, RTCM_MON_SNAP_BYTES} \subseteq Nat \ {0}
ASSUME SizeAssumption ==
  ChunkMax \in Nat /\ PARSE_BUF_LEN \in Nat /\ RTCM_MON_MAX_TYPES \in Nat
\* The code has 2048 >= 1028 + 512: a chunk always fits behind a partial frame.
ASSUME RoomAssumption == PARSE_BUF_LEN >= MaxFrame - 1 + ChunkMax

VARIABLES
  s_parse, s_raw,               \* reassembly buffer, raw tap
  s_last_frame, last_frame_us,  \* the last frame and when it came, in bytes fed
  total_bytes, valid_frames, crc_fails,
  types,                        \* message type -> count, for the tracked types
  all                           \* history: every byte fed

stats == <<total_bytes, valid_frames, crc_fails, types>>
vars == <<s_parse, s_raw, s_last_frame, last_frame_us, stats, all>>

Init ==
  /\ s_parse = <<>> /\ s_raw = <<>> /\ all = <<>>
  /\ s_last_frame = <<>> /\ last_frame_us = 0
  /\ total_bytes = 0 /\ valid_frames = 0 /\ crc_fails = 0
  /\ types = [t \in {} |-> 0]

Least(a, b) == IF a < b THEN a ELSE b
Last(s, n) == SubSeq(s, Len(s) - Least(n, Len(s)) + 1, Len(s))

\* crc24q, in small
Crc(s) ==
  LET crc[n \in 0..Len(s)] == IF n = 0 THEN 1 ELSE (2 * crc[n - 1] + s[n]) % Cardinality(Byte)
  IN  crc[Len(s)]

\* The frame that a preamble at position p of buf announces.
FrameLen(buf, p) == HDR_LEN + (buf[p + 1] % (MaxPayload + 1)) + CRC_LEN
HeaderIn(buf, p) == Len(buf) - p + 1 >= HDR_LEN
FrameIn(buf, p) == HeaderIn(buf, p) /\ Len(buf) - p + 1 >= FrameLen(buf, p)
CrcOk(buf, p) ==
  LET last == p + FrameLen(buf, p) - 1
  IN  Crc(SubSeq(buf, p, last - CRC_LEN)) = buf[last]
TypeAt(buf, p) == buf[p + HDR_LEN]

\* The keep-the-latest of the raw tap
RawTap_NoShift(data) ==
  SubSeq(s_raw \o data, 1, Least(RTCM_MON_RAW_BYTES, Len(s_raw \o data)))     \* mutant
RawTap(data) ==
  IF Len(data) >= RTCM_MON_RAW_BYTES THEN Last(data, RTCM_MON_RAW_BYTES)
  ELSE Last(s_raw, RTCM_MON_RAW_BYTES - Len(data)) \o data

\* Append; when the chunk does not fit keep the tail half and the chunk's end.
Appended(data) ==
  LET carry == PARSE_BUF_LEN \div 2
      kept == IF Len(s_parse) > carry THEN Last(s_parse, carry) ELSE s_parse
  IN  IF Len(s_parse) + Len(data) <= PARSE_BUF_LEN THEN s_parse \o data
      ELSE IF Len(data) > PARSE_BUF_LEN THEN Last(data, PARSE_BUF_LEN)
      ELSE kept \o data

\* Mutant: a checksum failure skips the whole would-be frame.
Resync_SkipsFrame(buf, p) == p + FrameLen(buf, p)
Resync(buf, p) == p + 1

\* Mutant: the first frame of a chunk stays.
Snapshot_KeepsFirst(buf, p, rest) ==
  SubSeq(buf, p, p + Least(FrameLen(buf, p), RTCM_MON_SNAP_BYTES) - 1)
\* What remains as the last frame, of the one at p and the rest of the scan
Snapshot(buf, p, rest) ==
  IF rest # <<>> THEN rest
  ELSE SubSeq(buf, p, p + Least(FrameLen(buf, p), RTCM_MON_SNAP_BYTES) - 1)

\* The scan loop at position p of buf: where it stops, and what it meets from p
\* on, in order; from is what it does at the positions behind.
ScanAt(buf, from, p) ==
  LET stop == [pos |-> p, frames |-> <<>>, fails |-> 0, snap |-> <<>>]
  IN  IF p > Len(buf) THEN stop
      ELSE IF buf[p] # Preamble THEN from[p + 1]
      ELSE IF ~FrameIn(buf, p) THEN stop
      ELSE IF CrcOk(buf, p)
      THEN LET rest == from[p + FrameLen(buf, p)]
           IN  [rest EXCEPT !.frames = <<TypeAt(buf, p)>> \o @, !.snap = Snapshot(buf, p, @)]
      ELSE LET rest == from[Resync(buf, p)] IN [rest EXCEPT !.fails = @ + 1]
Scan(buf) ==
  LET from[p \in 1..(Len(buf) + MaxFrame)] == ScanAt(buf, from, p)
  IN  from[1]

\* tally_type, for one frame after the other
Tally_Evicts(tally, t) ==      \* mutant: a new type takes the place of a tracked one
  IF t \in DOMAIN tally THEN [tally EXCEPT ![t] = @ + 1] ELSE [u \in {t} |-> 1]
Tally(tally, t) ==
  IF t \in DOMAIN tally THEN [tally EXCEPT ![t] = @ + 1]
  ELSE IF Cardinality(DOMAIN tally) < RTCM_MON_MAX_TYPES
  THEN [u \in DOMAIN tally \cup {t} |-> IF u = t THEN 1 ELSE tally[u]]
  ELSE tally
Tallied(frames) ==
  LET upTo[n \in 0..Len(frames)] == IF n = 0 THEN types ELSE Tally(upTo[n - 1], frames[n])
  IN  upTo[Len(frames)]

\* Mutant: shifts one byte too few when a frame is left unfinished.
Unscanned_OffByOne(buf, pos) == SubSeq(buf, IF pos > 1 THEN pos - 1 ELSE pos, Len(buf))
Unscanned(buf, pos) == SubSeq(buf, pos, Len(buf))

Feed(data) ==
  LET buf == Appended(data)
      scan == Scan(buf)
  IN  /\ total_bytes' = total_bytes + Len(data)
      /\ s_raw' = RawTap(data)
      /\ s_parse' = Unscanned(buf, scan.pos)
      /\ valid_frames' = valid_frames + Len(scan.frames)
      /\ crc_fails' = crc_fails + scan.fails
      /\ types' = Tallied(scan.frames)
      /\ IF scan.frames = <<>> THEN UNCHANGED <<s_last_frame, last_frame_us>>
         ELSE s_last_frame' = scan.snap /\ last_frame_us' = total_bytes'
      /\ all' = all \o data

Next ==
  \E n \in 1..ChunkMax : n + Len(all) <= MaxBytes /\ \E data \in [1..n -> Byte] : Feed(data)

Spec == Init /\ [][Next]_vars

-----------------------------------------------------------------------------
(* Properties *)

\* The reference: a byte of a stream starts a frame iff a whole frame with a
\* good checksum starts there and it lies in no frame that started before it.
Whole(w, p) == w[p] = Preamble /\ FrameIn(w, p)
Good(w, p) == Whole(w, p) /\ CrcOk(w, p)
Starts(w) ==
  LET starts[p \in 0..Len(w)] ==
        IF p = 0 THEN {}
        ELSE IF Good(w, p) /\ \A q \in starts[p - 1] : q + FrameLen(w, q) <= p
        THEN starts[p - 1] \cup {p} ELSE starts[p - 1]
  IN  starts[Len(w)]
Inside(w, p) == \E q \in Starts(w) : q <= p /\ p < q + FrameLen(w, q)

Done == 1..(Len(all) - Len(s_parse))      \* the bytes that left the buffer
Frames == Starts(all) \cap Done

\* "Reassembles across chunks": wherever the chunks cut the stream, the frames
\* counted are those of the stream in one piece, as far as it has been consumed,
\* and every would-be frame outside of them failed its checksum once.
ChunksDoNotMatter ==
  /\ valid_frames = Cardinality(Frames)
  /\ crc_fails = Cardinality({p \in Done : Whole(all, p) /\ ~Inside(all, p)})

\* The buffer holds back exactly the end of the stream, and only behind a
\* preamble whose frame is not in yet: a complete frame is never delayed by
\* anything but an unfinished one before it.  So the buffer holds less than a
\* frame, and the overflow branch, which would lose bytes, is never taken.
HoldsOnlyUnfinished ==
  /\ s_parse = Last(all, Len(s_parse))
  /\ s_parse # <<>> => s_parse[1] = Preamble /\ ~FrameIn(s_parse, 1)

\* The raw tap shows the latest bytes, as many as it has room for.
RawIsLatest == s_raw = Last(all, RTCM_MON_RAW_BYTES)

\* The last frame shown is the last of the stream, cut to the room it has, and
\* its time is that of the chunk that brought its last byte; a frame that lies in
\* the payload of a would-be frame has to wait until that one fails, and is late
\* by no more than the payload.  From this time the backlight decides whether the
\* stream is alive.
LastFrameIsLatest ==
  IF Frames = {} THEN s_last_frame = <<>> /\ last_frame_us = 0
  ELSE LET p == Max(Frames)
           end == p + FrameLen(all, p) - 1
       IN  /\ s_last_frame = SubSeq(all, p, p + Least(FrameLen(all, p), RTCM_MON_SNAP_BYTES) - 1)
           /\ last_frame_us \in end..(end + MaxPayload + ChunkMax - 1)

\* The per-type counts add up to the frames until the table is full, and a type
\* that is tracked keeps its count when it is.
TypesAddUp ==
  LET count(t) == Cardinality({p \in Frames : TypeAt(all, p) = t})
  IN  /\ Cardinality(DOMAIN types) <= RTCM_MON_MAX_TYPES
      /\ \A t \in DOMAIN types : types[t] = count(t)
      /\ Cardinality(DOMAIN types) < RTCM_MON_MAX_TYPES =>
           \A t \in Byte \ DOMAIN types : count(t) = 0
=============================================================================
