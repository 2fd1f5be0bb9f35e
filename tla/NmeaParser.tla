----------------------------- MODULE NmeaParser ------------------------------
(***************************************************************************)
(* What becomes of the bytes on interface 4: the line assembly, the        *)
(* sentence parser and the satellite table of main/nmea_source.c, and the  *)
(* bars that main/gnss_view.c draws from the table.                        *)
(*                                                                         *)
(* The stream is cut into units: the head of a sentence ("$GPGSV,3,1,10"), *)
(* one satellite's four fields, a position, a prompt of the receiver's     *)
(* command line.  Chunks cut the stream anywhere, so the callback is one   *)
(* step per unit.  The interface is opened and lost at any point of a      *)
(* sentence (module UsbSource), and nothing clears the line buffer then.   *)
(***************************************************************************)
EXTENDS Integers, Sequences, FiniteSets

CONSTANTS
  Sats,           \* satellites: a talker and a PRN
  NMEA_MAX_SATS,  \* entries of the table
  LineMax,        \* units s_line holds, sizeof(s_line) - 1
  MaxReports,     \* satellites a sentence may list
  BAR_ROW_W       \* pixels for the bars

BAR_GAP == 2
MinBar == 6
MaxBar == 26

ASSUME SizeAssumption == NMEA_MAX_SATS \in Nat \ {0} /\ LineMax \in Nat \ {0} /\ MaxReports \in Nat
\* 64 * (6 + 2) + 2 <= 660
ASSUME RoomAssumption == BAR_ROW_W \in Nat /\ NMEA_MAX_SATS * (MinBar + BAR_GAP) + BAR_GAP <= BAR_ROW_W

Signal == {"tracked", "visible", "garbled"}    \* cn0 >= 0; cn0 = -1; fields of another sentence
Start(code) == [kind |-> "head", code |-> code]
Report(s, v) == [kind |-> "report", sat |-> s, val |-> v]
Fix == [kind |-> "fix"]
Prompt == [kind |-> "prompt"]
Lost == [kind |-> "lost"]                      \* the part sent before the open

Codes == {"GSV", "GGA", "other"}
Units ==
  [kind : {"head"}, code : Codes]
    \cup [kind : {"report"}, sat : Sats, val : {"tracked", "visible"}] \cup {Fix, Prompt, Lost}

VARIABLES
  itf_open,       \* nmea_task has the interface
  sent,           \* the units of the sentence the receiver is sending
  line,           \* s_line up to s_linepos
  first,          \* no line has ended since the interface was opened
  sats,           \* s_st.sats up to sat_count
  fix             \* s_st.lat, lon, ...: "none", "sound" or "garbled"

vars == <<itf_open, sent, line, first, sats, fix>>

Init ==
  /\ itf_open = FALSE /\ sent = <<>> /\ line = <<>> /\ first = TRUE
  /\ sats = <<>> /\ fix = "none"

-----------------------------------------------------------------------------
(* The interface *)

\* The receiver may be in the middle of a sentence.
Open ==
  /\ ~itf_open /\ itf_open' = TRUE /\ first' = TRUE /\ sent' \in {<<>>, <<Lost>>}
  /\ UNCHANGED <<line, sats, fix>>

Disconnect ==
  /\ itf_open /\ itf_open' = FALSE /\ sent' = <<>>
  /\ UNCHANGED <<line, first, sats, fix>>

-----------------------------------------------------------------------------
(* nmea_data_cb *)

\* Mutant: what does not fit is cut off.
Assemble_Truncates(u) == IF Len(line) < LineMax THEN Append(line, u) ELSE line

\* An overlong line is dropped, with the byte that did not fit.
Assemble(u) == IF Len(line) < LineMax THEN Append(line, u) ELSE <<>>

Byte(u) ==
  /\ itf_open /\ line' = Assemble(u)
  /\ UNCHANGED <<itf_open, first, sats, fix>>

SendHead == \E c \in Codes : sent = <<>> /\ Byte(Start(c)) /\ sent' = <<Start(c)>>
SendPrompt == sent = <<>> /\ Byte(Prompt) /\ UNCHANGED sent

\* What remains of a sentence that began before the open: some fields of some satellite.
SendRest ==
  /\ sent /= <<>> /\ sent[1] = Lost /\ Len(sent) <= MaxReports
  /\ Byte(Lost) /\ sent' = Append(sent, Lost)

SendReport ==
  /\ sent /= <<>> /\ sent[1] = Start("GSV") /\ Len(sent) <= MaxReports
  /\ \E s \in Sats, v \in {"tracked", "visible"} :
       Byte(Report(s, v)) /\ sent' = Append(sent, Report(s, v))

SendFix ==
  /\ sent = <<Start("GGA")>> /\ Byte(Fix) /\ sent' = Append(sent, Fix)

-----------------------------------------------------------------------------
(* process_line, at a CR or LF *)

\* Mutant: the search stops one entry early.
Upsert_OffByOne(t, r) ==
  LET at == {i \in 1..(Len(t) - 1) : t[i].sat = r.sat}
  IN  IF at /= {} THEN [i \in DOMAIN t |-> IF i \in at THEN r ELSE t[i]]
      ELSE IF Len(t) < NMEA_MAX_SATS THEN Append(t, r) ELSE t

\* Mutant: a full table takes a new satellite.
Upsert_Overruns(t, r) ==
  LET at == {i \in DOMAIN t : t[i].sat = r.sat}
  IN  IF at /= {} THEN [i \in DOMAIN t |-> IF i \in at THEN r ELSE t[i]] ELSE Append(t, r)

\* sat_upsert: one entry per satellite; with the table full a new one is
\* dropped.  No entry is ever removed.
Upsert(t, r) ==
  LET at == {i \in DOMAIN t : t[i].sat = r.sat}
  IN  IF at /= {} THEN [i \in DOMAIN t |-> IF i \in at THEN r ELSE t[i]]
      ELSE IF Len(t) < NMEA_MAX_SATS THEN Append(t, r) ELSE t

\* parse_gsv on the reports rs, in order; an empty slot or PRN 0 is skipped.
Skip == [sat |-> "none", val |-> "garbled"]
ParseGsv(rs) ==
  LET t[i \in 0..Len(rs)] ==
        IF i = 0 THEN sats
        ELSE IF rs[i] = Skip THEN t[i - 1] ELSE Upsert(t[i - 1], rs[i])
  IN  t[Len(rs)]

Accepted == line /= <<>> /\ line[1].kind = "head"

\* Fields behind a second head, or behind anything that is not a satellite, are
\* read as satellites all the same: as any, with values of no meaning.
Slot(i) ==
  IF \A j \in 2..(i + 1) : line[j].kind = "report"
    THEN {[sat |-> line[i + 1].sat, val |-> line[i + 1].val]}
    ELSE {Skip} \cup [sat : Sats, val : {"garbled"}]

Readings == {rs \in [1..(Len(line) - 1) -> UNION {Slot(i) : i \in 1..(Len(line) - 1)}] :
               \A i \in DOMAIN rs : rs[i] \in Slot(i)}

\* parse_gga ignores a sentence of less than eight fields.
ParseGga ==
  IF Len(line) >= 2 /\ line[2] = Fix THEN {"sound"}
  ELSE IF Len(line) >= 2 THEN {fix, "garbled"} ELSE {fix}

ProcessLine ==
  \/ /\ Accepted /\ line[1].code = "GSV"
     /\ \E rs \in Readings : sats' = ParseGsv(rs)
     /\ UNCHANGED fix
  \/ Accepted /\ line[1].code = "GGA" /\ fix' \in ParseGga /\ UNCHANGED sats
  \/ (Accepted => line[1].code = "other") /\ UNCHANGED <<sats, fix>>

EndOfLine ==
  /\ itf_open /\ sent /= <<>> /\ sent' = <<>> /\ line' = <<>> /\ first' = FALSE
  /\ ProcessLine /\ UNCHANGED itf_open

-----------------------------------------------------------------------------
Next == Open \/ Disconnect \/ SendHead \/ SendPrompt \/ SendRest \/ SendReport \/ SendFix \/ EndOfLine
Spec == Init /\ [][Next]_vars

-----------------------------------------------------------------------------
(* gnss_view_update: the bars, one per tracked satellite *)

\* A garbled value may be one that is drawn.
Drawn == {i \in DOMAIN sats : sats[i].val \in {"tracked", "garbled"}}

\* Mutant: the gaps are forgotten.
BarWidth_NoGaps(nb) == BAR_ROW_W \div nb

BarWidth(nb) ==
  LET bw == (BAR_ROW_W - (nb + 1) * BAR_GAP) \div nb
  IN  IF bw < MinBar THEN MinBar ELSE IF bw > MaxBar THEN MaxBar ELSE bw

\* The right edge of the last of nb bars, with a gap on either side of each.
RightEdge(nb) == BAR_GAP + nb * (BarWidth(nb) + BAR_GAP)

-----------------------------------------------------------------------------
(* Properties *)

Entries == [sat : Sats, val : Signal]

\* Types; neither the line nor the table outgrows its array.
TypeOK ==
  /\ itf_open \in BOOLEAN /\ first \in BOOLEAN
  /\ sent \in Seq(Units) /\ line \in Seq(Units) /\ Len(line) <= LineMax
  /\ sats \in Seq(Entries) /\ Len(sats) <= NMEA_MAX_SATS
  /\ fix \in {"none", "sound", "garbled"}

\* After the first line of a connection, whatever is in the buffer and would be
\* parsed is the sentence the receiver is sending, from its first unit on and
\* with none left out: no overlong line, prompt or earlier connection gets into
\* it (nmea_source.c:133-146).
LineIsSentence == itf_open /\ ~first /\ Accepted => line = sent

\* The last report of satellite s in the line, when all of it is sound.
Sound == \A j \in 2..Len(line) : line[j].kind = "report"
LastReport(s) == {j \in 2..Len(line) : line[j].sat = s /\ \A k \in (j + 1)..Len(line) : line[k].sat /= s}

\* A satellite is in the table once.  It stays there; it shows what was last
\* reported of it; and one that was reported is missing only from a full table
\* (nmea_source.c:46-57, 73-84).
Shows(t, s, v) == \E i \in DOMAIN t : t[i] = [sat |-> s, val |-> v]
TableTracksSky ==
  [][/\ \A i, j \in DOMAIN sats' : sats'[i].sat = sats'[j].sat => i = j
     /\ \A i \in DOMAIN sats : i \in DOMAIN sats' /\ sats'[i].sat = sats[i].sat
     /\ (EndOfLine /\ Accepted /\ line[1].code = "GSV" /\ Sound) =>
          \A s \in Sats : \A j \in LastReport(s) :
            \/ Shows(sats', s, line[j].val)
            \/ Len(sats') = NMEA_MAX_SATS /\ \A i \in DOMAIN sats' : sats'[i].sat /= s]_vars

\* However many satellites the table holds, their bars stay within the row.
BarsFit == Drawn /= {} => RightEdge(Cardinality(Drawn)) <= BAR_ROW_W
=============================================================================
