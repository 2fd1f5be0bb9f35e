--------------------------- MODULE NmeaParserProofs ---------------------------
(***************************************************************************)
(* Theorems about module NmeaParser, for every set of satellites and every *)
(* size of the line buffer, the table and the row: the lines it parses are *)
(* sentences, the table follows what is reported and never outgrows its    *)
(* array, and the bars drawn from it fit.                                  *)
(*                                                                         *)
(* parse_gsv goes through the fields of a line, and the model's ParseGsv   *)
(* is a recursive function of them.  ParseGsvIs gives its values, field by *)
(* field; what every field preserves (UpsertKeeps, StaysCurrent) then      *)
(* holds behind the last one by induction, in the form of a least          *)
(* counterexample (LeastNumber).                                           *)
(***************************************************************************)
EXTENDS NmeaParser, SequenceTheorems, FiniteSetTheorems, WellFoundedInduction, TLAPS

-----------------------------------------------------------------------------
(* Induction over the numbers, and functions defined by recursion *)

\* The order of the numbers is well-founded.
LEMMA NatIsOrdered ==
  \E R : IsWellFoundedOn(R, Nat) /\ \A i, j \in Nat : i < j => <<i, j>> \in R
<1>1. IsWellFoundedOn(OpToRel(<, Nat), Nat) BY NatLessThanWellFounded
<1>2. \A i, j \in Nat : i < j => <<i, j>> \in OpToRel(<, Nat) BY DEF OpToRel
<1> QED BY <1>1, <1>2, Zenon

\* A set of numbers has a least one.
LEMMA LeastNumber ==
  ASSUME NEW T, T \subseteq Nat, T # {}
  PROVE  \E m \in T : \A k \in T : m <= k
<1>1. PICK R : IsWellFoundedOn(R, Nat) /\ \A i, j \in Nat : i < j => <<i, j>> \in R
  BY NatIsOrdered
<1>2. T \subseteq Nat /\ IsWellFoundedOn(R, Nat) BY <1>1
<1>3. PICK m \in T : \A k \in T : ~ (<<k, m>> \in R) BY <1>2, WFMin, Zenon
<1>4. \A k \in T : ~(k < m) BY <1>1, <1>3
<1> QED BY <1>4

\* What holds of 0, and of a number when it does of the one before, holds up to N.
LEMMA StepByStep ==
  ASSUME NEW N \in Nat, NEW T, 0 \in T, \A n \in 1..N : n - 1 \in T => n \in T
  PROVE  0..N \subseteq T
<1> DEFINE U == (0..N) \ T
<1>1. SUFFICES ASSUME U # {} PROVE FALSE OBVIOUS
<1>2. U \subseteq Nat /\ \A n : n \in U <=> n \in 0..N /\ n \notin T OBVIOUS
<1> HIDE DEF U
<1>3. PICK n \in U : \A k \in U : n <= k BY <1>1, <1>2, LeastNumber
<1>4. n \in 1..N /\ n - 1 \in 0..N /\ ~(n <= n - 1) BY <1>2, <1>3
<1>5. n - 1 \in T BY <1>2, <1>3, <1>4
<1> QED BY <1>2, <1>4, <1>5

\* A step that is possible from every value can be repeated N times.
Possible(N, V, R) == \A n \in 1..N, v \in V : \E w \in V : <<n, v, w>> \in R
Repeats(N, V, v0, R) ==
  \E f \in [0..N -> V] : f[0] = v0 /\ \A n \in 1..N : <<n, f[n - 1], f[n]>> \in R

\* The values of a recursive function, given what each step needs.
LEMMA Repetition ==
  ASSUME NEW N \in Nat, NEW V, NEW v0 \in V, NEW R, Possible(N, V, R)
  PROVE  Repeats(N, V, v0, R)
<1> DEFINE P(k, f) == f[0] = v0 /\ \A n \in 1..k : <<n, f[n - 1], f[n]>> \in R
           T == {k \in 0..N : \E f \in [0..k -> V] : P(k, f)}
<1>1. 0 \in T
  <2> DEFINE f == [i \in 0..0 |-> v0]
  <2>1. f \in [0..0 -> V] /\ P(0, f) OBVIOUS
  <2> HIDE DEF f, P
  <2> QED BY <2>1
<1>2. ASSUME NEW k \in 1..N, NEW f \in [0..(k - 1) -> V], P(k - 1, f)
      PROVE  \E g \in [0..k -> V] : P(k, g)
  <2>1. f[k - 1] \in V OBVIOUS
  <2>2. PICK w \in V : <<k, f[k - 1], w>> \in R BY <2>1 DEF Possible
  <2> DEFINE g == [i \in 0..k |-> IF i = k THEN w ELSE f[i]]
  <2>3. g \in [0..k -> V] OBVIOUS
  <2>4. g[0] = v0 BY <1>2
  <2>5. \A n \in 1..k : <<n, g[n - 1], g[n]>> \in R
    <3> TAKE n \in 1..k
    <3>1. CASE n = k
      <4>1. g[n - 1] = f[k - 1] /\ g[n] = w BY <3>1
      <4> QED BY <2>2, <3>1, <4>1
    <3>2. CASE n # k
      <4>1. n \in 1..(k - 1) /\ g[n - 1] = f[n - 1] /\ g[n] = f[n] BY <3>2
      <4> QED BY <1>2, <4>1
    <3> QED BY <3>1, <3>2
  <2> QED BY <2>3, <2>4, <2>5
<1>3. \A k \in 1..N : k - 1 \in T => k \in T BY <1>2
<1> HIDE DEF P
<1>4. N \in T
  <2> HIDE DEF T
  <2>1. 0..N \subseteq T BY <1>1, <1>3, StepByStep
  <2> QED BY <2>1
<1> QED BY <1>4 DEF P, Repeats

-----------------------------------------------------------------------------
(* The line buffer *)

\* The types the argument needs, kept with the property.
Lines == line \in Seq(Units) /\ sent \in Seq(Units) /\ Len(line) <= LineMax
LineInv == Lines /\ LineIsSentence

\* A byte behind an accepted line, or behind anything else.
LEMMA ByteKeeps ==
  ASSUME LineInv, NEW u \in Units, Byte(u), sent' \in Seq(Units),
         \/ sent /= <<>> /\ sent' = Append(sent, u) /\ u.kind /= "head"
         \/ sent = <<>> /\ (u.kind = "head" => sent' = <<u>>)
  PROVE  LineInv'
<1> USE SizeAssumption DEF LineInv, Lines, Byte
<1>1. Lines' BY DEF Assemble
<1>2. ASSUME itf_open', ~first', Accepted' PROVE line' = sent'
  <2>1. line' = Append(line, u) BY <1>2 DEF Assemble, Accepted
  <2>2. CASE line = <<>>
    <3>1. line' = <<u>> /\ u.kind = "head" BY <1>2, <2>1, <2>2 DEF Accepted
    <3> QED BY <3>1
  <2>3. CASE line /= <<>>
    <3>1. line'[1] = line[1] BY <2>1, <2>3
    <3>2. line = sent BY <1>2, <2>3, <3>1 DEF LineIsSentence, Accepted
    <3> QED BY <2>1, <2>3, <3>2
  <2> QED BY <2>2, <2>3
<1> QED BY <1>1, <1>2 DEF LineIsSentence

\* The empty line is no sentence.
LEMMA LineInit == Init => LineInv
  BY SizeAssumption DEF Init, LineInv, Lines, LineIsSentence

\* Every step keeps the line, if it would be parsed, equal to the sentence.
LEMMA LineStep == LineInv /\ [Next]_vars => LineInv'
<1> SUFFICES ASSUME LineInv, [Next]_vars PROVE LineInv' OBVIOUS
<1>1. CASE Open
  <2>1. <<>> \in Seq(Units) /\ <<Lost>> \in Seq(Units) BY DEF Units
  <2> QED BY <1>1, <2>1 DEF Open, LineInv, Lines, LineIsSentence
<1>2. CASE Disconnect BY <1>2 DEF Disconnect, LineInv, Lines, LineIsSentence
<1>3. CASE SendHead
  <2>1. PICK c \in Codes : sent = <<>> /\ Byte(Start(c)) /\ sent' = <<Start(c)>> BY <1>3 DEF SendHead
  <2>2. Start(c) \in Units BY DEF Units, Start
  <2> QED BY <2>1, <2>2, ByteKeeps
<1>4. CASE SendPrompt
  <2>1. Prompt \in Units /\ Prompt.kind /= "head" BY DEF Units, Prompt
  <2> QED BY <1>4, <2>1, ByteKeeps DEF SendPrompt, LineInv, Lines
<1>5. CASE SendRest
  <2>1. Lost \in Units /\ Lost.kind /= "head" BY DEF Units, Lost
  <2> QED BY <1>5, <2>1, ByteKeeps DEF SendRest, LineInv, Lines
<1>6. CASE SendReport
  <2>1. PICK s \in Sats, v \in {"tracked", "visible"} :
          sent /= <<>> /\ Byte(Report(s, v)) /\ sent' = Append(sent, Report(s, v))
    BY <1>6 DEF SendReport
  <2>2. Report(s, v) \in Units /\ Report(s, v).kind /= "head" BY DEF Units, Report
  <2> QED BY <2>1, <2>2, ByteKeeps DEF LineInv, Lines
<1>7. CASE SendFix
  <2>1. Fix \in Units /\ Fix.kind /= "head" BY DEF Units, Fix
  <2>2. sent /= <<>> BY <1>7 DEF SendFix
  <2> QED BY <1>7, <2>1, <2>2, ByteKeeps DEF SendFix, LineInv, Lines
<1>8. CASE EndOfLine
  <2>1. line' = <<>> /\ sent' = <<>> BY <1>8 DEF EndOfLine
  <2> QED BY <2>1, SizeAssumption DEF LineInv, Lines, LineIsSentence, Accepted
<1>9. CASE UNCHANGED vars BY <1>9 DEF vars, LineInv, Lines, LineIsSentence, Accepted
<1> QED BY <1>1, <1>2, <1>3, <1>4, <1>5, <1>6, <1>7, <1>8, <1>9 DEF Next

\* After the first line of a connection only whole sentences of that connection
\* are parsed, whatever overflowed, whatever prompts came in between and
\* wherever the connections before were cut.
THEOREM ParsesSentences == Spec => []LineIsSentence
<1>1. LineInv => LineIsSentence BY DEF LineInv
<1> QED BY <1>1, LineInit, LineStep, PTL DEF Spec

-----------------------------------------------------------------------------
(* The satellite table *)

\* The tables sat_upsert builds: within the array, one entry per satellite.
OncePerSat(t) == \A i, j \in DOMAIN t : t[i].sat = t[j].sat => i = j
Tables == {t \in Seq(Entries) : Len(t) <= NMEA_MAX_SATS /\ OncePerSat(t)}

\* No entry is removed, moved or given to another satellite, and only that of
\* satellite s may show something new.
Keeps(t, u, s) ==
  /\ \A i \in DOMAIN t : i \in DOMAIN u /\ u[i].sat = t[i].sat /\ (t[i].sat # s => u[i] = t[i])
  /\ \A i \in DOMAIN u : u[i].sat # s => i \in DOMAIN t

\* Satellite s is shown with v, or there was no room left for it.
Current(t, s, v) ==
  \/ Shows(t, s, v)
  \/ Len(t) = NMEA_MAX_SATS /\ \A i \in DOMAIN t : t[i].sat # s

\* One report: the table keeps its form and its entries and shows the report.
LEMMA UpsertKeeps ==
  ASSUME NEW t \in Tables, NEW r \in Entries
  PROVE  /\ Upsert(t, r) \in Tables
         /\ Keeps(t, Upsert(t, r), r.sat)
         /\ Current(Upsert(t, r), r.sat, r.val)
<1> DEFINE at == {i \in DOMAIN t : t[i].sat = r.sat}
           u == Upsert(t, r)
<1>0. NMEA_MAX_SATS \in Int BY SizeAssumption
<1>1. /\ t \in Seq(Entries) /\ Len(t) \in Nat /\ Len(t) <= NMEA_MAX_SATS
      /\ DOMAIN t = 1..Len(t) /\ OncePerSat(t)
      /\ \A i \in 1..Len(t) : t[i] \in Entries
  BY LenProperties, ElementOfSeq DEF Tables
<1>2. r = [sat |-> r.sat, val |-> r.val] BY DEF Entries
<1>3. CASE at # {}
  <2>1. u = [i \in DOMAIN t |-> IF i \in at THEN r ELSE t[i]] BY <1>3 DEF Upsert
  <2> HIDE DEF u
  <2>2. u \in [1..Len(t) -> Entries] BY <1>1, <2>1
  <2>3. u \in Seq(Entries) /\ DOMAIN u = 1..Len(t) /\ Len(u) = Len(t)
    <3>1. u \in Seq(Entries) /\ DOMAIN u = 1..Len(t) BY <1>1, <2>2, SeqDef
    <3>2. DOMAIN u = 1..Len(u) /\ Len(u) \in Nat BY <3>1, LenProperties
    <3> QED BY <1>1, <3>1, <3>2
  <2>4. \A i \in 1..Len(t) : u[i].sat = t[i].sat /\ (i \notin at => u[i] = t[i])
                             /\ (i \in at => u[i] = r)
    BY <1>1, <2>1
  <2>5. OncePerSat(u) BY <1>1, <2>3, <2>4 DEF OncePerSat
  <2>6. u \in Tables BY <1>1, <2>3, <2>5 DEF Tables
  <2>7. Keeps(t, u, r.sat) BY <1>1, <2>3, <2>4 DEF Keeps
  <2>8. Shows(u, r.sat, r.val) BY <1>1, <1>2, <1>3, <2>3, <2>4 DEF Shows
  <2> QED BY <2>6, <2>7, <2>8 DEF Current, u
<1>4. CASE at = {} /\ Len(t) < NMEA_MAX_SATS
  <2>1. u = Append(t, r) BY <1>4 DEF Upsert
  <2> HIDE DEF u
  <2>2. /\ u \in Seq(Entries) /\ Len(u) = Len(t) + 1
        /\ u[Len(t) + 1] = r /\ \A i \in 1..Len(t) : u[i] = t[i]
    BY <1>1, <2>1, AppendProperties
  <2>3. DOMAIN u = 1..(Len(t) + 1) BY <2>2, LenProperties
  <2>4. OncePerSat(u)
    <3>1. \A i \in 1..Len(t) : u[i].sat # r.sat BY <1>1, <1>4, <2>2
    <3>2. \A i \in 1..(Len(t) + 1) : i \in 1..Len(t) \/ i = Len(t) + 1 BY <1>1
    <3> QED BY <1>1, <2>2, <2>3, <3>1, <3>2 DEF OncePerSat
  <2>5. u \in Tables BY <1>1, <1>4, <2>2, <2>4, SizeAssumption DEF Tables
  <2>6. Keeps(t, u, r.sat) BY <1>1, <2>2, <2>3 DEF Keeps
  <2>7. Shows(u, r.sat, r.val)
    <3>1. Len(t) + 1 \in DOMAIN u BY <1>1, <2>3
    <3> QED BY <1>2, <2>2, <3>1 DEF Shows
  <2> QED BY <2>5, <2>6, <2>7 DEF Current, u
<1>5. CASE at = {} /\ ~(Len(t) < NMEA_MAX_SATS)
  <2>1. u = t BY <1>5 DEF Upsert
  <2>2. Len(t) = NMEA_MAX_SATS
    <3>1. Len(t) \in Int /\ Len(t) <= NMEA_MAX_SATS BY <1>1
    <3>2. ~(Len(t) < NMEA_MAX_SATS) BY <1>5
    <3> QED BY <1>0, <3>1, <3>2
  <2> HIDE DEF u
  <2> QED BY <1>1, <1>5, <2>1, <2>2 DEF Keeps, Current, u
<1> QED BY <1>3, <1>4, <1>5

\* What was shown of a satellite, or had no room, is not disturbed by a report
\* of another one.
LEMMA StaysCurrent ==
  ASSUME NEW t \in Tables, NEW r \in Entries, NEW s, NEW v, s # r.sat, Current(t, s, v)
  PROVE  Current(Upsert(t, r), s, v)
<1> DEFINE u == Upsert(t, r)
<1>1. /\ u \in Tables /\ Keeps(t, u, r.sat) BY UpsertKeeps
<1>a. t \in Seq(Entries) /\ u \in Seq(Entries) /\ Len(u) <= NMEA_MAX_SATS
  BY <1>1 DEF Tables
<1> HIDE DEF u
<1>2. CASE Shows(t, s, v)
  <2>1. PICK i \in DOMAIN t : t[i] = [sat |-> s, val |-> v] BY <1>2 DEF Shows
  <2>2. t[i].sat # r.sat BY <2>1
  <2> QED BY <1>1, <2>1, <2>2 DEF Keeps, Current, Shows, u
<1>3. CASE Len(t) = NMEA_MAX_SATS /\ \A i \in DOMAIN t : t[i].sat # s
  <2>1. DOMAIN t = 1..Len(t) /\ DOMAIN u = 1..Len(u) /\ Len(t) \in Nat /\ Len(u) \in Nat
    BY <1>a, LenProperties
  <2>2. Len(t) \in DOMAIN t BY <1>3, <2>1, SizeAssumption
  <2>3. Len(t) \in DOMAIN u BY <1>1, <2>2 DEF Keeps
  <2>4. Len(u) = NMEA_MAX_SATS
    <3>1. NMEA_MAX_SATS \in Int /\ Len(u) \in Int BY <2>1, SizeAssumption
    <3>2. NMEA_MAX_SATS <= Len(u) BY <1>3, <2>1, <2>3
    <3> QED BY <1>a, <3>1, <3>2
  <2>5. DOMAIN u = DOMAIN t BY <1>3, <2>1, <2>4
  <2>6. \A i \in DOMAIN u : u[i].sat # s BY <1>1, <1>3, <2>5 DEF Keeps
  <2> QED BY <2>4, <2>6 DEF Current, u
<1> QED BY <1>2, <1>3 DEF Current

-----------------------------------------------------------------------------
(* parse_gsv *)

\* What parse_gsv reads in a field group, and what it does with it.
Slots == Entries \cup {Skip}
After(t, r) == IF r = Skip THEN t ELSE Upsert(t, r)

\* The table after each field, one by one.
Passes(f, rs) ==
  /\ f \in [0..Len(rs) -> Tables] /\ f[0] = sats /\ ParseGsv(rs) = f[Len(rs)]
  /\ \A n \in 1..Len(rs) : f[n] = After(f[n - 1], rs[n])

\* The recursion of the model is the run through the fields.
LEMMA ParseGsvIs ==
  ASSUME NEW rs \in Seq(Slots), sats \in Tables
  PROVE  \E f : Passes(f, rs)
<1> DEFINE N == Len(rs)
           Def(f, i) == IF i = 0 THEN sats ELSE IF rs[i] = Skip THEN f[i - 1] ELSE Upsert(f[i - 1], rs[i])
           R == {p \in (1..N) \X Tables \X Tables : p[3] = After(p[2], rs[p[1]])}
<1>1. N \in Nat /\ \A i \in 1..N : rs[i] \in Slots BY LenProperties, ElementOfSeq
<1>2. PICK f \in [0..N -> Tables] : f[0] = sats /\ \A n \in 1..N : <<n, f[n - 1], f[n]>> \in R
  <2>1. Possible(N, Tables, R)
    <3> SUFFICES ASSUME NEW n \in 1..N, NEW t \in Tables PROVE \E x \in Tables : <<n, t, x>> \in R
      BY DEF Possible
    <3>1. rs[n] # Skip => rs[n] \in Entries BY <1>1 DEF Slots
    <3> DEFINE x == After(t, rs[n])
    <3>2. x \in Tables BY <3>1, UpsertKeeps DEF After
    <3> HIDE DEF x
    <3>3. <<n, t, x>> \in R BY <3>2 DEF x
    <3> QED BY <3>2, <3>3
  <2> HIDE DEF N, R
  <2>2. Repeats(N, Tables, sats, R) BY <1>1, <2>1, Repetition
  <2> QED BY <2>2 DEF Repeats
<1>3. \A n \in 1..N : f[n] = After(f[n - 1], rs[n]) BY <1>2
<1> HIDE DEF R
<1>4. \A i \in 0..N : f[i] = Def(f, i)
  <2> TAKE i \in 0..N
  <2>1. CASE i = 0 BY <1>2, <2>1
  <2>2. CASE i # 0
    <3>1. i \in 1..N BY <1>1, <2>2
    <3> HIDE DEF N
    <3> QED BY <1>3, <2>2, <3>1 DEF After
  <2> QED BY <2>1, <2>2
<1>5. \E g : g = [i \in 0..N |-> Def(g, i)]
  <2> HIDE DEF Def, N
  <2>1. f = [i \in 0..N |-> Def(f, i)] BY <1>2, <1>4
  <2> QED BY <2>1
<1> DEFINE g == CHOOSE h : h = [i \in 0..N |-> Def(h, i)]
<1>6. g = [i \in 0..N |-> Def(g, i)]
  <2> HIDE DEF Def, N
  <2> QED BY <1>5
<1>7. ParseGsv(rs) = g[N] BY DEF ParseGsv
<1> HIDE DEF g
<1>8. 0..N \subseteq {i \in 0..N : g[i] = f[i]}
  <2> DEFINE T == {i \in 0..N : g[i] = f[i]}
  <2>1. 0 \in T
    <3>1. 0 \in 0..N BY <1>1
    <3>2. g[0] = Def(g, 0) BY <1>6, <3>1
    <3> HIDE DEF N
    <3> QED BY <1>2, <3>1, <3>2
  <2>2. ASSUME NEW n \in 1..N, n - 1 \in T PROVE n \in T
    <3>1. n \in 0..N /\ n # 0 BY <1>1
    <3>2. g[n] = Def(g, n) BY <1>6, <3>1
    <3>3. f[n] = Def(f, n) BY <1>4, <3>1
    <3>4. g[n - 1] = f[n - 1] BY <2>2
    <3>5. Def(g, n) = Def(f, n) BY <3>1, <3>4
    <3> QED BY <3>1, <3>2, <3>3, <3>5
  <2> HIDE DEF T, N
  <2> QED BY <1>1, <2>1, <2>2, StepByStep DEF T
<1>9. N \in 0..N BY <1>1
<1>10. ParseGsv(rs) = f[N] BY <1>7, <1>8, <1>9
<1> QED BY <1>2, <1>3, <1>10 DEF Passes

\* A whole sentence: the table keeps its form and its entries.
LEMMA GsvKeeps ==
  ASSUME NEW rs \in Seq(Slots), sats \in Tables
  PROVE  /\ ParseGsv(rs) \in Tables
         /\ \A i \in DOMAIN sats : i \in DOMAIN ParseGsv(rs) /\ ParseGsv(rs)[i].sat = sats[i].sat
<1>1. PICK f : Passes(f, rs) BY ParseGsvIs
<1>2. Len(rs) \in Nat /\ \A i \in 1..Len(rs) : rs[i] \in Slots BY LenProperties, ElementOfSeq
<1> DEFINE N == Len(rs)
           P(n) == \A i \in DOMAIN sats : i \in DOMAIN f[n] /\ f[n][i].sat = sats[i].sat
           T == {n \in 0..N : P(n)}
<1>3. 0 \in T BY <1>1, <1>2 DEF Passes
<1>4. ASSUME NEW n \in 1..N, n - 1 \in T PROVE n \in T
  <2>1. n - 1 \in 0..N /\ n \in 0..N BY <1>2
  <2>2. f[n - 1] \in Tables /\ f[n] = After(f[n - 1], rs[n]) BY <1>1, <2>1 DEF Passes
  <2>3. CASE rs[n] = Skip
    <3>1. f[n] = f[n - 1] BY <2>2, <2>3 DEF After
    <3> QED BY <1>4, <2>1, <3>1
  <2>4. CASE rs[n] # Skip
    <3>1. rs[n] \in Entries BY <1>2, <2>4 DEF Slots
    <3>2. Keeps(f[n - 1], f[n], rs[n].sat) BY <2>2, <2>4, <3>1, UpsertKeeps DEF After
    <3>3. \A i \in DOMAIN f[n - 1] : i \in DOMAIN f[n] /\ f[n][i].sat = f[n - 1][i].sat
      BY <3>2 DEF Keeps
    <3>4. P(n - 1) BY <1>4
    <3>5. P(n) BY <3>3, <3>4
    <3> QED BY <2>1, <3>5
  <2> QED BY <2>3, <2>4
<1>5. P(N)
  <2> HIDE DEF T, N
  <2>1. 0..N \subseteq T BY <1>2, <1>3, <1>4, StepByStep DEF N
  <2>2. N \in 0..N BY <1>2 DEF N
  <2> QED BY <2>1, <2>2 DEF T
<1>6. f[N] \in Tables BY <1>1, <1>2 DEF Passes
<1>7. ParseGsv(rs) = f[N] BY <1>1 DEF Passes
<1> QED BY <1>5, <1>6, <1>7

\* A whole sentence: what is reported last of a satellite is what is shown of it.
LEMMA GsvCurrent ==
  ASSUME NEW rs \in Seq(Slots), sats \in Tables, NEW k \in 1..Len(rs), rs[k] # Skip,
         \A i \in (k + 1)..Len(rs) : rs[i].sat # rs[k].sat
  PROVE  Current(ParseGsv(rs), rs[k].sat, rs[k].val)
<1>1. PICK f : Passes(f, rs) BY ParseGsvIs
<1>2. Len(rs) \in Nat /\ \A i \in 1..Len(rs) : rs[i] \in Slots BY LenProperties, ElementOfSeq
<1> DEFINE N == Len(rs)
           P(n) == Current(f[n], rs[k].sat, rs[k].val)
           T == {n \in 0..N : n >= k => P(n)}
<1>3. 0 \in T BY <1>2
<1>4. ASSUME NEW n \in 1..N, n - 1 \in T PROVE n \in T
  <2>1. n - 1 \in 0..N /\ n \in 0..N BY <1>2
  <2>2. f[n - 1] \in Tables /\ f[n] = After(f[n - 1], rs[n]) BY <1>1, <2>1 DEF Passes
  <2>3. CASE n < k BY <2>1, <2>3
  <2>4. CASE n = k
    <3>1. rs[n] \in Entries BY <1>2, <2>4 DEF Slots
    <3>2. P(n) BY <2>2, <2>4, <3>1, UpsertKeeps DEF After
    <3> QED BY <2>1, <3>2
  <2>5. CASE n > k
    <3>1. P(n - 1) BY <1>2, <1>4, <2>5
    <3>2. rs[n].sat # rs[k].sat BY <1>2, <2>5
    <3>3. CASE rs[n] = Skip
      <4>1. f[n] = f[n - 1] BY <2>2, <3>3 DEF After
      <4> QED BY <2>1, <3>1, <4>1
    <3>4. CASE rs[n] # Skip
      <4>1. rs[n] \in Entries BY <1>2, <3>4 DEF Slots
      <4>2. f[n] = Upsert(f[n - 1], rs[n]) BY <2>2, <3>4 DEF After
      <4>3. P(n) BY <2>2, <3>1, <3>2, <4>1, <4>2, StaysCurrent
      <4> QED BY <2>1, <4>3
    <3> QED BY <3>3, <3>4
  <2> QED BY <1>2, <2>3, <2>4, <2>5
<1>5. P(N)
  <2> HIDE DEF T, N, P
  <2>1. 0..N \subseteq T BY <1>2, <1>3, <1>4, StepByStep DEF N
  <2>2. N \in 0..N /\ N >= k BY <1>2 DEF N
  <2> QED BY <2>1, <2>2 DEF T
<1> QED BY <1>1, <1>5 DEF Passes

\* The fields of a satellite are a satellite and a value.
LEMMA ReportType ==
  ASSUME NEW u \in Units, u.kind = "report"
  PROVE  u.sat \in Sats /\ u.val \in {"tracked", "visible"}
<1>1. u \notin [kind : {"head"}, code : Codes] OBVIOUS
<1>2. u # Fix /\ u # Prompt /\ u # Lost BY DEF Fix, Prompt, Lost
<1> QED BY <1>1, <1>2 DEF Units

\* The fields of a line, in order; of a sound one, what was sent.
LEMMA ReadingsAre ==
  ASSUME line \in Seq(Units), line # <<>>, NEW rs \in Readings
  PROVE  /\ rs \in Seq(Slots) /\ Len(rs) = Len(line) - 1
         /\ Sound => \A i \in 1..Len(rs) :
                       rs[i] # Skip /\ rs[i].sat = line[i + 1].sat /\ rs[i].val = line[i + 1].val
<1>1. Len(line) \in Nat /\ Len(line) # 0 /\ \A i \in 1..Len(line) : line[i] \in Units
  BY LenProperties, ElementOfSeq, EmptySeq
<1> DEFINE N == Len(line) - 1
<1>2. N \in Nat BY <1>1
<1>3. DOMAIN rs = 1..N /\ rs = [i \in 1..N |-> rs[i]] /\ \A i \in 1..N : rs[i] \in Slot(i)
  BY DEF Readings
<1>4. ASSUME NEW i \in 1..N, \A j \in 2..(i + 1) : line[j].kind = "report"
      PROVE  /\ rs[i] = [sat |-> line[i + 1].sat, val |-> line[i + 1].val]
             /\ line[i + 1].sat \in Sats /\ line[i + 1].val \in {"tracked", "visible"}
  <2>1. i + 1 \in 1..Len(line) /\ i + 1 \in 2..(i + 1) BY <1>1
  <2>2. line[i + 1] \in Units /\ line[i + 1].kind = "report" BY <1>1, <1>4, <2>1
  <2> QED BY <1>3, <1>4, <2>2, ReportType DEF Slot
<1>5. \A i \in 1..N : rs[i] \in Slots
  <2> TAKE i \in 1..N
  <2>1. CASE \A j \in 2..(i + 1) : line[j].kind = "report"
    <3> DEFINE s == line[i + 1].sat
               v == line[i + 1].val
    <3>a. rs[i] = [sat |-> s, val |-> v] /\ s \in Sats /\ v \in {"tracked", "visible"}
      BY <1>4, <2>1
    <3> HIDE DEF s, v
    <3>1. rs[i] \in Entries BY <3>a DEF Entries, Signal
    <3> QED BY <3>1 DEF Slots
  <2>2. CASE ~\A j \in 2..(i + 1) : line[j].kind = "report"
    <3>1. rs[i] \in {Skip} \cup [sat : Sats, val : {"garbled"}] BY <1>3, <2>2 DEF Slot
    <3>2. [sat : Sats, val : {"garbled"}] \subseteq Entries BY DEF Entries, Signal
    <3> QED BY <3>1, <3>2 DEF Slots
  <2> QED BY <2>1, <2>2
<1> HIDE DEF N
<1>6. rs \in [1..N -> Slots] BY <1>3, <1>5
<1>7. rs \in Seq(Slots) BY <1>2, <1>6, SeqDef
<1>8. Len(rs) = N
  <2>1. DOMAIN rs = 1..Len(rs) /\ Len(rs) \in Nat BY <1>7, LenProperties
  <2> QED BY <1>2, <1>3, <2>1
<1>9. ASSUME Sound, NEW i \in 1..N
      PROVE  rs[i] # Skip /\ rs[i].sat = line[i + 1].sat /\ rs[i].val = line[i + 1].val
  <2>1. \A j \in 2..(i + 1) : line[j].kind = "report" BY <1>1, <1>9 DEF Sound, N
  <2>2. /\ rs[i] = [sat |-> line[i + 1].sat, val |-> line[i + 1].val]
        /\ line[i + 1].val \in {"tracked", "visible"}
    BY <1>4, <2>1
  <2> QED BY <2>2 DEF Skip
<1> QED BY <1>7, <1>8, <1>9 DEF N

-----------------------------------------------------------------------------
(* The table through the steps *)

\* Inductive together with LineInv, which bounds the line.
TableInv == TypeOK /\ OncePerSat(sats)

\* At boot the table is empty.
LEMMA TableInit == Init => TableInv
<1> SUFFICES ASSUME Init PROVE TableInv OBVIOUS
<1>1. <<>> \in Seq(Units) /\ <<>> \in Seq(Entries) /\ Len(<<>>) = 0 OBVIOUS
<1>2. OncePerSat(sats)
  <2>1. DOMAIN sats = {} BY DEF Init
  <2> QED BY <2>1 DEF OncePerSat
<1>3. Len(line) = 0 /\ Len(sats) = 0 /\ 0 <= LineMax /\ 0 <= NMEA_MAX_SATS
  BY <1>1, SizeAssumption DEF Init
<1> QED BY <1>1, <1>2, <1>3 DEF Init, TableInv, TypeOK

\* The table of a reachable state is one sat_upsert builds.
LEMMA TableIs == TableInv => sats \in Tables
  BY DEF TableInv, TypeOK, Tables

\* Only the end of a line touches the table.
LEMMA LineTable ==
  ASSUME TableInv, EndOfLine
  PROVE  /\ sats' \in Tables /\ fix' \in {"none", "sound", "garbled"}
         /\ \A i \in DOMAIN sats : i \in DOMAIN sats' /\ sats'[i].sat = sats[i].sat
         /\ Accepted /\ line[1].code = "GSV" /\ Sound =>
              \A s \in Sats : \A j \in LastReport(s) : Current(sats', s, line[j].val)
<1>1. sats \in Tables /\ line \in Seq(Units) /\ fix \in {"none", "sound", "garbled"}
  BY TableIs DEF TableInv, TypeOK
<1>2. Accepted => line # <<>> BY DEF Accepted
<1>3. CASE /\ Accepted /\ line[1].code = "GSV"
           /\ \E rs \in Readings : sats' = ParseGsv(rs)
           /\ UNCHANGED fix
  <2>1. PICK rs \in Readings : sats' = ParseGsv(rs) BY <1>3
  <2>2. rs \in Seq(Slots) /\ Len(rs) = Len(line) - 1 BY <1>1, <1>2, <1>3, <2>1, ReadingsAre
  <2>3. /\ sats' \in Tables
        /\ \A i \in DOMAIN sats : i \in DOMAIN sats' /\ sats'[i].sat = sats[i].sat
    BY <1>1, <2>1, <2>2, GsvKeeps
  <2>4. ASSUME Sound, NEW s \in Sats, NEW j \in LastReport(s)
        PROVE  Current(sats', s, line[j].val)
    <3>1. \A i \in 1..Len(rs) :
            rs[i] # Skip /\ rs[i].sat = line[i + 1].sat /\ rs[i].val = line[i + 1].val
      BY <1>1, <1>2, <1>3, <2>1, <2>4, ReadingsAre
    <3>2. Len(line) \in Nat BY <1>1, LenProperties
    <3>3. /\ j \in 2..Len(line) /\ line[j].sat = s
          /\ \A k \in (j + 1)..Len(line) : line[k].sat # s
      BY DEF LastReport
    <3>4. PICK k \in 1..Len(rs) : k = j - 1 BY <2>2, <3>2, <3>3
    <3>a. k + 1 = j BY <3>3, <3>4
    <3>5. rs[k].sat = s /\ rs[k].val = line[j].val /\ rs[k] # Skip BY <3>1, <3>3, <3>a
    <3>6. \A i \in (k + 1)..Len(rs) : rs[i].sat # rs[k].sat
      <4> TAKE i \in (k + 1)..Len(rs)
      <4>1. i \in 1..Len(rs) /\ i + 1 \in (j + 1)..Len(line) BY <2>2, <3>2, <3>3, <3>4
      <4> QED BY <3>1, <3>3, <3>5, <4>1
    <3>7. Current(ParseGsv(rs), rs[k].sat, rs[k].val) BY <1>1, <2>2, <3>5, <3>6, GsvCurrent
    <3> QED BY <2>1, <3>5, <3>7
  <2> QED BY <1>1, <1>3, <2>3, <2>4
<1>4. CASE Accepted /\ line[1].code = "GGA" /\ fix' \in ParseGga /\ UNCHANGED sats
  BY <1>1, <1>4 DEF ParseGga
<1>5. CASE (Accepted => line[1].code = "other") /\ UNCHANGED <<sats, fix>> BY <1>1, <1>5
<1> QED BY <1>3, <1>4, <1>5 DEF EndOfLine, ProcessLine

\* No byte, and neither an open nor a disconnect, changes what is shown.
LEMMA OthersKeepTable ==
  ASSUME [Next]_vars, ~EndOfLine
  PROVE  UNCHANGED <<sats, fix>>
  BY DEF Next, vars, Open, Disconnect, SendHead, SendPrompt, SendRest, SendReport, SendFix, Byte

\* The two flags are Boolean.
LEMMA FlagTypes ==
  ASSUME TypeOK, [Next]_vars
  PROVE  itf_open' \in BOOLEAN /\ first' \in BOOLEAN
  BY DEF TypeOK, Next, vars, Open, Disconnect, SendHead, SendPrompt, SendRest, SendReport, SendFix,
         Byte, EndOfLine

\* Every step keeps the table one of those sat_upsert builds.
LEMMA TableNext == LineInv /\ TableInv /\ [Next]_vars => TableInv'
<1> SUFFICES ASSUME LineInv, TableInv, [Next]_vars PROVE TableInv' OBVIOUS
<1>1. Lines' BY LineStep DEF LineInv
<1>2. itf_open' \in BOOLEAN /\ first' \in BOOLEAN BY FlagTypes DEF TableInv
<1>3. sats' \in Tables /\ fix' \in {"none", "sound", "garbled"}
  <2>1. CASE EndOfLine BY <2>1, LineTable
  <2>2. CASE ~EndOfLine BY <2>2, OthersKeepTable, TableIs DEF TableInv, TypeOK
  <2> QED BY <2>1, <2>2
<1> QED BY <1>1, <1>2, <1>3 DEF TableInv, TypeOK, Lines, Tables

\* The line and the table never outgrow their arrays, whatever is received: s_line
\* (nmea_source.c:133-146) and s_st.sats (nmea_source.c:46-57).
THEOREM TypeCorrect == Spec => []TypeOK
<1>1. TableInv => TypeOK BY DEF TableInv
<1> QED BY <1>1, LineInit, LineStep, TableInit, TableNext, PTL DEF Spec

\* A satellite has one entry, keeps it, and shows what was last reported of it;
\* only a full table leaves one out (nmea_source.c:46-57, 73-84).
THEOREM TableIsCurrent == Spec => TableTracksSky
<1> DEFINE Step ==
      /\ \A i, j \in DOMAIN sats' : sats'[i].sat = sats'[j].sat => i = j
      /\ \A i \in DOMAIN sats : i \in DOMAIN sats' /\ sats'[i].sat = sats[i].sat
      /\ (EndOfLine /\ Accepted /\ line[1].code = "GSV" /\ Sound) =>
           \A s \in Sats : \A j \in LastReport(s) :
             \/ Shows(sats', s, line[j].val)
             \/ Len(sats') = NMEA_MAX_SATS /\ \A i \in DOMAIN sats' : sats'[i].sat /= s
<1>1. TableInv /\ [Next]_vars => [Step]_vars
  <2> SUFFICES ASSUME TableInv, [Next]_vars PROVE Step OBVIOUS
  <2>1. CASE EndOfLine
    <3>1. OncePerSat(sats') BY <2>1, LineTable DEF Tables
    <3> QED BY <2>1, <3>1, LineTable DEF OncePerSat, Current
  <2>2. CASE ~EndOfLine
    <3>1. OncePerSat(sats') /\ sats' = sats BY <2>2, OthersKeepTable DEF TableInv
    <3> QED BY <2>2, <3>1 DEF OncePerSat
  <2> QED BY <2>1, <2>2
<1>2. TableTracksSky <=> [][Step]_vars BY DEF TableTracksSky
<1> QED BY <1>1, <1>2, LineInit, LineStep, TableInit, TableNext, PTL DEF Spec

-----------------------------------------------------------------------------
(* The bars *)

\* The division leaves room: so many bars of that width fit.
LEMMA QuotientFits ==
  ASSUME NEW n \in Nat, NEW d \in Nat \ {0}
  PROVE  n \div d \in Nat /\ d * (n \div d) <= n
  OBVIOUS

\* The bars of nb satellites stay within the row: the narrowest by the
\* assumption on the sizes, wider ones by the division.
LEMMA EdgeWithinRow ==
  ASSUME NEW nb \in 1..NMEA_MAX_SATS
  PROVE  RightEdge(nb) <= BAR_ROW_W
<1> DEFINE room == BAR_ROW_W - (nb + 1) * BAR_GAP
           bw == room \div nb
<1> USE SizeAssumption, RoomAssumption DEF BAR_GAP, MinBar, MaxBar
<1>1. 8 * nb <= 8 * NMEA_MAX_SATS OBVIOUS
<1>2. 8 * nb + 2 <= BAR_ROW_W BY <1>1
<1>3. room \in Nat BY <1>2
<1> HIDE DEF room
<1>4. bw \in Nat /\ nb * bw <= room BY <1>3, QuotientFits
<1>5. BarWidth(nb) = IF bw < 6 THEN 6 ELSE IF bw > 26 THEN 26 ELSE bw BY DEF BarWidth, room
<1> HIDE DEF bw
<1>6. CASE bw < 6 BY <1>2, <1>4, <1>5, <1>6 DEF RightEdge
<1>7. CASE bw >= 6
  <2>1. BarWidth(nb) \in Nat /\ BarWidth(nb) <= bw BY <1>4, <1>5, <1>7
  <2>2. nb * BarWidth(nb) <= nb * bw BY <1>4, <2>1
  <2>3. RightEdge(nb) = 2 + nb * BarWidth(nb) + 2 * nb BY <2>1 DEF RightEdge
  <2> QED BY <1>4, <2>1, <2>2, <2>3 DEF room
<1> QED BY <1>4, <1>6, <1>7

\* A table that keeps to its size is drawn within the row (gnss_view.c:156-170).
THEOREM TableFitsRow == TypeOK => BarsFit
<1> SUFFICES ASSUME TypeOK, Drawn /= {} PROVE RightEdge(Cardinality(Drawn)) <= BAR_ROW_W
  BY DEF BarsFit
<1>1. Len(sats) \in Nat /\ Len(sats) <= NMEA_MAX_SATS /\ DOMAIN sats = 1..Len(sats)
  BY DEF TypeOK
<1>2. IsFiniteSet(1..Len(sats)) /\ Cardinality(1..Len(sats)) = Len(sats)
  <2>1. 1 \in Int /\ Len(sats) \in Int BY <1>1
  <2>2. Cardinality(1..Len(sats)) = IF 1 > Len(sats) THEN 0 ELSE Len(sats) - 1 + 1
    BY <2>1, FS_Interval, Zenon
  <2>3. IsFiniteSet(1..Len(sats)) BY <2>1, FS_Interval, Zenon
  <2> QED BY <1>1, <2>2, <2>3
<1>3. Drawn \in SUBSET (1..Len(sats)) BY <1>1 DEF Drawn
<1>4. IsFiniteSet(Drawn) /\ Cardinality(Drawn) <= Len(sats)
  <2>1. IsFiniteSet(Drawn) /\ Cardinality(Drawn) <= Cardinality(1..Len(sats)) BY <1>2, <1>3, FS_Subset, Zenon
  <2> QED BY <1>2, <2>1
<1>5. Cardinality(Drawn) \in Nat /\ Cardinality(Drawn) /= 0
  BY <1>4, FS_CardinalityType, FS_EmptySet
<1>6. Cardinality(Drawn) \in 1..NMEA_MAX_SATS BY <1>1, <1>4, <1>5, SizeAssumption
<1> QED BY <1>6, EdgeWithinRow

\* Whatever the receiver reports, the bars stay within the row.
THEOREM AlwaysFits == Spec => []BarsFit
  BY TypeCorrect, TableFitsRow, PTL
=============================================================================
