-------------------------------- MODULE Touch --------------------------------
(***************************************************************************)
(* The touch detector and who reads it (main/touch.c, main/backlight.c):   *)
(* poll_task samples the controller at 10 Hz and stamps the last touch;    *)
(* the backlight's tick, on the esp_timer task, compares the stamp with    *)
(* the time and blanks or wakes the panel.                                 *)
(*                                                                         *)
(* s_last_us is a plain int64_t on a 32-bit processor with two cores: both *)
(* its writing and its reading are two accesses, in an order the compiler  *)
(* picks.  Time is counted in polls; a half of the stamp holds 0..Word-1   *)
(* (2^32 us, 71 minutes, in the code).                                     *)
(*                                                                         *)
(* TInit, TNext, TSpec, tvars and TTypeOK are this component's Init, Next, *)
(* Spec, vars and TypeOK: PanelProofs extends Backlight as well.           *)
(***************************************************************************)
EXTENDS Integers, FiniteSets, FiniteSetsExt

CONSTANTS
  TOUCH_WIN, TOUCH_MIN,
  HistBits,         \* width of hist, a uint8_t
  BL_IDLE_OFF,      \* BL_IDLE_OFF_S, in polls
  TickPolls,        \* polls from one tick to the next, at least
  TickMax,          \* and at most: BL_TICK_US and how late a callback may be
  Word,             \* what one half of the stamp can count
  MaxTime           \* bound on the time

\* "window of polls (~500 ms), <= 8"; ticks are a second apart, ten polls, give or
\* take; the idle time and the time between two ticks are far below 71 minutes.
ASSUME WindowAssumption ==
  /\ HistBits \in Nat /\ TOUCH_WIN \in 1..HistBits /\ TOUCH_MIN \in 1..TOUCH_WIN
  /\ TickPolls \in Nat /\ TickPolls >= 2 /\ TickMax \in Nat /\ TickMax >= TickPolls
  /\ Word \in Nat /\ BL_IDLE_OFF \in Nat \ {0} /\ TickMax + BL_IDLE_OFF <= Word
  /\ MaxTime \in Nat

VARIABLES
  now,
  booted, s_present,     \* touch_init has returned, and found a controller
  hist, ppc, stamp,      \* poll_task: the bits set in its history, where it is, what it stores
  s_last,                \* the two halves of s_last_us
  bpc, bnow, seen,       \* the tick: where it is, its time, the halves it read
  dark,              \* the panel is blanked
  since, taps, active, bactive, wrong
    \* history: when touch_init returned, the valid samples, the last stamp
    \* that is stored whole, the one the tick should see, and whether the last
    \* tick blanked a panel in use

poll == <<hist, ppc, stamp>>
timer == <<bpc, bnow, seen, bactive, dark, wrong>>
tvars == <<now, booted, s_present, since, taps, active, s_last, poll, timer>>

Words(t) == [hi |-> t \div Word, lo |-> t % Word]
TimeOf(w) == w.hi * Word + w.lo
NoTick == -1
Half == {"hi", "lo"}
Other(h) == IF h = "hi" THEN "lo" ELSE "hi"

TInit ==
  /\ now = 0 /\ booted = FALSE /\ s_present = FALSE /\ since = 0
  /\ hist = {} /\ ppc = "poll" /\ stamp = 0 /\ s_last = Words(0)
  /\ bpc = "tick" /\ bnow = NoTick /\ seen = Words(0) /\ dark = FALSE
  /\ taps = {} /\ active = 0 /\ bactive = 0 /\ wrong = FALSE

-----------------------------------------------------------------------------
(* touch_init *)

\* What app_main does before it.
Boots ==
  /\ ~booted /\ now < MaxTime /\ now' = now + 1
  /\ UNCHANGED <<booted, s_present, since, taps, active, s_last, poll, timer>>

\* Mutant: the stamp is left at 0.
TouchInit_NoSeed ==
  /\ ~booted /\ booted' = TRUE /\ s_present' = TRUE
  /\ since' = now /\ active' = now
  /\ UNCHANGED <<now, taps, s_last, poll, timer>>

\* The controller answers and the task is created.
TouchInit ==
  /\ ~booted /\ booted' = TRUE /\ s_present' = TRUE
  /\ s_last' = Words(now) /\ since' = now /\ active' = now
  /\ UNCHANGED <<now, taps, poll, timer>>

\* No bus, no controller or no task: nothing is polled and nothing blanked.
TouchAbsent ==
  /\ ~booted /\ booted' = TRUE
  /\ UNCHANGED <<now, s_present, since, taps, active, s_last, poll, timer>>

-----------------------------------------------------------------------------
(* poll_task *)

\* (uint8_t)((hist << 1) | valid): every bit moves up, the highest one is lost.
Bits == 0..(HistBits - 1)
Shifted(valid) == ({i + 1 : i \in hist} \cap Bits) \cup (IF valid THEN {0} ELSE {})

\* popcount of the history under the mask of the window
Recent_WholeHistory(h) == Cardinality(h)      \* mutant
Recent(h) == Cardinality(h \cap 0..(TOUCH_WIN - 1))

\* A sample; a failed read counts as no touch.  A tick, which has the higher
\* priority, is over before the second sample after its start.
Poll ==
  /\ s_present /\ ppc = "poll" /\ now < MaxTime /\ now' = now + 1
  /\ bpc # "tick" => bnow = now
  /\ \E valid \in BOOLEAN :
       /\ hist' = Shifted(valid)
       /\ taps' = IF valid THEN taps \cup {now'} ELSE taps
  /\ IF Recent(hist') >= TOUCH_MIN THEN ppc' = "store" /\ stamp' = now'
     ELSE UNCHANGED <<ppc, stamp>>
  /\ UNCHANGED <<booted, s_present, since, active, s_last, timer>>

\* s_last_us = esp_timer_get_time(), half by half
Store(h, next) ==
  /\ s_last' = [s_last EXCEPT ![h] = Words(stamp)[h]] /\ ppc' = next
  /\ UNCHANGED <<now, booted, s_present, since, taps, hist, stamp, timer>>

StoreFirst == ppc = "store" /\ UNCHANGED active /\ \E h \in Half : Store(h, Other(h))
StoreSecond == ppc \in Half /\ active' = stamp /\ Store(ppc, "poll")

-----------------------------------------------------------------------------
(* The idle test of the backlight's tick, which runs once a second until       *)
(* `disp` suspends it; then no tick comes any more.                            *)

TickStart ==
  /\ s_present /\ bpc = "tick" /\ (bnow # NoTick => now - bnow \in TickPolls..TickMax)
  /\ bnow' = now /\ bactive' = active /\ bpc' = "load"
  /\ UNCHANGED <<now, booted, s_present, since, taps, active, s_last, poll, seen, dark,
                 wrong>>

\* touch_last_activity_us(), half by half
Load(h, next) ==
  /\ seen' = [seen EXCEPT ![h] = s_last[h]] /\ bpc' = next
  /\ UNCHANGED <<now, booted, s_present, since, taps, active, s_last, poll, bnow, bactive,
                 dark, wrong>>

LoadFirst == bpc = "load" /\ \E h \in Half : Load(h, Other(h))
LoadSecond == bpc \in Half /\ Load(bpc, "judge")

Idle(last) == bnow - last >= BL_IDLE_OFF

BlankOrWake ==
  /\ bpc = "judge" /\ bpc' = "tick"
  /\ dark' = Idle(TimeOf(seen)) /\ wrong' = (dark' /\ ~Idle(bactive))
  /\ UNCHANGED <<now, booted, s_present, since, taps, active, s_last, poll, bnow, seen,
                 bactive>>

-----------------------------------------------------------------------------
TNext ==
  \/ Boots \/ TouchInit \/ TouchAbsent
  \/ Poll \/ StoreFirst \/ StoreSecond
  \/ TickStart \/ LoadFirst \/ LoadSecond \/ BlankOrWake

TSpec == TInit /\ [][TNext]_tvars

-----------------------------------------------------------------------------
(* Properties *)

\* Every variable keeps its type; hist stays within a uint8_t.
TTypeOK ==
  /\ now \in 0..MaxTime /\ booted \in BOOLEAN /\ s_present \in BOOLEAN
  /\ hist \subseteq Bits /\ ppc \in {"poll", "store"} \cup Half
  /\ stamp \in 0..MaxTime /\ s_last \in [Half -> 0..MaxTime] /\ seen \in [Half -> 0..MaxTime]
  /\ bpc \in {"tick", "load", "judge"} \cup Half /\ bnow \in {NoTick} \cup 0..MaxTime
  /\ dark \in BOOLEAN /\ wrong \in BOOLEAN
  /\ taps \subseteq 1..MaxTime /\ {since, active, bactive} \subseteq 0..MaxTime

\* "a LONE valid sample ... never reaches 2-in-window": the stamp is the latest
\* poll that saw TOUCH_MIN valid samples among the last TOUCH_WIN, whatever
\* pattern of touches and phantoms the shifted byte went through, and the time
\* of touch_init before the first of them (touch.c:67-82, 112).
Window(p) == {t \in taps : p - TOUCH_WIN < t /\ t <= p}
Touched(p) == Cardinality(Window(p)) >= TOUCH_MIN
Touches == {p \in 1..now : Touched(p)}
LastTouch == Max({since} \cup Touches)
ActivityIsTouch == s_present /\ ppc = "poll" => TimeOf(s_last) = LastTouch

\* A panel in use is not blanked in the first 71 minutes, for want of a first
\* touch or by a stamp read in two halves.  After that a stamp read half old and
\* half new may blank it, but not in two ticks in a row: the next one finds the
\* stamp behind the carry stored, and the panel is dark for a second at most
\* (backlight.c:63-81, touch.c:80-86, 112).
DarkOnce == [][BlankOrWake /\ wrong' => now >= Word /\ ~wrong]_tvars

-----------------------------------------------------------------------------
(* Why these hold: the inductive invariant (PanelProofs) *)

\* Nothing happens before touch_init has returned, or without a controller.
Booting ==
  /\ ~s_present => ppc = "poll" /\ taps = {} /\ bpc = "tick" /\ bnow = NoTick /\ ~wrong
  /\ s_present => booted

\* Bit i of the history is the sample of the poll i cycles ago.
BitsArePolls == taps \subseteq (since + 1)..now /\ hist = {i \in Bits : now - i \in taps}

\* The stamp stored last is the last touch, the one being stored is a touch of
\* this moment, and s_last_us has each half from one of the two.
StampIsTouch ==
  /\ since <= active /\ active <= now
  /\ s_present /\ ppc = "poll" => active = LastTouch
  /\ ppc # "poll" => stamp = now /\ Touched(now)
  /\ \A h \in Half : s_last[h] = Words(IF ppc = Other(h) THEN stamp ELSE active)[h]

\* What a tick has read are halves of stamps from the one stored whole when it
\* began on; a poll that comes in between is its only one.
Read(h) == bpc \in {"judge", Other(h)}
Begun(t) == active >= t \/ (ppc # "poll" /\ stamp >= t)
SeenAreStamps ==
  bpc # "tick" =>
    /\ bnow # NoTick /\ bnow <= now /\ now <= bnow + 1 /\ bactive <= bnow /\ bactive <= active
    /\ \A h \in Half : Read(h) => \E t \in bactive..now : Begun(t) /\ seen[h] = Words(t)[h]

\* A tick that was wrong read across a carry, and the stamp behind the carry
\* is stored before the next one begins.
Carries == {k * Word : k \in 0..MaxTime}
WrongAtCarry ==
  wrong => bnow # NoTick /\ \E c \in Carries :
    /\ bpc = "tick" =>
         /\ bnow + 2 <= c + BL_IDLE_OFF /\ c <= bnow + 1
         /\ active >= c \/ (ppc # "poll" /\ stamp >= c /\ now <= bnow + 1)
    /\ bpc # "tick" => c <= bactive /\ bnow + 2 <= c + BL_IDLE_OFF + TickMax

TouchInv ==
  TTypeOK /\ Booting /\ BitsArePolls /\ StampIsTouch /\ SeenAreStamps /\ WrongAtCarry

-----------------------------------------------------------------------------
(* What a comment of the code says, and TLC refutes *)

\* backlight.c:23, BL_IDLE_OFF_S: "blank the panel after this long untouched".
BlankedMeansUntouched == ~wrong
=============================================================================
