------------------------------ MODULE Backlight ------------------------------
(***************************************************************************)
(* The power-aware backlight (main/backlight.c): the 1 Hz tick on the      *)
(* esp_timer task, the `disp` command on the console task, and what they   *)
(* react to: frames reaching rtcm_monitor, touches (main/touch.c), and a   *)
(* receiver that shares the 5 V supply with the panel.                     *)
(*                                                                         *)
(* The supply is external, as backlight.h describes it: a brightness above *)
(* what it sustains MAY drop the receiver, at any later moment; a dropped  *)
(* receiver comes back only at a brightness the supply sustains, and the   *)
(* floor is always one.  Time is counted in ticks.                         *)
(***************************************************************************)
EXTENDS Integers

CONSTANTS
  Supplies,      \* brightness levels a supply may sustain; one is picked at boot
  ManualLevels,  \* arguments of the `disp` command
  TouchPresent,  \* touch_present(): FALSE on the GT911 revision
  HealthyCap,    \* 100000, where s_healthy stops counting
  MaxUnplugs     \* bound on the times the stream stops for another reason

BL_FLOOR == 20
BL_TARGET == 80
BL_STEP == 10
BL_WARMUP_S == 5
BL_CLIMB_EVERY == 3
FRESH == 3             \* BL_FRESH_US in ticks
Level == 0..100
None == -1

ASSUME SupplyAssumption == Supplies \subseteq BL_FLOOR..100
ASSUME LevelsAssumption == ManualLevels \subseteq Int
\* From the floor the target is six climbs away, the last in second 21.
ASSUME CountersAssumption ==
  HealthyCap \in Nat /\ HealthyCap >= 21 /\ MaxUnplugs \in Nat /\ TouchPresent \in BOOLEAN
\* The counter stops at a value at which no climb is due.
ASSUME CapAssumption == HealthyCap % BL_CLIMB_EVERY # 0

VARIABLES
  supply, up, unplugs,     \* the supply, and whether the receiver streams
  age,                     \* ticks since the last valid frame (stale: > FRESH)
  idle,                    \* no touch for BL_IDLE_OFF_S seconds
  display,                 \* the duty display_backlight wrote last
  s_cur, s_ceiling, s_healthy, s_was_streaming, s_manual, s_asleep, s_presleep,
  pc, alive, level,        \* the tick: where it is, and its locals
  mpc, mlevel,             \* backlight_manual: where it is, its argument
  dropAt                   \* history: the level a brownout struck at, while down

world == <<supply, up, unplugs, age, idle, dropAt>>
learned == <<s_ceiling, s_healthy, s_was_streaming>>
sleep == <<s_asleep, s_presleep>>
tick == <<pc, alive, level>>
manual == <<s_manual, mpc, mlevel>>
vars == <<world, display, s_cur, learned, sleep, tick, manual>>

Init ==
  /\ supply \in Supplies /\ up = FALSE /\ unplugs = 0 /\ age = FRESH + 1
  /\ idle = FALSE /\ dropAt = None
  /\ display = 0 /\ s_cur = 0
  /\ s_ceiling = 100 /\ s_healthy = 0 /\ s_was_streaming = FALSE
  /\ s_asleep = FALSE /\ s_presleep = 0
  /\ pc = "start" /\ alive = FALSE /\ level = 0
  /\ s_manual = FALSE /\ mpc = "idle" /\ mlevel = None

-----------------------------------------------------------------------------
(* The receiver, the supply and the fingers *)

Recover ==
  /\ ~up /\ display <= supply
  /\ up' = TRUE /\ dropAt' = None
  /\ UNCHANGED <<supply, unplugs, age, idle, display, s_cur, learned, sleep, tick, manual>>

Brownout ==
  /\ up /\ display > supply
  /\ up' = FALSE /\ dropAt' = display
  /\ UNCHANGED <<supply, unplugs, age, idle, display, s_cur, learned, sleep, tick, manual>>

Unplug ==
  /\ up /\ unplugs < MaxUnplugs
  /\ up' = FALSE /\ unplugs' = unplugs + 1
  /\ UNCHANGED <<supply, age, idle, dropAt, display, s_cur, learned, sleep, tick, manual>>

Frame ==
  /\ up /\ age' = 0
  /\ UNCHANGED <<supply, up, unplugs, idle, dropAt, display, s_cur, learned, sleep, tick, manual>>

FingerMoves ==
  /\ TouchPresent /\ idle' = ~idle
  /\ UNCHANGED <<supply, up, unplugs, age, dropAt, display, s_cur, learned, sleep, tick, manual>>

-----------------------------------------------------------------------------
(* The tick *)

\* apply(): writes s_cur, then the display, unless the level is already s_cur.
Apply(pct, next) ==
  IF pct = s_cur
  THEN pc' = next /\ UNCHANGED <<s_cur, level>>
  ELSE s_cur' = pct /\ level' = pct /\ pc' = IF next = "judge" THEN "write_on" ELSE "write"

\* backlight_auto_start: apply(BL_FLOOR) with s_cur forced to differ.
AutoStart ==
  /\ pc = "start" /\ pc' = "write"
  /\ s_cur' = BL_FLOOR /\ level' = BL_FLOOR
  /\ UNCHANGED <<world, display, learned, sleep, alive, manual>>

Write ==
  /\ pc \in {"write", "write_on"}
  /\ display' = level /\ pc' = IF pc = "write_on" THEN "judge" ELSE "idle"
  /\ level' = 0
  /\ UNCHANGED <<world, s_cur, learned, sleep, alive, manual>>

\* A second has passed.  Frames come at 1 Hz: a streaming receiver sent one
\* within the last two.
Aged == IF age <= FRESH THEN age + 1 ELSE age
Second == pc = "idle" /\ (up => age <= 1) /\ age' = Aged

TickManual ==
  /\ Second /\ s_manual
  /\ UNCHANGED <<supply, up, unplugs, idle, dropAt, display, s_cur, learned, sleep, tick, manual>>

TickFire ==
  /\ Second /\ ~s_manual
  /\ alive' = (Aged <= FRESH)
  /\ pc' = IF TouchPresent /\ idle THEN "blank"
           ELSE IF TouchPresent /\ s_asleep THEN "wake" ELSE "judge"
  /\ UNCHANGED <<supply, up, unplugs, idle, dropAt, display, s_cur, learned, sleep, level, manual>>

Blank ==
  /\ pc = "blank" /\ ~s_asleep
  /\ s_asleep' = TRUE /\ s_presleep' = IF s_cur > 0 THEN s_cur ELSE BL_FLOOR
  /\ display' = 0 /\ pc' = "blanked"
  /\ UNCHANGED <<world, s_cur, learned, alive, level, manual>>

\* Mutant: leaves s_cur at the level that is no longer shown.
Blanked_KeepsCur ==
  /\ pc = "blanked" /\ pc' = "idle" /\ s_was_streaming' = alive
  /\ UNCHANGED <<world, display, s_cur, s_ceiling, s_healthy, sleep, alive, level, manual>>

Blanked ==
  /\ pc = "blanked" /\ pc' = "idle"
  /\ s_cur' = 0 /\ s_was_streaming' = alive
  /\ UNCHANGED <<world, display, s_ceiling, s_healthy, sleep, alive, level, manual>>

StayBlank ==
  /\ pc = "blank" /\ s_asleep /\ pc' = "idle"
  /\ s_was_streaming' = alive
  /\ UNCHANGED <<world, display, s_cur, s_ceiling, s_healthy, sleep, alive, level, manual>>

\* The tick goes on judging after the restore write.  s_presleep is dead while
\* the panel is awake; the model clears it.
Wake ==
  /\ pc = "wake" /\ pc' = "write_on"
  /\ s_asleep' = FALSE /\ s_cur' = s_presleep /\ level' = s_presleep
  /\ s_presleep' = 0
  /\ UNCHANGED <<world, display, learned, alive, manual>>

CutCeiling_NoFloor == s_cur - 3 * BL_STEP      \* mutant
CutCeiling_Narrow == IF s_cur - 2 * BL_STEP < BL_FLOOR THEN BL_FLOOR ELSE s_cur - 2 * BL_STEP   \* mutant
CutCeiling == IF s_cur - 3 * BL_STEP < BL_FLOOR THEN BL_FLOOR ELSE s_cur - 3 * BL_STEP

\* Mutant: falls to the floor and learns nothing.
StreamLost_Forgets ==
  /\ pc = "judge" /\ ~alive /\ s_was_streaming
  /\ s_healthy' = 0 /\ s_was_streaming' = FALSE
  /\ Apply(BL_FLOOR, "idle")
  /\ UNCHANGED <<world, display, s_ceiling, sleep, alive, manual>>

StreamLost ==
  /\ pc = "judge" /\ ~alive /\ s_was_streaming
  /\ s_ceiling' = IF CutCeiling < s_ceiling THEN CutCeiling ELSE s_ceiling
  /\ s_healthy' = 0 /\ s_was_streaming' = FALSE
  /\ Apply(BL_FLOOR, "idle")
  /\ UNCHANGED <<world, display, sleep, alive, manual>>

\* Mutant: takes it for granted that the floor is on display.
NotLatched_NoApply ==
  /\ pc = "judge" /\ ~alive /\ ~s_was_streaming
  /\ s_healthy' = 0 /\ pc' = "idle"
  /\ UNCHANGED <<world, display, s_cur, s_ceiling, s_was_streaming, sleep, alive, level, manual>>

NotLatched ==
  /\ pc = "judge" /\ ~alive /\ ~s_was_streaming
  /\ s_healthy' = 0 /\ Apply(BL_FLOOR, "idle")
  /\ UNCHANGED <<world, display, s_ceiling, s_was_streaming, sleep, alive, manual>>

Goal_IgnoresCeiling == BL_TARGET      \* mutant
Goal == IF BL_TARGET < s_ceiling THEN BL_TARGET ELSE s_ceiling

Healthier_Caps == IF s_healthy < 10 THEN s_healthy + 1 ELSE s_healthy      \* mutant
Healthier == IF s_healthy < HealthyCap THEN s_healthy + 1 ELSE s_healthy

ClimbDue ==
  Healthier >= BL_WARMUP_S /\ Healthier % BL_CLIMB_EVERY = 0 /\ s_cur < Goal

Hold ==
  /\ pc = "judge" /\ alive /\ ~ClimbDue
  /\ s_was_streaming' = TRUE /\ s_healthy' = Healthier /\ pc' = "idle"
  /\ UNCHANGED <<world, display, s_cur, s_ceiling, sleep, alive, level, manual>>

Climb ==
  /\ pc = "judge" /\ alive /\ ClimbDue
  /\ s_was_streaming' = TRUE /\ s_healthy' = Healthier
  /\ Apply(IF s_cur + BL_STEP > Goal THEN Goal ELSE s_cur + BL_STEP, "idle")
  /\ UNCHANGED <<world, display, s_ceiling, sleep, alive, manual>>

-----------------------------------------------------------------------------
(* backlight_manual, on the console task *)

Clamped(pct) == IF pct < 0 THEN 0 ELSE IF pct > 100 THEN 100 ELSE pct

Manual ==
  /\ mpc = "idle" /\ mpc' = "apply"
  /\ \E pct \in ManualLevels : mlevel' = Clamped(pct)
  /\ s_manual' = TRUE
  /\ UNCHANGED <<world, display, s_cur, learned, sleep, tick>>

ManualApply ==
  /\ mpc = "apply"
  /\ mpc' = IF mlevel = s_cur THEN "idle" ELSE "write"
  /\ s_cur' = mlevel
  /\ UNCHANGED <<world, display, learned, sleep, tick, s_manual, mlevel>>

ManualWrite ==
  /\ mpc = "write" /\ mpc' = "idle" /\ display' = mlevel
  /\ UNCHANGED <<world, s_cur, learned, sleep, tick, s_manual, mlevel>>

-----------------------------------------------------------------------------
Environment == Recover \/ Brownout \/ Unplug \/ Frame \/ FingerMoves
Tick ==
  AutoStart \/ Write \/ TickManual \/ TickFire \/ Blank \/ Blanked \/ StayBlank
    \/ Wake \/ StreamLost \/ NotLatched \/ Hold \/ Climb
Console == Manual \/ ManualApply \/ ManualWrite

Next == Environment \/ Tick \/ Console

Spec == Init /\ [][Next]_vars

\* The timer keeps firing, the receiver comes back when it can and then streams
\* at 1 Hz.  Nobody has to touch the panel or the console.
FairSpec == Spec /\ WF_vars(Tick) /\ WF_vars(Recover) /\ WF_vars(Frame)

-----------------------------------------------------------------------------
(* Properties *)

\* Every variable keeps its type.  The learned ceiling never falls below the
\* floor the receiver comes up at, and a level to restore is always a level.
TypeWorld ==
  /\ supply \in Supplies /\ unplugs \in 0..MaxUnplugs /\ age \in 0..(FRESH + 1)
  /\ dropAt \in Level \cup {None}
TypeFlags ==
  /\ up \in BOOLEAN /\ idle \in BOOLEAN /\ s_was_streaming \in BOOLEAN
  /\ s_manual \in BOOLEAN /\ s_asleep \in BOOLEAN /\ alive \in BOOLEAN
TypeLevels ==
  /\ display \in Level /\ s_cur \in Level /\ level \in Level /\ s_presleep \in Level
  /\ s_ceiling \in BL_FLOOR..100 /\ s_healthy \in 0..HealthyCap
  /\ mlevel \in Level \cup {None} /\ (mpc # "idle" => mlevel \in Level)
TypePcs ==
  /\ pc \in {"start", "write", "write_on", "idle", "blank", "blanked", "wake", "judge"}
  /\ mpc \in {"idle", "apply", "write"}
TypeOK == TypeWorld /\ TypeFlags /\ TypeLevels /\ TypePcs

\* Until `disp` is used the controller stays within what it has learned: no
\* level it shows, is about to show or will restore after a nap exceeds the
\* ceiling, at whatever point of the tick, however often the panel slept.
WithinCeiling ==
  ~s_manual =>
    /\ s_cur <= s_ceiling /\ s_presleep <= s_ceiling
    /\ (pc \in {"write", "write_on"} => level <= s_ceiling)
    /\ (pc = "idle" => display <= s_ceiling)

\* Between ticks s_cur tells what the panel shows, so that apply()'s early
\* return never leaves a wrong level on the panel, and it is dark exactly in a nap.
InSync ==
  ~s_manual =>
    /\ pc = "idle" => display = s_cur /\ (s_asleep <=> display = 0)
    /\ pc \in {"write", "write_on"} => level = s_cur
    /\ pc \in {"judge", "blank", "wake"} => display = s_cur

\* "a safe floor whenever RTCM3 is NOT streaming": once a tick has found the
\* stream stale, the panel is at the floor or dark when it returns.
FloorWhenStale ==
  pc = "idle" /\ ~s_manual /\ ~alive => display <= BL_FLOOR

\* When the tick sees the loss of a receiver that browned out, the new ceiling
\* is below the level it happened at, although s_cur may have climbed on in the
\* seconds in which the last frame still counted as fresh.
LearnsFromFailure ==
  [][StreamLost /\ ~s_manual /\ dropAt # None => s_ceiling' < dropAt]_vars

\* "auto-calibrates to whatever power is present": unless someone takes over or
\* the panel keeps napping, brownouts come to an end and the stream stays up.
Converges ==
  []~s_manual /\ <>[]~idle => <>[]up

\* With a stream that stays up the panel reaches, and keeps, the brightest
\* level allowed by the target and by what was learned.
ReachesGoal ==
  []~s_manual /\ <>[](up /\ ~idle) => <>[](display = Goal)

-----------------------------------------------------------------------------
(* Why these hold: the inductive invariant *)

\* The panel naps exactly where the tick thinks it does, and a call of
\* backlight_manual has suspended the controller before it writes anything.
Places ==
  /\ pc \in {"start", "write", "write_on", "judge"} => ~s_asleep
  /\ pc \in {"blanked", "wake"} => s_asleep
  /\ s_asleep \/ pc = "blank" => TouchPresent
  /\ mpc # "idle" => s_manual

\* What the tick relies on between its writes.
MidTick ==
  ~s_manual =>
    /\ s_asleep <=> s_presleep > 0
    /\ pc # "start" /\ ~s_asleep => s_cur > 0
    /\ pc \in {"blank", "wake"} /\ s_asleep => display = 0
    /\ pc = "blanked" => display = 0
    /\ pc = "write" /\ ~alive => level <= BL_FLOOR

\* The conjunction is inductive (PanelProofs).
IInv == TypeOK /\ WithinCeiling /\ InSync /\ FloorWhenStale /\ Places /\ MidTick

-----------------------------------------------------------------------------
(* What a comment of the code says, and TLC refutes *)

\* backlight.h:26, "set brightness now and stop the auto controller for the
\* rest of the session": when no call is in progress the panel shows the level
\* that was asked for last.
ManualSticks == mpc = "idle" /\ mlevel # None /\ pc = "idle" => display = mlevel
=============================================================================
