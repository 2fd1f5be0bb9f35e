----------------------------- MODULE PanelProofs -----------------------------
(***************************************************************************)
(* Proofs about the panel: about Backlight, for every supply, every        *)
(* argument of `disp` and panels with and without a touch controller, and  *)
(* about Touch, for every window, byte, idle time, width of the stamp and  *)
(* spacing of the ticks that its assumption allows, however long it runs.  *)
(***************************************************************************)
EXTENDS Backlight, Touch, FiniteSetTheorems, TLAPS

-----------------------------------------------------------------------------
USE DEF world, learned, sleep, tick, manual

\* The cut ceiling is a level between the floor and the level that failed.
LEMMA CutCeilingBounds ==
  ASSUME s_cur \in Level
  PROVE  CutCeiling \in BL_FLOOR..100 /\ (s_cur > BL_FLOOR => CutCeiling < s_cur)
  BY DEF CutCeiling, BL_FLOOR, BL_STEP, Level

\* A climb ends at the goal at the latest.
LEMMA GoalBounds ==
  ASSUME s_ceiling \in BL_FLOOR..100
  PROVE  Goal \in BL_FLOOR..BL_TARGET /\ Goal <= s_ceiling
  BY DEF Goal, BL_FLOOR, BL_TARGET

-----------------------------------------------------------------------------
(* Backlight: type correctness *)

\* The controller starts in a state of the right type.
LEMMA InitType == Init => TypeOK
<1> SUFFICES ASSUME Init PROVE TypeOK OBVIOUS
<1>1. TypeWorld BY CountersAssumption DEF Init, TypeWorld, FRESH
<1>2. TypeFlags BY DEF Init, TypeFlags
<1>3. TypeLevels BY CountersAssumption DEF Init, TypeLevels, Level, BL_FLOOR, None
<1>4. TypePcs BY DEF Init, TypePcs
<1> QED BY <1>1, <1>2, <1>3, <1>4 DEF TypeOK

\* No step gives a flag another value than TRUE or FALSE.
LEMMA FlagsPreserved ==
  ASSUME TypeFlags, [Next]_vars
  PROVE  TypeFlags'
<1> USE DEF TypeFlags
<1>1. CASE Environment
  <2>1. CASE Recover BY <2>1 DEF Recover
  <2>2. CASE Brownout BY <2>2 DEF Brownout
  <2>3. CASE Unplug BY <2>3 DEF Unplug
  <2>4. CASE Frame BY <2>4 DEF Frame
  <2>5. CASE FingerMoves BY <2>5 DEF FingerMoves
  <2> QED BY <1>1, <2>1, <2>2, <2>3, <2>4, <2>5 DEF Environment
<1>2. CASE Tick
  <2>1. CASE AutoStart BY <2>1 DEF AutoStart
  <2>2. CASE Write BY <2>2 DEF Write
  <2>3. CASE TickManual BY <2>3 DEF TickManual, Second
  <2>4. CASE TickFire BY <2>4 DEF TickFire, Second
  <2>5. CASE Blank BY <2>5 DEF Blank
  <2>6. CASE Blanked BY <2>6 DEF Blanked
  <2>7. CASE StayBlank BY <2>7 DEF StayBlank
  <2>8. CASE Wake BY <2>8 DEF Wake
  <2>9. CASE StreamLost BY <2>9 DEF StreamLost, Apply
  <2>10. CASE NotLatched BY <2>10 DEF NotLatched, Apply
  <2>11. CASE Hold BY <2>11 DEF Hold
  <2>12. CASE Climb BY <2>12 DEF Climb, Apply
  <2> QED BY <1>2, <2>1, <2>2, <2>3, <2>4, <2>5, <2>6, <2>7, <2>8, <2>9, <2>10, <2>11, <2>12 DEF Tick
<1>3. CASE Console
  <2>1. CASE Manual BY <2>1 DEF Manual
  <2>2. CASE ManualApply BY <2>2 DEF ManualApply
  <2>3. CASE ManualWrite BY <2>3 DEF ManualWrite
  <2> QED BY <1>3, <2>1, <2>2, <2>3 DEF Console
<1>4. CASE UNCHANGED vars BY <1>4 DEF vars
<1> QED BY <1>1, <1>2, <1>3, <1>4 DEF Next

\* No step of the receiver, the timer or the console leaves the model's world.
LEMMA WorldPreserved ==
  ASSUME TypeWorld, TypeLevels, [Next]_vars
  PROVE  TypeWorld'
<1> USE CountersAssumption DEF TypeWorld, TypeLevels, Aged, FRESH, Level
<1>1. CASE Environment
  <2>1. CASE Recover BY <2>1 DEF Recover
  <2>2. CASE Brownout BY <2>2 DEF Brownout
  <2>3. CASE Unplug BY <2>3 DEF Unplug
  <2>4. CASE Frame BY <2>4 DEF Frame
  <2>5. CASE FingerMoves BY <2>5 DEF FingerMoves
  <2> QED BY <1>1, <2>1, <2>2, <2>3, <2>4, <2>5 DEF Environment
<1>2. CASE Tick
  <2>1. CASE AutoStart BY <2>1 DEF AutoStart
  <2>2. CASE Write BY <2>2 DEF Write
  <2>3. CASE TickManual BY <2>3 DEF TickManual, Second
  <2>4. CASE TickFire BY <2>4 DEF TickFire, Second
  <2>5. CASE Blank BY <2>5 DEF Blank
  <2>6. CASE Blanked BY <2>6 DEF Blanked
  <2>7. CASE StayBlank BY <2>7 DEF StayBlank
  <2>8. CASE Wake BY <2>8 DEF Wake
  <2>9. CASE StreamLost BY <2>9 DEF StreamLost, Apply
  <2>10. CASE NotLatched BY <2>10 DEF NotLatched, Apply
  <2>11. CASE Hold BY <2>11 DEF Hold
  <2>12. CASE Climb BY <2>12 DEF Climb, Apply
  <2> QED BY <1>2, <2>1, <2>2, <2>3, <2>4, <2>5, <2>6, <2>7, <2>8, <2>9, <2>10, <2>11, <2>12 DEF Tick
<1>3. CASE Console
  <2>1. CASE Manual BY <2>1 DEF Manual
  <2>2. CASE ManualApply BY <2>2 DEF ManualApply
  <2>3. CASE ManualWrite BY <2>3 DEF ManualWrite
  <2> QED BY <1>3, <2>1, <2>2, <2>3 DEF Console
<1>4. CASE UNCHANGED vars BY <1>4 DEF vars
<1> QED BY <1>1, <1>2, <1>3, <1>4 DEF Next

\* The tick and the console task always have a next step of theirs.
LEMMA PcsPreserved ==
  ASSUME TypePcs, [Next]_vars
  PROVE  TypePcs'
<1> USE DEF TypePcs
<1>1. CASE Environment
  <2>1. CASE Recover BY <2>1 DEF Recover
  <2>2. CASE Brownout BY <2>2 DEF Brownout
  <2>3. CASE Unplug BY <2>3 DEF Unplug
  <2>4. CASE Frame BY <2>4 DEF Frame
  <2>5. CASE FingerMoves BY <2>5 DEF FingerMoves
  <2> QED BY <1>1, <2>1, <2>2, <2>3, <2>4, <2>5 DEF Environment
<1>2. CASE Tick
  <2>1. CASE AutoStart BY <2>1 DEF AutoStart
  <2>2. CASE Write BY <2>2 DEF Write
  <2>3. CASE TickManual BY <2>3 DEF TickManual, Second
  <2>4. CASE TickFire BY <2>4 DEF TickFire, Second
  <2>5. CASE Blank BY <2>5 DEF Blank
  <2>6. CASE Blanked BY <2>6 DEF Blanked
  <2>7. CASE StayBlank BY <2>7 DEF StayBlank
  <2>8. CASE Wake BY <2>8 DEF Wake
  <2>9. CASE StreamLost BY <2>9 DEF StreamLost, Apply
  <2>10. CASE NotLatched BY <2>10 DEF NotLatched, Apply
  <2>11. CASE Hold BY <2>11 DEF Hold
  <2>12. CASE Climb BY <2>12 DEF Climb, Apply
  <2> QED BY <1>2, <2>1, <2>2, <2>3, <2>4, <2>5, <2>6, <2>7, <2>8, <2>9, <2>10, <2>11, <2>12 DEF Tick
<1>3. CASE Console
  <2>1. CASE Manual BY <2>1 DEF Manual
  <2>2. CASE ManualApply BY <2>2 DEF ManualApply
  <2>3. CASE ManualWrite BY <2>3 DEF ManualWrite
  <2> QED BY <1>3, <2>1, <2>2, <2>3 DEF Console
<1>4. CASE UNCHANGED vars BY <1>4 DEF vars
<1> QED BY <1>1, <1>2, <1>3, <1>4 DEF Next

\* Every level stays a percentage, and the ceiling stays above the floor.
LEMMA LevelsPreserved ==
  ASSUME TypeLevels, TypePcs, [Next]_vars
  PROVE  TypeLevels'
<1> USE CountersAssumption, CutCeilingBounds, GoalBounds
    DEF TypeLevels, TypePcs, Level, BL_FLOOR, BL_TARGET, BL_STEP, None
<1>1. CASE Environment
  <2>1. CASE Recover BY <2>1 DEF Recover
  <2>2. CASE Brownout BY <2>2 DEF Brownout
  <2>3. CASE Unplug BY <2>3 DEF Unplug
  <2>4. CASE Frame BY <2>4 DEF Frame
  <2>5. CASE FingerMoves BY <2>5 DEF FingerMoves
  <2> QED BY <1>1, <2>1, <2>2, <2>3, <2>4, <2>5 DEF Environment
<1>2. CASE Tick
  <2>1. CASE AutoStart BY <2>1 DEF AutoStart
  <2>2. CASE Write BY <2>2 DEF Write
  <2>3. CASE TickManual BY <2>3 DEF TickManual, Second
  <2>4. CASE TickFire BY <2>4 DEF TickFire, Second
  <2>5. CASE Blank BY <2>5 DEF Blank
  <2>6. CASE Blanked BY <2>6 DEF Blanked
  <2>7. CASE StayBlank BY <2>7 DEF StayBlank
  <2>8. CASE Wake BY <2>8 DEF Wake
  <2>9. CASE StreamLost BY <2>9 DEF StreamLost, Apply
  <2>10. CASE NotLatched BY <2>10 DEF NotLatched, Apply
  <2>11. CASE Hold BY <2>11 DEF Hold, Healthier
  <2>12. CASE Climb BY <2>12 DEF Climb, Apply, Healthier, ClimbDue
  <2> QED BY <1>2, <2>1, <2>2, <2>3, <2>4, <2>5, <2>6, <2>7, <2>8, <2>9, <2>10, <2>11, <2>12 DEF Tick
<1>3. CASE Console
  <2>1. CASE Manual BY <2>1, LevelsAssumption DEF Manual, Clamped
  <2>2. CASE ManualApply BY <2>2 DEF ManualApply
  <2>3. CASE ManualWrite BY <2>3 DEF ManualWrite
  <2> QED BY <1>3, <2>1, <2>2, <2>3 DEF Console
<1>4. CASE UNCHANGED vars BY <1>4 DEF vars
<1> QED BY <1>1, <1>2, <1>3, <1>4 DEF Next

\* Every step preserves the types.
LEMMA TypePreserved == TypeOK /\ [Next]_vars => TypeOK'
  BY FlagsPreserved, WorldPreserved, PcsPreserved, LevelsPreserved DEF TypeOK

\* Type correctness of the adaptive backlight.
THEOREM TypeCorrect == Spec => []TypeOK
  BY InitType, TypePreserved, PTL DEF Spec

-----------------------------------------------------------------------------
(* Backlight: the inductive invariant *)

\* A controller that has not started yet satisfies every part of it.
LEMMA InitIInv == Init => IInv
<1> SUFFICES ASSUME Init PROVE IInv OBVIOUS
<1>1. TypeOK BY InitType
<1>2. WithinCeiling BY DEF Init, WithinCeiling
<1>3. InSync /\ FloorWhenStale BY DEF Init, InSync, FloorWhenStale
<1>4. Places /\ MidTick BY DEF Init, Places, MidTick, BL_FLOOR
<1> QED BY <1>1, <1>2, <1>3, <1>4 DEF IInv

\* The panel falls asleep in Blank only, and wakes in Wake only.
LEMMA PlacesPreserved ==
  ASSUME TypeFlags, TypePcs, Places, [Next]_vars
  PROVE  Places'
<1> USE CountersAssumption DEF TypeFlags, TypePcs, Places
<1>1. CASE Environment
  <2>1. CASE Recover BY <2>1 DEF Recover
  <2>2. CASE Brownout BY <2>2 DEF Brownout
  <2>3. CASE Unplug BY <2>3 DEF Unplug
  <2>4. CASE Frame BY <2>4 DEF Frame
  <2>5. CASE FingerMoves BY <2>5 DEF FingerMoves
  <2> QED BY <1>1, <2>1, <2>2, <2>3, <2>4, <2>5 DEF Environment
<1>2. CASE Tick
  <2>1. CASE AutoStart BY <2>1 DEF AutoStart
  <2>2. CASE Write BY <2>2 DEF Write
  <2>3. CASE TickManual BY <2>3 DEF TickManual, Second
  <2>4. CASE TickFire BY <2>4 DEF TickFire, Second
  <2>5. CASE Blank BY <2>5 DEF Blank
  <2>6. CASE Blanked BY <2>6 DEF Blanked
  <2>7. CASE StayBlank BY <2>7 DEF StayBlank
  <2>8. CASE Wake BY <2>8 DEF Wake
  <2>9. CASE StreamLost BY <2>9 DEF StreamLost, Apply
  <2>10. CASE NotLatched BY <2>10 DEF NotLatched, Apply
  <2>11. CASE Hold BY <2>11 DEF Hold
  <2>12. CASE Climb BY <2>12 DEF Climb, Apply
  <2> QED BY <1>2, <2>1, <2>2, <2>3, <2>4, <2>5, <2>6, <2>7, <2>8, <2>9, <2>10, <2>11, <2>12 DEF Tick
<1>3. CASE Console
  <2>1. CASE Manual BY <2>1 DEF Manual
  <2>2. CASE ManualApply BY <2>2 DEF ManualApply
  <2>3. CASE ManualWrite BY <2>3 DEF ManualWrite
  <2> QED BY <1>3, <2>1, <2>2, <2>3 DEF Console
<1>4. CASE UNCHANGED vars BY <1>4 DEF vars
<1> QED BY <1>1, <1>2, <1>3, <1>4 DEF Next

\* While nobody took over, each step keeps the levels in step with the ceiling,
\* with the panel and with each other; once somebody did, nothing is claimed.
LEMMA LevelsFollow ==
  ASSUME IInv, [Next]_vars
  PROVE  (WithinCeiling /\ InSync /\ FloorWhenStale /\ MidTick)'
<1> USE CutCeilingBounds, GoalBounds
    DEF IInv, TypeOK, TypeFlags, TypeLevels, TypePcs, Level, BL_FLOOR, BL_TARGET, BL_STEP,
        WithinCeiling, InSync, FloorWhenStale, Places, MidTick
<1>1. CASE Environment
  <2>1. CASE Recover BY <2>1 DEF Recover
  <2>2. CASE Brownout BY <2>2 DEF Brownout
  <2>3. CASE Unplug BY <2>3 DEF Unplug
  <2>4. CASE Frame BY <2>4 DEF Frame
  <2>5. CASE FingerMoves BY <2>5 DEF FingerMoves
  <2> QED BY <1>1, <2>1, <2>2, <2>3, <2>4, <2>5 DEF Environment
<1>2. CASE Tick
  <2>1. CASE AutoStart BY <2>1 DEF AutoStart
  <2>2. CASE Write BY <2>2 DEF Write
  <2>3. CASE TickManual BY <2>3 DEF TickManual, Second
  <2>4. CASE TickFire BY <2>4 DEF TickFire, Second
  <2>5. CASE Blank BY <2>5 DEF Blank
  <2>6. CASE Blanked BY <2>6 DEF Blanked
  <2>7. CASE StayBlank BY <2>7 DEF StayBlank
  <2>8. CASE Wake BY <2>8 DEF Wake
  <2>9. CASE StreamLost BY <2>9 DEF StreamLost, Apply
  <2>10. CASE NotLatched BY <2>10 DEF NotLatched, Apply
  <2>11. CASE Hold BY <2>11 DEF Hold
  <2>12. CASE Climb BY <2>12 DEF Climb, Apply, ClimbDue
  <2> QED BY <1>2, <2>1, <2>2, <2>3, <2>4, <2>5, <2>6, <2>7, <2>8, <2>9, <2>10, <2>11, <2>12 DEF Tick
<1>3. CASE Console
  <2>1. CASE Manual BY <2>1 DEF Manual
  <2>2. CASE ManualApply BY <2>2 DEF ManualApply
  <2>3. CASE ManualWrite BY <2>3 DEF ManualWrite
  <2> QED BY <1>3, <2>1, <2>2, <2>3 DEF Console
<1>4. CASE UNCHANGED vars BY <1>4 DEF vars
<1> QED BY <1>1, <1>2, <1>3, <1>4 DEF Next

\* The inductive invariant holds of every behaviour.
THEOREM Inductive == Spec => []IInv
<1>1. Init => IInv BY InitIInv
<1>2. IInv /\ [Next]_vars => IInv'
  BY TypePreserved, PlacesPreserved, LevelsFollow DEF IInv, TypeOK
<1> QED BY <1>1, <1>2, PTL DEF Spec

\* The controller never shows or restores a level above what it has learned.
THEOREM StaysWithinCeiling == Spec => []WithinCeiling
<1>1. IInv => WithinCeiling BY DEF IInv
<1> QED BY <1>1, Inductive, PTL

\* A stale stream finds the panel at the floor or dark after every tick.
THEOREM HoldsTheFloor == Spec => []FloorWhenStale
<1>1. IInv => FloorWhenStale BY DEF IInv
<1> QED BY <1>1, Inductive, PTL

\* Between ticks s_cur is what the panel shows.
THEOREM CurIsShown == Spec => []InSync
<1>1. IInv => InSync BY DEF IInv
<1> QED BY <1>1, Inductive, PTL

-----------------------------------------------------------------------------
(* Backlight: what is learned from a brownout *)

\* The ticks that can still find the stream fresh when no frame comes any more,
\* the one in progress included, and the climbs that fall into so many ticks.
LeftOf(stale, fresh, at) ==
  (IF stale < FRESH THEN FRESH - stale ELSE 0)
    + (IF fresh /\ at \in {"judge", "wake", "write_on"} THEN 1 ELSE 0)
CountedOf(seconds, ticks) ==
  IF seconds + ticks < HealthyCap THEN seconds + ticks ELSE HealthyCap
ClimbsOf(seconds, ticks) == CountedOf(seconds, ticks) \div 3 - seconds \div 3

Left == LeftOf(age, alive, pc)
Climbs == ClimbsOf(s_healthy, Left)

\* The level that is shown, about to be shown, or restored after the nap.
Shown == IF s_asleep THEN s_presleep ELSE s_cur

\* How far s_cur can be ahead of the panel when the receiver goes down.
AheadOfPanel ==
  ~s_manual =>
    /\ pc \in {"start", "write_on"} => display = 0
    /\ pc = "write" =>
         \/ s_cur <= display \/ s_cur <= BL_FLOOR
         \/ s_cur <= display + BL_STEP /\ s_healthy % 3 = 0

\* Two climbs at most separate the level of a brownout from the level shown when
\* the tick sees it.
NearDrop ==
  ~s_manual /\ dropAt # None =>
    ~up /\ dropAt > BL_FLOOR /\ Shown + BL_STEP * Climbs <= dropAt + 2 * BL_STEP

DropInv == IInv /\ AheadOfPanel /\ NearDrop

\* At most four ticks are left, three outside the judging part of one.
LEMMA FewLeft ==
  ASSUME NEW stale \in 0..4, NEW fresh, NEW at
  PROVE  /\ LeftOf(stale, fresh, at) \in 0..4
         /\ at \notin {"judge", "wake", "write_on"} => LeftOf(stale, fresh, at) <= 3
  BY DEF LeftOf, FRESH

\* At most one of three ticks climbs.
LEMMA FewClimbs ==
  ASSUME NEW seconds \in 0..HealthyCap, NEW ticks \in 0..4
  PROVE  ClimbsOf(seconds, ticks) \in 0..2 /\ (ticks <= 3 => ClimbsOf(seconds, ticks) <= 1)
  BY CountersAssumption DEF ClimbsOf, CountedOf

\* Losing a tick brings no climb.
LEMMA FewerClimbs ==
  ASSUME NEW seconds \in 0..HealthyCap, NEW ticks \in 0..4, NEW fewer \in 0..ticks
  PROVE  ClimbsOf(seconds, fewer) <= ClimbsOf(seconds, ticks)
  BY CountersAssumption DEF ClimbsOf, CountedOf

\* A tick that counts a healthy second uses up one that is left, and a climb
\* with it when one is due.
LEMMA ClimbsUsed ==
  ASSUME TypeLevels, NEW ticks \in 1..4
  PROVE  /\ ClimbsOf(Healthier, ticks - 1) <= ClimbsOf(s_healthy, ticks)
         /\ ClimbDue => ClimbsOf(Healthier, ticks - 1) = ClimbsOf(s_healthy, ticks) - 1
<1>1. s_healthy \in 0..HealthyCap /\ HealthyCap \in Nat
  BY CountersAssumption DEF TypeLevels
<1>2. CountedOf(Healthier, ticks - 1) = CountedOf(s_healthy, ticks)
  BY <1>1 DEF CountedOf, Healthier
<1>3. CountedOf(s_healthy, ticks) \in Nat BY <1>1 DEF CountedOf
<1>4. Healthier \div 3 >= s_healthy \div 3 BY <1>1 DEF Healthier
<1>5. ASSUME ClimbDue PROVE Healthier \div 3 = s_healthy \div 3 + 1
  <2>1. Healthier % 3 = 0 BY <1>5 DEF ClimbDue, BL_CLIMB_EVERY
  <2>2. Healthier = s_healthy + 1 BY <1>1, <2>1, CapAssumption DEF Healthier, BL_CLIMB_EVERY
  <2> QED BY <1>1, <2>1, <2>2
<1>6. Healthier \in Nat BY <1>1 DEF Healthier
<1> QED BY <1>1, <1>2, <1>3, <1>4, <1>5, <1>6 DEF ClimbsOf

\* The panel lags behind s_cur by one climb at most.
LEMMA AheadPreserved ==
  ASSUME IInv, AheadOfPanel, [Next]_vars
  PROVE  AheadOfPanel'
<1> USE GoalBounds, CountersAssumption, CapAssumption
    DEF IInv, TypeOK, TypeFlags, TypeLevels, TypePcs, Level, BL_FLOOR, BL_TARGET, BL_STEP,
        BL_CLIMB_EVERY, InSync, Places, MidTick, AheadOfPanel
<1>1. CASE Environment
  <2>1. CASE Recover BY <2>1 DEF Recover
  <2>2. CASE Brownout BY <2>2 DEF Brownout
  <2>3. CASE Unplug BY <2>3 DEF Unplug
  <2>4. CASE Frame BY <2>4 DEF Frame
  <2>5. CASE FingerMoves BY <2>5 DEF FingerMoves
  <2> QED BY <1>1, <2>1, <2>2, <2>3, <2>4, <2>5 DEF Environment
<1>2. CASE Tick
  <2>1. CASE AutoStart BY <2>1 DEF AutoStart
  <2>2. CASE Write BY <2>2 DEF Write
  <2>3. CASE TickManual BY <2>3 DEF TickManual, Second
  <2>4. CASE TickFire BY <2>4 DEF TickFire, Second
  <2>5. CASE Blank BY <2>5 DEF Blank
  <2>6. CASE Blanked BY <2>6 DEF Blanked
  <2>7. CASE StayBlank BY <2>7 DEF StayBlank
  <2>8. CASE Wake BY <2>8 DEF Wake
  <2>9. CASE StreamLost BY <2>9 DEF StreamLost, Apply
  <2>10. CASE NotLatched BY <2>10 DEF NotLatched, Apply
  <2>11. CASE Hold BY <2>11 DEF Hold
  <2>12. CASE Climb BY <2>12 DEF Climb, Apply, ClimbDue, Healthier
  <2> QED BY <1>2, <2>1, <2>2, <2>3, <2>4, <2>5, <2>6, <2>7, <2>8, <2>9, <2>10, <2>11, <2>12 DEF Tick
<1>3. CASE Console
  <2>1. CASE Manual BY <2>1 DEF Manual
  <2>2. CASE ManualApply BY <2>2 DEF ManualApply
  <2>3. CASE ManualWrite BY <2>3 DEF ManualWrite
  <2> QED BY <1>3, <2>1, <2>2, <2>3 DEF Console
<1>4. CASE UNCHANGED vars BY <1>4 DEF vars
<1> QED BY <1>1, <1>2, <1>3, <1>4 DEF Next

\* A brownout strikes at the level the panel shows, at most one climb below
\* s_cur; from then on each climb uses up a tick that is left.
LEMMA NearDropPreserved ==
  ASSUME DropInv, [Next]_vars
  PROVE  NearDrop'
<1> USE DEF None, BL_FLOOR, BL_STEP, Left, Climbs, Shown
<1>1. TypeOK /\ TypeOK' BY TypePreserved DEF DropInv, IInv
<1>2. /\ s_cur \in Int /\ s_cur' \in Int /\ s_presleep \in Int /\ s_presleep' \in Int
      /\ dropAt \in Int /\ dropAt' \in Int /\ display \in Int
      /\ s_healthy \in 0..HealthyCap /\ s_healthy' \in 0..HealthyCap
      /\ age \in 0..4 /\ age' \in 0..4
  BY <1>1 DEF TypeOK, TypeLevels, TypeWorld, Level, FRESH
<1>3. /\ Left \in 0..4 /\ Left' \in 0..4
      /\ pc \notin {"judge", "wake", "write_on"} => Left <= 3
  BY <1>2, FewLeft
<1>4. Climbs \in 0..2 /\ Climbs' \in 0..2 /\ (Left <= 3 => Climbs <= 1)
  BY <1>2, <1>3, FewClimbs
<1>5. ASSUME UNCHANGED <<s_healthy, up, dropAt, s_manual>>,
             ~s_manual => Shown' = Shown /\ Left' <= Left
      PROVE  NearDrop'
  <2> SUFFICES ASSUME ~s_manual, dropAt # None
               PROVE  ~up' /\ dropAt' > BL_FLOOR
                      /\ Shown' + BL_STEP * Climbs' <= dropAt' + 2 * BL_STEP
    BY <1>5 DEF NearDrop
  <2>1. Climbs' <= Climbs BY <1>2, <1>3, <1>5, FewerClimbs
  <2> QED BY <1>2, <1>4, <1>5, <2>1 DEF DropInv, NearDrop
<1>6. ASSUME UNCHANGED <<up, dropAt, s_manual>>, ~s_manual => Shown' = BL_FLOOR
      PROVE  NearDrop'
  BY <1>2, <1>4, <1>6 DEF DropInv, NearDrop
<1>7. CASE Environment
  <2>1. CASE Recover BY <2>1 DEF Recover, NearDrop
  <2>2. CASE Brownout
    <3> SUFFICES ASSUME ~s_manual
                 PROVE  ~up' /\ dropAt' > BL_FLOOR
                        /\ Shown' + BL_STEP * Climbs' <= dropAt' + 2 * BL_STEP
      BY <2>2 DEF Brownout, NearDrop
    <3>1. display > BL_FLOOR /\ dropAt' = display /\ ~up'
      BY <1>1, <1>2, <2>2, SupplyAssumption
      DEF Brownout, TypeOK, TypeWorld, BL_FLOOR
    <3>2. Shown' = Shown /\ Climbs' = Climbs BY <2>2 DEF Brownout
    <3>3. pc \notin {"start", "write_on", "blanked", "wake"} /\ ~s_asleep
      <4>1. display # 0 BY <1>2, <3>1
      <4>2. pc \notin {"start", "write_on", "blanked", "wake"}
        BY <4>1 DEF DropInv, IInv, AheadOfPanel, MidTick, Places
      <4>3. CASE pc \in {"idle", "blank"} BY <4>1, <4>3 DEF DropInv, IInv, InSync, MidTick
      <4>4. CASE pc \in {"write", "judge"} BY <4>4 DEF DropInv, IInv, Places
      <4> QED BY <1>1, <4>2, <4>3, <4>4 DEF TypeOK, TypePcs
    <3>4. CASE pc = "write"
      <4>1. Climbs <= 1 BY <1>3, <1>4, <3>4
      <4>2. s_cur <= display \/ s_cur <= BL_FLOOR \/ s_cur <= display + BL_STEP
        BY <3>4 DEF DropInv, AheadOfPanel
      <4> QED BY <1>2, <1>4, <3>1, <3>2, <3>3, <4>1, <4>2 
    <3>5. CASE pc \in {"idle", "judge", "blank"}
      <4>1. s_cur = display BY <3>5 DEF DropInv, IInv, InSync
      <4> QED BY <1>2, <1>4, <3>1, <3>2, <3>3, <4>1 
    <3> QED BY <1>1, <3>3, <3>4, <3>5 DEF TypeOK, TypePcs
  <2>3. CASE Unplug BY <2>3 DEF Unplug, DropInv, NearDrop
  <2>4. CASE Frame BY <2>4 DEF Frame, DropInv, NearDrop
  <2>5. CASE FingerMoves
    <3>1. Left' = Left /\ Shown' = Shown BY <2>5 DEF FingerMoves, LeftOf
    <3> QED BY <1>3, <1>5, <2>5, <3>1 DEF FingerMoves
  <2> QED BY <1>7, <2>1, <2>2, <2>3, <2>4, <2>5 DEF Environment
<1>8. CASE Tick
  <2>1. CASE AutoStart
    <3>1. ~s_asleep BY <2>1 DEF AutoStart, DropInv, IInv, Places
    <3> QED BY <1>6, <2>1, <3>1 DEF AutoStart
  <2>2. CASE Write
    <3>1. Left' = Left /\ Shown' = Shown BY <2>2 DEF Write, LeftOf
    <3> QED BY <1>3, <1>5, <2>2, <3>1 DEF Write
  <2>3. CASE TickManual BY <2>3 DEF TickManual, NearDrop
  <2>4. CASE TickFire
    <3>1. age' = Aged /\ (alive' => Aged <= FRESH) /\ pc = "idle"
      BY <2>4 DEF TickFire, Second
    <3>2. Left' <= Left BY <1>2, <3>1 DEF LeftOf, Aged, FRESH
    <3> QED BY <1>5, <2>4, <3>2 DEF TickFire, Second
  <2>5. CASE Blank
    <3>1. ~s_manual => s_cur > 0 BY <2>5 DEF Blank, DropInv, IInv, MidTick
    <3>2. ~s_manual => Shown' = Shown BY <2>5, <3>1 DEF Blank
    <3>3. Left' <= Left BY <1>2, <2>5 DEF Blank, LeftOf, FRESH
    <3> QED BY <1>5, <2>5, <3>2, <3>3 DEF Blank
  <2>6. CASE Blanked
    <3>1. s_asleep BY <2>6 DEF Blanked, DropInv, IInv, Places
    <3>2. Shown' = Shown BY <2>6, <3>1 DEF Blanked
    <3>3. Left' <= Left BY <1>2, <2>6 DEF Blanked, LeftOf, FRESH
    <3> QED BY <1>5, <2>6, <3>2, <3>3 DEF Blanked
  <2>7. CASE StayBlank
    <3>1. Shown' = Shown BY <2>7 DEF StayBlank
    <3>2. Left' <= Left BY <1>2, <2>7 DEF StayBlank, LeftOf, FRESH
    <3> QED BY <1>5, <2>7, <3>1, <3>2 DEF StayBlank
  <2>8. CASE Wake
    <3>1. s_asleep BY <2>8 DEF Wake, DropInv, IInv, Places
    <3>2. Shown' = Shown BY <2>8, <3>1 DEF Wake
    <3>3. Left' <= Left BY <1>2, <2>8 DEF Wake, LeftOf, FRESH
    <3> QED BY <1>5, <2>8, <3>2, <3>3 DEF Wake
  <2>9. CASE StreamLost
    <3>1. ~s_asleep BY <2>9 DEF StreamLost, DropInv, IInv, Places
    <3>2. s_cur' = BL_FLOOR BY <2>9 DEF StreamLost, Apply
    <3> QED BY <1>6, <2>9, <3>1, <3>2 DEF StreamLost
  <2>10. CASE NotLatched
    <3>1. ~s_asleep BY <2>10 DEF NotLatched, DropInv, IInv, Places
    <3>2. s_cur' = BL_FLOOR BY <2>10 DEF NotLatched, Apply
    <3> QED BY <1>6, <2>10, <3>1, <3>2 DEF NotLatched
  <2>11. CASE Hold
    <3>1. Left' = Left - 1 BY <1>2, <2>11 DEF Hold, LeftOf, FRESH
    <3>2. Climbs' <= Climbs
      <4>1. Left \in 1..4 BY <1>3, <3>1
      <4>2. s_healthy' = Healthier BY <2>11 DEF Hold
      <4> HIDE DEF Left
      <4> QED BY <1>1, <3>1, <4>1, <4>2, ClimbsUsed DEF TypeOK
    <3>3. Shown' = Shown BY <2>11 DEF Hold
    <3>4. UNCHANGED <<s_manual, dropAt, up>> BY <2>11 DEF Hold
    <3> QED BY <1>2, <1>4, <3>2, <3>3, <3>4 DEF DropInv, NearDrop
  <2>12. CASE Climb
    <3>1. pc' \in {"idle", "write"} BY <2>12 DEF Climb, Apply
    <3>2. Left' = Left - 1 BY <1>2, <2>12, <3>1 DEF Climb, LeftOf, FRESH
    <3>3. Climbs' = Climbs - 1
      <4>1. Left \in 1..4 BY <1>3, <3>2
      <4>2. s_healthy' = Healthier /\ ClimbDue BY <2>12 DEF Climb
      <4> HIDE DEF Left
      <4> QED BY <1>1, <3>2, <4>1, <4>2, ClimbsUsed DEF TypeOK
    <3>4. ~s_asleep BY <2>12 DEF Climb, DropInv, IInv, Places
    <3>5. Goal \in Int
      BY <1>1, GoalBounds DEF TypeOK, TypeLevels, BL_FLOOR, BL_TARGET
    <3>6. s_cur' <= s_cur + BL_STEP BY <1>2, <2>12, <3>5 DEF Climb, Apply, BL_STEP
    <3>7. Shown' <= Shown + BL_STEP BY <2>12, <3>4, <3>6 DEF Climb
    <3>8. UNCHANGED <<s_manual, dropAt, up>> BY <2>12 DEF Climb
    <3> QED BY <1>2, <1>4, <3>3, <3>7, <3>8 DEF DropInv, NearDrop
  <2> QED BY <1>8, <2>1, <2>2, <2>3, <2>4, <2>5, <2>6, <2>7, <2>8, <2>9, <2>10, <2>11, <2>12 DEF Tick
<1>9. CASE Console
  <2>1. CASE Manual BY <2>1 DEF Manual, NearDrop
  <2>2. CASE ManualApply
    <3>1. s_manual BY <2>2 DEF ManualApply, DropInv, IInv, Places
    <3> QED BY <2>2, <3>1 DEF ManualApply, NearDrop
  <2>3. CASE ManualWrite
    <3>1. s_manual BY <2>3 DEF ManualWrite, DropInv, IInv, Places
    <3> QED BY <2>3, <3>1 DEF ManualWrite, NearDrop
  <2> QED BY <1>9, <2>1, <2>2, <2>3 DEF Console
<1>10. CASE UNCHANGED vars
  <2>1. Left' = Left /\ Shown' = Shown BY <1>10 DEF vars, LeftOf
  <2> QED BY <1>3, <1>5, <1>10, <2>1 DEF vars
<1> QED BY <1>7, <1>8, <1>9, <1>10 DEF Next

\* Nothing has been dropped when the box boots.
LEMMA InitDrop == Init => DropInv
<1> SUFFICES ASSUME Init PROVE DropInv OBVIOUS
<1>1. AheadOfPanel BY DEF Init, AheadOfPanel
<1>2. NearDrop BY DEF Init, NearDrop
<1> QED BY <1>1, <1>2, InitIInv DEF DropInv

\* The tick that sees the loss of a receiver cuts the ceiling by more than the
\* climbs made since the brownout.
LEMMA CutIsEnough ==
  ASSUME DropInv, StreamLost, ~s_manual, dropAt # None
  PROVE  s_ceiling' < dropAt
<1>1. TypeOK BY DEF DropInv, IInv
<1>2. s_cur \in Int /\ s_ceiling \in Int /\ dropAt \in Int
  BY <1>1 DEF TypeOK, TypeLevels, TypeWorld, Level, None, BL_FLOOR
<1>3. Climbs \in 0..2
  BY <1>1, FewLeft, FewClimbs DEF TypeOK, TypeLevels, TypeWorld, FRESH, Left, Climbs
<1>4. ~s_asleep BY DEF StreamLost, DropInv, IInv, Places
<1>5. s_cur <= dropAt + 2 * BL_STEP /\ dropAt > BL_FLOOR
  BY <1>2, <1>3, <1>4 DEF DropInv, NearDrop, Shown, None, BL_STEP, BL_FLOOR
<1>6. CutCeiling < dropAt /\ CutCeiling \in Int
  BY <1>2, <1>5 DEF CutCeiling, BL_STEP, BL_FLOOR
<1> QED BY <1>2, <1>6 DEF StreamLost

\* A brownout that ends a stream is remembered: the ceiling learned from it lies
\* below the level at which it struck.
THEOREM LearnsBelow == Spec => LearnsFromFailure
<1>1. Init => DropInv BY InitDrop
<1>2. DropInv /\ [Next]_vars => DropInv'
  <2> SUFFICES ASSUME DropInv, [Next]_vars PROVE DropInv' OBVIOUS
  <2>1. IInv' BY TypePreserved, PlacesPreserved, LevelsFollow DEF DropInv, IInv, TypeOK
  <2>2. AheadOfPanel' BY AheadPreserved DEF DropInv
  <2>3. NearDrop' BY NearDropPreserved
  <2> QED BY <2>1, <2>2, <2>3 DEF DropInv
<1>3. DropInv /\ [Next]_vars => [StreamLost /\ ~s_manual /\ dropAt # None => s_ceiling' < dropAt]_vars
  BY CutIsEnough
<1> QED BY <1>1, <1>2, <1>3, PTL DEF Spec, LearnsFromFailure

-----------------------------------------------------------------------------
(* Touch: a stamp and its halves *)

USE DEF poll, timer

\* A stamp is given back by its two halves, the upper of which is no larger.
LEMMA HalvesOf ==
  ASSUME NEW t \in Nat
  PROVE  /\ Words(t) \in [Half -> Nat]
         /\ Words(t).lo < Word
         /\ Words(t).hi * Word + Words(t).lo = t
         /\ Words(t).hi <= t /\ Words(t).lo <= t
<1> DEFINE hi == t \div Word
           lo == t % Word
<1>1. Word \in Nat /\ Word >= 1 BY WindowAssumption
<1>2. hi \in Nat /\ lo \in 0..(Word - 1) /\ hi * Word + lo = t BY <1>1
<1> HIDE DEF hi, lo
<1>3. hi <= hi * Word BY <1>1, <1>2
<1>4. hi * Word \in Nat BY <1>1, <1>2
<1>5. hi <= t /\ lo <= t BY <1>1, <1>2, <1>3, <1>4
<1>6. Words(t) = [h \in Half |-> IF h = "hi" THEN hi ELSE lo] BY DEF Words, Half, hi, lo
<1>7. Words(t).hi = hi /\ Words(t).lo = lo BY DEF Words, hi, lo
<1> QED BY <1>1, <1>2, <1>5, <1>6, <1>7

\* Two stamps that a carry lies between differ in the upper half.
LEMMA CarriesApart ==
  ASSUME NEW c \in Carries, NEW d \in Carries, c < d
  PROVE  c + Word <= d
<1>1. Word \in Nat /\ Word >= 1 BY WindowAssumption
<1>2. PICK k \in 0..MaxTime : c = k * Word BY DEF Carries
<1>3. PICK l \in 0..MaxTime : d = l * Word BY DEF Carries
<1>4. MaxTime \in Nat BY WindowAssumption
<1>5. k \in Nat /\ l \in Nat BY <1>4
<1>6. k < l BY <1>1, <1>2, <1>3, <1>5
<1>7. (k + 1) * Word <= l * Word BY <1>1, <1>5, <1>6
<1> QED BY <1>1, <1>2, <1>3, <1>5, <1>7

\* A time put together from the upper half of one stamp and the lower half of
\* another, both of time a or later, lies before a only if there is a carry
\* between a and the stamp the lower half is of.
LEMMA TornIsCarry ==
  ASSUME NEW a \in Nat, NEW t \in a..MaxTime, NEW u \in a..MaxTime,
         Words(t).hi * Word + Words(u).lo < a
  PROVE  \E c \in Carries : a < c /\ c <= u /\ Word <= c
<1>1. Word \in Nat /\ Word >= 1 /\ MaxTime \in Nat BY WindowAssumption
<1>2. t \in Nat /\ u \in Nat BY <1>1
<1> DEFINE th == Words(t).hi
           tl == Words(t).lo
           uh == Words(u).hi
           ul == Words(u).lo
<1>3. /\ th \in Nat /\ tl \in Nat /\ tl < Word /\ th * Word + tl = t
      /\ uh \in Nat /\ ul \in Nat /\ ul < Word /\ uh * Word + ul = u /\ uh <= u
  BY <1>2, HalvesOf DEF Half
<1>4. th * Word + ul < a OBVIOUS
<1> HIDE DEF th, tl, uh, ul
<1>5. th * Word \in Nat /\ uh * Word \in Nat BY <1>1, <1>3
<1>6. th * Word < uh * Word BY <1>3, <1>4, <1>5
<1>7. th < uh BY <1>1, <1>3, <1>6
<1>8. (th + 1) * Word <= uh * Word BY <1>1, <1>3, <1>7
<1>9. (th + 1) * Word = th * Word + Word BY <1>1, <1>3
<1>10. a < uh * Word /\ uh * Word <= u /\ Word <= uh * Word
  BY <1>1, <1>3, <1>5, <1>8, <1>9
<1>11. uh * Word \in Carries BY <1>1, <1>2, <1>3 DEF Carries
<1> QED BY <1>10, <1>11

-----------------------------------------------------------------------------
(* Touch: the history *)

\* A number of a set that none exceeds is its maximum.
LEMMA MaxIs ==
  ASSUME NEW S \in SUBSET Int, NEW m \in S, \A y \in S : m >= y
  PROVE  Max(S) = m
<1> DEFINE M == Max(S)
<1>1. M \in S /\ \A y \in S : M >= y BY DEF Max
<1> HIDE DEF M
<1>2. M \in Int /\ m \in Int /\ M >= m /\ m >= M BY <1>1
<1>3. M = m BY <1>2
<1> QED BY <1>3 DEF M

\* The bits under the mask are as many as the valid samples in the window.
LEMMA BitsCount ==
  ASSUME NEW n \in Nat, NEW T, \A t \in T : t \in Int /\ t <= n,
         NEW H, H = {i \in Bits : n - i \in T}
  PROVE  Cardinality(H \cap 0..(TOUCH_WIN - 1)) =
           Cardinality({t \in T : n - TOUCH_WIN < t /\ t <= n})
<1> DEFINE B == H \cap 0..(TOUCH_WIN - 1)
           W == {t \in T : n - TOUCH_WIN < t /\ t <= n}
           f == [i \in B |-> n - i]
<1>1. HistBits \in Nat /\ TOUCH_WIN \in Nat /\ TOUCH_WIN >= 1 /\ TOUCH_WIN <= HistBits
  BY WindowAssumption
<1>2. B = {i \in 0..(TOUCH_WIN - 1) : n - i \in T} BY <1>1 DEF Bits
<1>3. f \in [B -> W] BY <1>1, <1>2
<1>4. \A i, j \in B : f[i] = f[j] => i = j BY <1>1, <1>2
<1>5. \A t \in W : n - t \in B /\ f[n - t] = t
  <2> TAKE t \in W
  <2>1. t \in T /\ t \in Int /\ t <= n /\ n - TOUCH_WIN < t OBVIOUS
  <2>2. n - t \in 0..(TOUCH_WIN - 1) /\ n - (n - t) = t BY <2>1, <1>1
  <2>3. n - t \in B BY <2>1, <2>2, <1>2
  <2> QED BY <2>2, <2>3
<1> HIDE DEF B, W, f
<1>6. f \in Bijection(B, W)
  <2>1. f \in Injection(B, W) BY <1>3, <1>4 DEF Injection, IsInjective
  <2>2. f \in Surjection(B, W) BY <1>3, <1>5 DEF Surjection
  <2> QED BY <2>1, <2>2 DEF Bijection
<1>7. ExistsBijection(B, W) BY <1>6 DEF ExistsBijection
<1>8. IsFiniteSet(B)
  <2>1. IsFiniteSet(0..(TOUCH_WIN - 1)) BY <1>1, FS_Interval
  <2>2. B \in SUBSET (0..(TOUCH_WIN - 1)) BY DEF B
  <2> QED BY <2>1, <2>2, FS_Subset
<1>9. Cardinality(W) = Cardinality(B) BY <1>7, <1>8, FS_Bijection
<1> QED BY <1>9 DEF B, W

\* A poll that saw a touch is the last one.
LEMMA TouchNow ==
  ASSUME now \in Nat, since \in Nat, since <= now, now = since \/ (now >= 1 /\ Touched(now))
  PROVE  LastTouch = now
<1> DEFINE S == {since} \cup Touches
<1>1. S \in SUBSET Int /\ now \in S /\ \A y \in S : now >= y BY DEF Touches
<1> HIDE DEF S
<1>2. Max(S) = now BY <1>1, MaxIs
<1> QED BY <1>2 DEF LastTouch, S

\* A later sample does not change what the polls before it saw.
LEMMA WindowKept ==
  ASSUME now \in Nat, taps \subseteq Int, now' = now + 1, taps' \in {taps, taps \cup {now'}},
         NEW p \in Int, p <= now
  PROVE  Window(p)' = Window(p) /\ (Touched(p)' <=> Touched(p))
<1>1. Window(p)' = Window(p) BY DEF Window
<1> QED BY <1>1 DEF Touched

\* A poll that saw no touch leaves the last one where it was.
LEMMA NoTouchNow ==
  ASSUME now \in Nat, taps \subseteq Int, now' = now + 1, taps' \in {taps, taps \cup {now'}},
         since' = since, ~Touched(now)'
  PROVE  LastTouch' = LastTouch
<1>1. ASSUME NEW p \in Int, p <= now PROVE Touched(p)' <=> Touched(p) BY <1>1, WindowKept
<1>2. now' \in Nat /\ \A p \in 1..now' : (p \in Int /\ p <= now /\ p \in 1..now) \/ p = now' OBVIOUS
<1>3. \A p \in 1..now : p \in Int /\ p <= now /\ p \in 1..now' OBVIOUS
<1>4. ASSUME NEW p, p = now' PROVE ~Touched(p)' BY <1>4 DEF Touched, Window
<1>5. Touches' = Touches BY <1>1, <1>2, <1>3, <1>4 DEF Touches
<1> QED BY <1>5 DEF LastTouch

-----------------------------------------------------------------------------
(* Touch: type correctness *)

\* Touch starts in a state of the right type.
LEMMA TouchInitType == TInit => TTypeOK
<1> SUFFICES ASSUME TInit PROVE TTypeOK OBVIOUS
<1>1. MaxTime \in Nat BY WindowAssumption
<1>2. Words(0) \in [Half -> Nat] /\ Words(0).hi <= 0 /\ Words(0).lo <= 0 BY HalvesOf
<1>3. Words(0) \in [Half -> 0..MaxTime] BY <1>1, <1>2 DEF Half
<1>4. 0 \in 0..MaxTime BY <1>1
<1>5. s_last \in [Half -> 0..MaxTime] /\ seen \in [Half -> 0..MaxTime] BY <1>3 DEF TInit
<1> QED BY <1>4, <1>5 DEF TInit, TTypeOK

\* A half of a stamp is no larger than the bound on the time.
LEMMA HalfBound ==
  ASSUME NEW t \in 0..MaxTime, NEW h \in Half
  PROVE  Words(t)[h] \in 0..MaxTime
<1>1. MaxTime \in Nat /\ t \in Nat BY WindowAssumption
<1>2. Words(t) \in [Half -> Nat] /\ Words(t).hi <= t /\ Words(t).lo <= t BY <1>1, HalvesOf
<1>3. Words(t)[h] \in Nat /\ Words(t)[h] <= t BY <1>2 DEF Half
<1> QED BY <1>1, <1>3

\* Every step of Touch keeps the types.
LEMMA TouchTypeKept ==
  ASSUME TTypeOK, [TNext]_tvars
  PROVE  TTypeOK'
<1> USE WindowAssumption DEF TTypeOK
<1>1. CASE Boots BY <1>1 DEF Boots
<1>2. CASE TouchInit
  <2>1. Words(now) \in [Half -> Nat] BY HalvesOf
  <2>2. \A h \in Half : Words(now)[h] \in 0..MaxTime BY HalfBound
  <2>3. s_last' \in [Half -> 0..MaxTime] BY <1>2, <2>1, <2>2 DEF TouchInit
  <2> QED BY <1>2, <2>3 DEF TouchInit
<1>3. CASE TouchAbsent BY <1>3 DEF TouchAbsent
<1>4. CASE Poll
  <2>1. now' \in 1..MaxTime BY <1>4 DEF Poll
  <2>2. hist' \subseteq Bits
    <3>1. 0 \in Bits BY DEF Bits
    <3>2. PICK valid \in BOOLEAN : hist' = Shifted(valid) BY <1>4 DEF Poll
    <3> QED BY <3>1, <3>2 DEF Shifted
  <2>3. taps' \subseteq 1..MaxTime BY <1>4, <2>1 DEF Poll
  <2>4. ppc' \in {"poll", "store"} \cup Half /\ stamp' \in 0..MaxTime BY <1>4, <2>1 DEF Poll
  <2> QED BY <1>4, <2>1, <2>2, <2>3, <2>4 DEF Poll
<1>5. ASSUME NEW h \in Half, NEW next, Store(h, next) PROVE s_last' \in [Half -> 0..MaxTime]
  BY <1>5, HalfBound DEF Store
<1>6. \A h \in Half : Other(h) \in Half BY DEF Half, Other
<1>7. CASE StoreFirst
  <2>1. PICK h \in Half : Store(h, Other(h)) /\ active' = active BY <1>7 DEF StoreFirst
  <2>2. s_last' \in [Half -> 0..MaxTime] BY <2>1, <1>5
  <2>3. ppc' \in Half BY <2>1, <1>6 DEF Store
  <2>4. UNCHANGED <<now, booted, s_present, since, taps, hist, stamp, timer>> BY <2>1 DEF Store
  <2> QED BY <2>1, <2>2, <2>3, <2>4
<1>8. CASE StoreSecond
  <2>1. PICK h \in Half : Store(h, "poll") /\ active' = stamp BY <1>8 DEF StoreSecond
  <2>2. s_last' \in [Half -> 0..MaxTime] BY <2>1, <1>5
  <2>3. ppc' = "poll" BY <2>1 DEF Store
  <2>4. UNCHANGED <<now, booted, s_present, since, taps, hist, stamp, timer>> BY <2>1 DEF Store
  <2> QED BY <2>1, <2>2, <2>3, <2>4
<1>9. CASE TickStart BY <1>9 DEF TickStart
<1>10. ASSUME NEW h \in Half, NEW next, Load(h, next) PROVE seen' \in [Half -> 0..MaxTime]
  BY <1>10 DEF Load
<1>11. CASE LoadFirst
  <2>1. PICK h \in Half : Load(h, Other(h)) BY <1>11 DEF LoadFirst
  <2>2. seen' \in [Half -> 0..MaxTime] /\ bpc' \in Half BY <2>1, <1>6, <1>10 DEF Load
  <2> QED BY <2>1, <2>2 DEF Load
<1>12. CASE LoadSecond
  <2>1. PICK h \in Half : Load(h, "judge") BY <1>12 DEF LoadSecond
  <2>2. seen' \in [Half -> 0..MaxTime] /\ bpc' = "judge" BY <2>1, <1>10 DEF Load
  <2> QED BY <2>1, <2>2 DEF Load
<1>13. CASE BlankOrWake BY <1>13 DEF BlankOrWake, Idle
<1>14. CASE UNCHANGED tvars BY <1>14 DEF tvars
<1> QED BY <1>1, <1>2, <1>3, <1>4, <1>7, <1>8, <1>9, <1>11, <1>12, <1>13, <1>14 DEF TNext

-----------------------------------------------------------------------------
(* Touch: what is stored *)

\* What has not begun stays so: no step but touch_init brings a controller.
LEMMA BootingKept ==
  ASSUME Booting, [TNext]_tvars
  PROVE  Booting'
<1> USE DEF Booting
<1>1. CASE Boots BY <1>1 DEF Boots
<1>2. CASE TouchInit BY <1>2 DEF TouchInit
<1>3. CASE TouchAbsent BY <1>3 DEF TouchAbsent
<1>4. CASE Poll BY <1>4 DEF Poll
<1>5. CASE StoreFirst BY <1>5 DEF StoreFirst, Store
<1>6. CASE StoreSecond BY <1>6 DEF StoreSecond, Store, Half
<1>7. CASE TickStart BY <1>7 DEF TickStart
<1>8. CASE LoadFirst BY <1>8 DEF LoadFirst, Load
<1>9. CASE LoadSecond BY <1>9 DEF LoadSecond, Load, Half
<1>10. CASE BlankOrWake BY <1>10 DEF BlankOrWake
<1>11. CASE UNCHANGED tvars BY <1>11 DEF tvars
<1> QED BY <1>1, <1>2, <1>3, <1>4, <1>5, <1>6, <1>7, <1>8, <1>9, <1>10, <1>11 DEF TNext

\* A sample moves every bit to the poll it is of, one cycle further ago.
LEMMA BitsArePollsKept ==
  ASSUME TTypeOK, Booting, BitsArePolls, since <= now, [TNext]_tvars
  PROVE  BitsArePolls'
<1> USE WindowAssumption DEF BitsArePolls
<1>1. now \in Nat /\ since \in Nat BY DEF TTypeOK
<1>2. CASE Boots
  <2>1. taps = {} /\ taps' = {} /\ hist' = {} BY <1>2 DEF Boots, Booting
  <2> QED BY <2>1
<1>3. CASE TouchInit
  <2>1. taps = {} /\ taps' = {} /\ hist' = {} BY <1>3 DEF TouchInit, Booting
  <2> QED BY <2>1
<1>4. CASE Poll
  <2>1. now' = now + 1 /\ since' = since BY <1>4 DEF Poll
  <2>2. PICK valid \in BOOLEAN : hist' = Shifted(valid) /\ taps' = IF valid THEN taps \cup {now'} ELSE taps
    BY <1>4 DEF Poll
  <2>3. HistBits \in Nat /\ HistBits >= 1 OBVIOUS
  <2>4. taps' \subseteq (since' + 1)..now' BY <1>1, <2>1, <2>2
  <2>5. now' \notin taps BY <1>1, <2>1
  <2>6. ASSUME NEW i \in Bits PROVE i \in hist' <=> now' - i \in taps'
    <3>1. CASE i = 0
      <4>1. \A j \in hist : j + 1 # 0 BY DEF Bits
      <4>2. i \in hist' <=> valid BY <2>2, <3>1, <4>1 DEF Shifted
      <4>3. now' - i = now' BY <1>1, <2>1, <3>1
      <4> QED BY <2>2, <2>5, <4>2, <4>3
    <3>2. CASE i # 0
      <4> DEFINE j == i - 1
      <4>1. j \in Bits /\ i = j + 1 /\ now' - i = now - j /\ now' - i # now'
        BY <1>1, <2>1, <2>3, <3>2 DEF Bits
      <4>2. \A k \in hist : k \in Int /\ j \in Int /\ (k + 1 = j + 1 => k = j) BY DEF Bits
      <4> HIDE DEF j
      <4>3. i \in hist' <=> j \in hist BY <2>2, <3>2, <4>1, <4>2 DEF Shifted
      <4>4. now' - i \in taps' <=> now - j \in taps BY <2>2, <4>1
      <4> QED BY <4>1, <4>3, <4>4
    <3> QED BY <3>1, <3>2
  <2>7. hist' \subseteq Bits
    <3>1. 0 \in Bits BY <2>3 DEF Bits
    <3> QED BY <2>2, <3>1 DEF Shifted
  <2>8. hist' = {i \in Bits : now' - i \in taps'} BY <2>6, <2>7
  <2> QED BY <2>4, <2>8
<1>5. CASE UNCHANGED <<now, since, taps, hist>> BY <1>5
<1>6. CASE TouchAbsent BY <1>6, <1>5 DEF TouchAbsent
<1>7. CASE StoreFirst \/ StoreSecond BY <1>7, <1>5 DEF StoreFirst, StoreSecond, Store
<1>8. CASE TickStart \/ LoadFirst \/ LoadSecond \/ BlankOrWake
  BY <1>8, <1>5 DEF TickStart, LoadFirst, LoadSecond, Load, BlankOrWake
<1>9. CASE UNCHANGED tvars BY <1>9, <1>5 DEF tvars
<1> QED BY <1>2, <1>3, <1>4, <1>6, <1>7, <1>8, <1>9 DEF TNext

\* The last touch depends on the time, the samples and the boot alone.
LEMMA LastTouchKept ==
  ASSUME UNCHANGED <<now, since, taps>>
  PROVE  LastTouch' = LastTouch /\ (Touched(now)' <=> Touched(now))
  BY DEF LastTouch, Touches, Touched, Window

\* The halves of the stamp stay halves of what is, or is being, stored.
LEMMA HalvesKept ==
  ASSUME StampIsTouch, UNCHANGED <<s_last, ppc, stamp, active>>
  PROVE  \A h \in Half : s_last'[h] = Words(IF ppc' = Other(h) THEN stamp' ELSE active')[h]
  BY DEF StampIsTouch

\* poll_task stamps touches, and only touches, whatever it has seen before.
LEMMA StampIsTouchKept ==
  ASSUME TTypeOK, Booting, BitsArePolls, StampIsTouch, [TNext]_tvars
  PROVE  StampIsTouch'
<1>1. now \in Nat /\ since \in Nat /\ active \in Nat /\ taps \subseteq Int
  BY WindowAssumption DEF TTypeOK
<1>2. since <= active /\ active <= now BY DEF StampIsTouch
<1>3. \A h \in Half : Other(h) \in Half /\ Other(h) # h /\ Other(Other(h)) = h BY DEF Half, Other
<1>4. CASE Boots
  <2>1. since' <= active' /\ active' <= now' BY <1>1, <1>2, <1>4 DEF Boots
  <2>2. ~s_present' /\ ppc' = "poll"
    BY <1>4 DEF Boots, Booting
  <2>3. UNCHANGED <<s_last, ppc, stamp, active>> BY <1>4 DEF Boots
  <2> QED BY <2>1, <2>2, <2>3, HalvesKept DEF StampIsTouch
<1>5. CASE TouchInit
  <2>1. now' = now /\ since' = now /\ active' = now /\ s_last' = Words(now) /\ UNCHANGED <<ppc, taps>>
    BY <1>5 DEF TouchInit
  <2>2. ppc' = "poll" BY <2>1, <1>5 DEF TouchInit, Booting
  <2>3. LastTouch' = now
    <3> DEFINE S == {since'} \cup Touches'
    <3>1. S \in SUBSET Int /\ now \in S /\ \A y \in S : now >= y BY <1>1, <2>1 DEF Touches
    <3> HIDE DEF S
    <3>2. Max(S) = now BY <3>1, MaxIs
    <3> QED BY <3>2 DEF LastTouch, S
  <2>4. \A h \in Half : s_last'[h] = Words(IF ppc' = Other(h) THEN stamp' ELSE active')[h]
    BY <2>1, <2>2 DEF Half, Other
  <2> QED BY <1>1, <2>1, <2>2, <2>3, <2>4 DEF StampIsTouch
<1>6. CASE Poll
  <2>1. s_present /\ ppc = "poll" /\ now' = now + 1 /\ UNCHANGED <<s_present, since, active, s_last>>
    BY <1>6 DEF Poll
  <2>2. taps' \in {taps, taps \cup {now'}} BY <1>6 DEF Poll
  <2>3. BitsArePolls' BY <1>2, <1>1, BitsArePollsKept
  <2>4. now' \in Nat /\ since' \in Nat /\ since' <= active' /\ active' <= now' /\ since' <= now' /\ now' >= 1
    BY <1>1, <1>2, <2>1
  <2>5. Recent(hist') = Cardinality(Window(now))'
    <3>1. \A u \in taps' : u \in Int /\ u <= now'
      <4>1. taps' \subseteq (since' + 1)..now' BY <2>3 DEF BitsArePolls
      <4>2. \A u \in (since' + 1)..now' : u \in Int /\ u <= now' BY <2>4
      <4> QED BY <4>1, <4>2
    <3>2. hist' = {i \in Bits : now' - i \in taps'} BY <2>3 DEF BitsArePolls
    <3> HIDE DEF BitsArePolls
    <3>3. Cardinality(hist' \cap 0..(TOUCH_WIN - 1)) =
            Cardinality({u \in taps' : now' - TOUCH_WIN < u /\ u <= now'})
      BY <2>4, <3>1, <3>2, BitsCount
    <3> QED BY <3>3 DEF Recent, Window
  <2>6. \A h \in Half : s_last'[h] = Words(active')[h] BY <2>1 DEF StampIsTouch, Half, Other
  <2>7. CASE Touched(now)'
    <3>1. ppc' = "store" /\ stamp' = now' BY <1>6, <2>5, <2>7 DEF Poll, Touched
    <3>2. \A h \in Half : ppc' # Other(h) BY <3>1 DEF Half, Other
    <3> QED BY <2>1, <2>4, <2>6, <2>7, <3>1, <3>2 DEF StampIsTouch
  <2>8. CASE ~Touched(now)'
    <3>1. ppc' = "poll" BY <1>6, <2>1, <2>5, <2>8 DEF Poll, Touched
    <3>2. LastTouch' = LastTouch BY <1>1, <2>1, <2>2, <2>8, NoTouchNow
    <3>3. active' = LastTouch' BY <2>1, <3>2 DEF StampIsTouch
    <3>4. \A h \in Half : ppc' # Other(h) BY <3>1 DEF Half, Other
    <3> QED BY <2>4, <2>6, <3>1, <3>3, <3>4 DEF StampIsTouch
  <2> QED BY <2>7, <2>8
<1>7. ASSUME NEW h \in Half, NEW next, Store(h, next), ppc # "poll"
      PROVE  /\ UNCHANGED <<now, since, taps, s_present, stamp>>
             /\ s_last'[h] = Words(stamp)[h] /\ s_last'[Other(h)] = s_last[Other(h)]
             /\ stamp = now /\ Touched(now) /\ ppc' = next
  BY <1>3, <1>7 DEF Store, StampIsTouch, TTypeOK
<1>8. CASE StoreFirst
  <2>1. PICK h \in Half : Store(h, Other(h)) /\ active' = active /\ ppc = "store"
    BY <1>8 DEF StoreFirst
  <2>2. /\ UNCHANGED <<now, since, taps, s_present, stamp>>
        /\ s_last'[h] = Words(stamp)[h] /\ s_last'[Other(h)] = s_last[Other(h)]
        /\ stamp = now /\ Touched(now) /\ ppc' = Other(h)
    BY <2>1, <1>7
  <2>3. s_last[Other(h)] = Words(active)[Other(h)] BY <2>1, <1>3 DEF StampIsTouch, Half, Other
  <2>4. \A i \in Half : i = h \/ i = Other(h) BY DEF Half, Other
  <2>5. \A i \in Half : s_last'[i] = Words(IF ppc' = Other(i) THEN stamp' ELSE active')[i]
    BY <1>3, <2>1, <2>2, <2>3, <2>4
  <2>6. Touched(now)' /\ stamp' = now' BY <2>2, LastTouchKept
  <2>7. ppc' # "poll" BY <2>2 DEF Other
  <2> QED BY <1>2, <2>1, <2>2, <2>5, <2>6, <2>7 DEF StampIsTouch
<1>9. CASE StoreSecond
  <2>1. ppc \in Half /\ active' = stamp /\ Store(ppc, "poll") BY <1>9 DEF StoreSecond
  <2>2. /\ UNCHANGED <<now, since, taps, s_present, stamp>>
        /\ s_last'[ppc] = Words(stamp)[ppc] /\ s_last'[Other(ppc)] = s_last[Other(ppc)]
        /\ stamp = now /\ Touched(now) /\ ppc' = "poll"
    BY <2>1, <1>7 DEF Half
  <2>3. s_last[Other(ppc)] = Words(stamp)[Other(ppc)] BY <2>1, <1>3 DEF StampIsTouch
  <2>4. \A i \in Half : i = ppc \/ i = Other(ppc) BY <2>1 DEF Half, Other
  <2>5. \A i \in Half : s_last'[i] = Words(active')[i] BY <2>1, <2>2, <2>3, <2>4
  <2>6. \A i \in Half : ppc' # Other(i) BY <2>2 DEF Half, Other
  <2>7. now >= 1 \/ now = since BY <1>1, <1>2
  <2>8. LastTouch = now BY <1>1, <1>2, <2>2, <2>7, TouchNow
  <2>9. active' = LastTouch' BY <2>1, <2>2, <2>8, LastTouchKept
  <2> QED BY <1>1, <1>2, <2>1, <2>2, <2>5, <2>6, <2>9 DEF StampIsTouch
<1>10. CASE UNCHANGED <<now, since, taps, s_present, s_last, ppc, stamp, active>>
  <2>1. LastTouch' = LastTouch /\ (Touched(now)' <=> Touched(now)) BY <1>10, LastTouchKept
  <2> QED BY <1>10, <2>1 DEF StampIsTouch
<1>11. CASE TouchAbsent BY <1>11, <1>10 DEF TouchAbsent
<1>12. CASE TickStart \/ LoadFirst \/ LoadSecond \/ BlankOrWake
  BY <1>12, <1>10 DEF TickStart, LoadFirst, LoadSecond, Load, BlankOrWake
<1>13. CASE UNCHANGED tvars BY <1>13, <1>10 DEF tvars
<1> QED BY <1>4, <1>5, <1>6, <1>8, <1>9, <1>11, <1>12, <1>13 DEF TNext

-----------------------------------------------------------------------------
(* Touch: the two halves of the stamp, and the tick *)

\* A stamp whose store has begun stays begun, and the whole one never goes back.
LEMMA BegunKept ==
  ASSUME TTypeOK, Booting, StampIsTouch, [TNext]_tvars
  PROVE  /\ s_present => active <= active'
         /\ now <= now'
         /\ \A t \in 0..now : s_present /\ Begun(t) => Begun(t)'
<1> USE DEF Begun
<1>1. now \in Int /\ stamp \in Int /\ active \in Int /\ active <= now /\ 0..now \subseteq Int
  BY WindowAssumption DEF TTypeOK, StampIsTouch
<1>2. CASE Boots BY <1>1, <1>2 DEF Boots
<1>3. CASE TouchInit BY <1>1, <1>3 DEF TouchInit, Booting
<1>4. CASE Poll BY <1>1, <1>4 DEF Poll
<1>5. CASE StoreFirst
  <2>1. ppc # "poll" /\ ppc' # "poll" /\ UNCHANGED <<now, active, stamp>>
    BY <1>5 DEF StoreFirst, Store, Half, Other
  <2> QED BY <1>1, <2>1
<1>6. CASE StoreSecond
  <2>1. ppc # "poll" /\ active' = stamp /\ UNCHANGED now BY <1>6 DEF StoreSecond, Store, Half
  <2>2. stamp = now BY <2>1 DEF StampIsTouch
  <2>3. \A t \in 0..now : active' >= t BY <1>1, <2>1, <2>2
  <2> QED BY <1>1, <2>1, <2>2, <2>3
<1>7. CASE UNCHANGED <<now, active, stamp, ppc>> BY <1>1, <1>7
<1>8. CASE TouchAbsent BY <1>8, <1>7 DEF TouchAbsent
<1>9. CASE TickStart \/ LoadFirst \/ LoadSecond \/ BlankOrWake
  BY <1>9, <1>7 DEF TickStart, LoadFirst, LoadSecond, Load, BlankOrWake
<1>10. CASE UNCHANGED tvars BY <1>10, <1>7 DEF tvars
<1> QED BY <1>2, <1>3, <1>4, <1>5, <1>6, <1>8, <1>9, <1>10 DEF TNext

\* What the tick has read of one half.
SeenHalf(h) == \E t \in bactive..now : Begun(t) /\ seen[h] = Words(t)[h]

\* A half that was read is still one of a stamp begun since the tick started.
LEMMA SeenHalfKept ==
  ASSUME TTypeOK, Booting, StampIsTouch, [TNext]_tvars, s_present,
         NEW h \in Half, SeenHalf(h), seen'[h] = seen[h], bactive' = bactive
  PROVE  SeenHalf(h)'
<1>1. now \in Nat /\ bactive \in Nat BY WindowAssumption DEF TTypeOK
<1>2. now' \in Int BY TouchTypeKept, WindowAssumption DEF TTypeOK
<1>3. PICK t \in bactive..now : Begun(t) /\ seen[h] = Words(t)[h] BY DEF SeenHalf
<1>4. t \in 0..now /\ t \in Int BY <1>1
<1>5. Begun(t)' BY <1>3, <1>4, BegunKept
<1>6. t \in bactive'..now' BY <1>1, <1>2, <1>4, BegunKept
<1> QED BY <1>3, <1>5, <1>6 DEF SeenHalf

\* Whatever the order of the accesses, a tick reads halves of begun stamps.
LEMMA SeenAreStampsKept ==
  ASSUME TTypeOK, Booting, StampIsTouch, SeenAreStamps, [TNext]_tvars
  PROVE  SeenAreStamps'
<1>1. /\ now \in Nat /\ bactive \in Nat /\ active \in Nat /\ bnow \in Int /\ stamp \in Nat
      /\ seen \in [Half -> 0..MaxTime] /\ active <= now
  BY WindowAssumption DEF TTypeOK, NoTick, StampIsTouch
<1>2. \A h \in Half : /\ Other(h) \in Half /\ Other(h) # h /\ Other(Other(h)) = h
                      /\ h # "tick" /\ h # "judge" /\ h # "load"
  BY DEF Half, Other
<1>3. SeenAreStamps <=>
        (bpc # "tick" =>
          /\ bnow # NoTick /\ bnow <= now /\ now <= bnow + 1 /\ bactive <= bnow /\ bactive <= active
          /\ \A h \in Half : Read(h) => SeenHalf(h))
  BY DEF SeenAreStamps, SeenHalf
<1>4. SeenAreStamps' <=>
        (bpc' # "tick" =>
          /\ bnow' # NoTick /\ bnow' <= now' /\ now' <= bnow' + 1 /\ bactive' <= bnow' /\ bactive' <= active'
          /\ \A h \in Half : Read(h)' => SeenHalf(h)')
  BY DEF SeenAreStamps, SeenHalf
<1>5. active' \in Nat /\ now' \in Nat BY TouchTypeKept, WindowAssumption DEF TTypeOK
<1>6. SUFFICES ASSUME bpc' # "tick"
               PROVE  /\ bnow' # NoTick /\ bnow' <= now' /\ now' <= bnow' + 1
                      /\ bactive' <= bnow' /\ bactive' <= active'
                      /\ \A h \in Half : Read(h)' => SeenHalf(h)'
  BY <1>4
<1>7. ASSUME bpc # "tick", UNCHANGED <<bpc, bnow, seen, bactive>>
      PROVE  bnow' # NoTick /\ bactive' <= bnow' /\ bactive' <= active' /\ bnow' <= now'
             /\ \A h \in Half : Read(h)' => SeenHalf(h)'
  <2>1. s_present BY <1>7 DEF Booting
  <2>2. active <= active' /\ now <= now' BY <2>1, BegunKept
  <2>3. \A h \in Half : Read(h)' => SeenHalf(h)' BY <1>3, <1>7, <2>1, SeenHalfKept DEF Read
  <2> QED BY <1>1, <1>3, <1>5, <1>7, <2>2, <2>3
<1>8. CASE Boots \/ TouchInit \/ TouchAbsent
  <2>1. ~booted /\ bpc' = bpc BY <1>8 DEF Boots, TouchInit, TouchAbsent
  <2> QED BY <1>6, <2>1 DEF Booting
<1>9. CASE Poll
  <2>1. UNCHANGED <<bpc, bnow, seen, bactive>> /\ now' = now + 1 /\ bnow = now BY <1>6, <1>9 DEF Poll
  <2> QED BY <1>1, <1>6, <1>7, <2>1
<1>10. CASE StoreFirst \/ StoreSecond
  <2>1. UNCHANGED <<bpc, bnow, seen, bactive, now>> BY <1>10 DEF StoreFirst, StoreSecond, Store
  <2> QED BY <1>3, <1>6, <1>7, <2>1
<1>11. CASE TickStart
  <2>1. bnow' = now /\ now' = now /\ bactive' = active /\ bpc' = "load" /\ active' = active
    BY <1>11 DEF TickStart
  <2>2. \A h \in Half : ~Read(h)' BY <1>2, <2>1 DEF Read
  <2> QED BY <1>1, <2>1, <2>2 DEF NoTick
<1>12. ASSUME NEW h \in Half, NEW next, Load(h, next), bpc # "tick"
       PROVE  /\ UNCHANGED <<now, bnow, bactive, active>> /\ bpc' = next
              /\ SeenHalf(h)' /\ seen'[Other(h)] = seen[Other(h)]
  <2>1. /\ UNCHANGED <<now, bnow, bactive, active, ppc, stamp>> /\ bpc' = next
        /\ seen'[h] = s_last[h] /\ seen'[Other(h)] = seen[Other(h)]
    BY <1>1, <1>2, <1>12 DEF Load
  <2>2. bactive <= active BY <1>3, <1>12
  <2>3. CASE ppc = Other(h)
    <3>1. stamp = now /\ ppc # "poll" BY <2>3 DEF StampIsTouch, Half, Other
    <3>2. s_last[h] = Words(stamp)[h] BY <2>3 DEF StampIsTouch
    <3>3. stamp \in bactive'..now' /\ Begun(stamp)' BY <1>1, <2>1, <2>2, <3>1 DEF Begun
    <3> QED BY <2>1, <3>2, <3>3 DEF SeenHalf, Begun
  <2>4. CASE ppc # Other(h)
    <3>1. s_last[h] = Words(active)[h] BY <2>4 DEF StampIsTouch
    <3>2. active \in bactive'..now' /\ active' >= active BY <1>1, <2>1, <2>2
    <3> QED BY <2>1, <3>1, <3>2 DEF SeenHalf, Begun
  <2> QED BY <2>1, <2>3, <2>4
<1>13. CASE LoadFirst
  <2>1. PICK h \in Half : Load(h, Other(h)) /\ bpc = "load" BY <1>13 DEF LoadFirst
  <2>2. UNCHANGED <<now, bnow, bactive, active>> /\ bpc' = Other(h) /\ SeenHalf(h)' BY <2>1, <1>12
  <2>3. \A i \in Half : Read(i)' => i = h BY <1>2, <2>2 DEF Read
  <2> QED BY <1>3, <2>1, <2>2, <2>3
<1>14. CASE LoadSecond
  <2>1. PICK h \in Half : h = bpc /\ Load(h, "judge") BY <1>14 DEF LoadSecond
  <2>2. UNCHANGED <<now, bnow, bactive, active>> /\ SeenHalf(h)' /\ seen'[Other(h)] = seen[Other(h)]
    BY <1>2, <2>1, <1>12
  <2>3. SeenHalf(Other(h)) BY <1>2, <1>3, <2>1 DEF Read
  <2>4. s_present BY <1>2, <2>1 DEF Booting
  <2>5. SeenHalf(Other(h))' BY <1>2, <2>2, <2>3, <2>4, SeenHalfKept
  <2>6. \A i \in Half : i = h \/ i = Other(h) BY DEF Half, Other
  <2> QED BY <1>2, <1>3, <2>1, <2>2, <2>5, <2>6
<1>15. CASE BlankOrWake BY <1>6, <1>15 DEF BlankOrWake
<1>16. CASE UNCHANGED tvars
  <2>1. UNCHANGED <<bpc, bnow, seen, bactive, now>> BY <1>16 DEF tvars
  <2> QED BY <1>3, <1>6, <1>7, <2>1
<1> QED BY <1>8, <1>9, <1>10, <1>11, <1>13, <1>14, <1>15, <1>16 DEF TNext

\* A tick that is wrong has read across a carry, after the stamp it would have
\* seen and no later than a stamp whose store has begun.
LEMMA WrongTick ==
  ASSUME TTypeOK, SeenAreStamps, BlankOrWake, wrong'
  PROVE  /\ bnow - bactive < BL_IDLE_OFF
         /\ \E c \in Carries : bactive < c /\ c <= now /\ Word <= c /\ Begun(c)
<1>1. /\ now \in 0..MaxTime /\ bactive \in 0..MaxTime /\ bnow \in Int /\ MaxTime \in Nat
      /\ active \in Nat /\ stamp \in Nat /\ BL_IDLE_OFF \in Nat
  BY WindowAssumption DEF TTypeOK, NoTick
<1>2. bpc = "judge" /\ Idle(TimeOf(seen)) /\ ~Idle(bactive) BY DEF BlankOrWake
<1>3. PICK t \in bactive..now : seen["hi"] = Words(t)["hi"]
  BY <1>2 DEF SeenAreStamps, Read, Half
<1>4. PICK u \in bactive..now : Begun(u) /\ seen["lo"] = Words(u)["lo"]
  BY <1>2 DEF SeenAreStamps, Read, Half
<1>5. t \in bactive..MaxTime /\ u \in bactive..MaxTime /\ t \in Nat /\ u \in Nat /\ bactive \in Nat BY <1>1
<1>6. TimeOf(seen) = Words(t).hi * Word + Words(u).lo BY <1>3, <1>4 DEF TimeOf
<1>7. Words(t).hi * Word + Words(u).lo \in Int
  <2>1. Words(t).hi \in Nat /\ Words(u).lo \in Nat BY <1>5, HalvesOf DEF Half
  <2> QED BY <2>1, WindowAssumption
<1> DEFINE torn == Words(t).hi * Word + Words(u).lo
<1>8. torn \in Int /\ bnow - torn >= BL_IDLE_OFF /\ ~(bnow - bactive >= BL_IDLE_OFF)
  BY <1>2, <1>6, <1>7 DEF Idle
<1> HIDE DEF torn
<1>9. torn < bactive BY <1>1, <1>5, <1>8
<1>10. PICK c \in Carries : bactive < c /\ c <= u /\ Word <= c BY <1>5, <1>9, TornIsCarry DEF torn
<1>11. c \in Int BY WindowAssumption DEF Carries
<1>12. c <= now BY <1>1, <1>4, <1>5, <1>10, <1>11
<1>13. Begun(c) BY <1>1, <1>4, <1>5, <1>10, <1>11 DEF Begun
<1>14. bnow - bactive < BL_IDLE_OFF BY <1>1, <1>5, <1>8
<1> QED BY <1>10, <1>12, <1>13, <1>14

\* What WrongAtCarry says of one carry.
AtCarry(c) ==
  /\ bpc = "tick" =>
       /\ bnow + 2 <= c + BL_IDLE_OFF /\ c <= bnow + 1
       /\ active >= c \/ (ppc # "poll" /\ stamp >= c /\ now <= bnow + 1)
  /\ bpc # "tick" => c <= bactive /\ bnow + 2 <= c + BL_IDLE_OFF + TickMax

\* By the tick after a wrong one the stamp behind the carry is stored.
LEMMA WrongAtCarryKept ==
  ASSUME TTypeOK, Booting, StampIsTouch, SeenAreStamps, WrongAtCarry, [TNext]_tvars
  PROVE  WrongAtCarry'
<1>1. /\ now \in Nat /\ bactive \in Nat /\ bnow \in Int /\ active \in Nat /\ stamp \in Nat
      /\ BL_IDLE_OFF \in Nat /\ TickMax \in Nat /\ TickPolls \in Nat /\ TickPolls >= 2
      /\ Carries \subseteq Int
  BY WindowAssumption DEF TTypeOK, NoTick, Carries
<1>2. WrongAtCarry <=> (wrong => bnow # NoTick /\ \E c \in Carries : AtCarry(c))
  BY DEF WrongAtCarry, AtCarry
<1>3. WrongAtCarry' <=> (wrong' => bnow' # NoTick /\ \E c \in Carries : AtCarry(c)')
  BY DEF WrongAtCarry, AtCarry
<1>4. SUFFICES ASSUME wrong' PROVE bnow' # NoTick /\ \E c \in Carries : AtCarry(c)'
  BY <1>3
<1>5. CASE BlankOrWake
  <2>1. PICK c \in Carries : bactive < c /\ c <= now /\ Begun(c) BY <1>4, <1>5, WrongTick
  <2>2. bnow - bactive < BL_IDLE_OFF BY <1>4, <1>5, WrongTick
  <2>3. bpc = "judge" /\ bpc' = "tick" /\ UNCHANGED <<bnow, active, ppc, stamp, now>>
    BY <1>5 DEF BlankOrWake
  <2>4. bnow # NoTick /\ now <= bnow + 1 BY <2>3 DEF SeenAreStamps
  <2>5. c \in Int BY <1>1
  <2>6. bnow + 2 <= c + BL_IDLE_OFF /\ c <= bnow + 1 BY <1>1, <2>1, <2>2, <2>4, <2>5
  <2>7. active >= c \/ (ppc # "poll" /\ stamp >= c) BY <2>1 DEF Begun
  <2> QED BY <2>3, <2>4, <2>6, <2>7 DEF AtCarry
<1>6. ASSUME wrong PROVE s_present BY <1>6 DEF Booting
<1>7. CASE ~BlankOrWake /\ TNext
  <2>1. wrong
    BY <1>4, <1>7 DEF TNext, Boots, TouchInit, TouchAbsent, Poll, StoreFirst, StoreSecond, Store,
                      TickStart, LoadFirst, LoadSecond, Load
  <2>2. s_present /\ booted BY <2>1, <1>6 DEF Booting
  <2>3. bnow # NoTick BY <1>2, <2>1
  <2>4. PICK c \in Carries : AtCarry(c) BY <1>2, <2>1
  <2>5. c \in Int BY <1>1
  <2>6. CASE Poll
    <3>1. UNCHANGED <<bpc, bnow, active, bactive>> /\ ppc = "poll" BY <2>6 DEF Poll
    <3> QED BY <2>3, <2>4, <3>1 DEF AtCarry
  <2>7. CASE StoreFirst
    <3>1. UNCHANGED <<bpc, bnow, active, bactive, stamp, now>> /\ ppc' # "poll"
      BY <2>7 DEF StoreFirst, Store, Half, Other
    <3> QED BY <2>3, <2>4, <3>1 DEF AtCarry
  <2>8. CASE StoreSecond
    <3>1. UNCHANGED <<bpc, bnow, bactive, now>> /\ active' = stamp /\ ppc # "poll"
      BY <2>8 DEF StoreSecond, Store, Half
    <3>2. stamp = now /\ active <= now BY <3>1 DEF StampIsTouch
    <3>3. active >= c \/ stamp >= c => active' >= c BY <1>1, <2>5, <3>1, <3>2
    <3> QED BY <2>3, <2>4, <3>1, <3>3 DEF AtCarry
  <2>9. CASE TickStart
    <3>1. /\ bpc = "tick" /\ bpc' = "load" /\ bnow' = now /\ bactive' = active
          /\ now - bnow \in TickPolls..TickMax
      BY <2>3, <2>9 DEF TickStart
    <3>2. ~(now <= bnow + 1) /\ now <= bnow + TickMax BY <1>1, <3>1
    <3>3. active >= c /\ bnow + 2 <= c + BL_IDLE_OFF BY <2>4, <3>1, <3>2 DEF AtCarry
    <3>4. c <= bactive' /\ bnow' + 2 <= c + BL_IDLE_OFF + TickMax BY <1>1, <2>5, <3>1, <3>2, <3>3
    <3>5. bnow' # NoTick BY <1>1, <3>1 DEF NoTick
    <3> QED BY <3>1, <3>4, <3>5 DEF AtCarry
  <2>10. CASE LoadFirst \/ LoadSecond
    <3>1. UNCHANGED <<bnow, bactive>> /\ bpc # "tick" /\ bpc' # "tick"
      BY <2>10 DEF LoadFirst, LoadSecond, Load, Half, Other
    <3> QED BY <2>3, <2>4, <3>1 DEF AtCarry
  <2> QED BY <1>7, <2>2, <2>6, <2>7, <2>8, <2>9, <2>10 DEF TNext, Boots, TouchInit, TouchAbsent
<1>8. CASE UNCHANGED tvars
  <2>1. UNCHANGED <<bpc, bnow, active, bactive, ppc, stamp, now, wrong>> BY <1>8 DEF tvars
  <2> QED BY <1>2, <1>4, <2>1 DEF AtCarry
<1> QED BY <1>5, <1>7, <1>8

\* A wrong tick reads across the first carry at the earliest, and the next
\* carry is too far away for the tick after it.
LEMMA DarkOnceStep ==
  ASSUME TTypeOK, SeenAreStamps, WrongAtCarry, BlankOrWake, wrong'
  PROVE  now >= Word /\ ~wrong
<1>1. /\ now \in Nat /\ bactive \in Nat /\ bnow \in Int /\ Word \in Nat
      /\ BL_IDLE_OFF \in Nat /\ TickMax \in Nat /\ TickMax + BL_IDLE_OFF <= Word
      /\ Carries \subseteq Int
  BY WindowAssumption DEF TTypeOK, NoTick, Carries
<1>2. PICK c \in Carries : bactive < c /\ c <= now /\ Word <= c BY WrongTick
<1>3. bpc # "tick" /\ now <= bnow + 1 BY DEF BlankOrWake, SeenAreStamps
<1>4. c \in Int /\ now >= Word BY <1>1, <1>2
<1>5. ASSUME wrong PROVE FALSE
  <2>1. PICK d \in Carries : d <= bactive /\ bnow + 2 <= d + BL_IDLE_OFF + TickMax
    BY <1>3, <1>5 DEF WrongAtCarry
  <2>2. d \in Int /\ d < c BY <1>1, <1>2, <1>4, <2>1
  <2>3. d + Word <= c BY <2>2, CarriesApart
  <2> QED BY <1>1, <1>2, <1>3, <1>4, <2>1, <2>2, <2>3
<1> QED BY <1>4, <1>5

-----------------------------------------------------------------------------
(* Touch: the theorems *)

\* The inductive invariant holds when the box starts.
LEMMA TouchInitInv == TInit => TouchInv
<1> SUFFICES ASSUME TInit PROVE TouchInv OBVIOUS
<1>1. TTypeOK BY TouchInitType
<1>2. Booting BY DEF TInit, Booting
<1>3. BitsArePolls BY DEF TInit, BitsArePolls
<1>4. StampIsTouch
  <2>1. \A h \in Half : s_last[h] = Words(IF ppc = Other(h) THEN stamp ELSE active)[h]
    BY DEF TInit
  <2> QED BY <2>1 DEF TInit, StampIsTouch
<1>5. SeenAreStamps BY DEF TInit, SeenAreStamps
<1>6. WrongAtCarry BY DEF TInit, WrongAtCarry
<1> QED BY <1>1, <1>2, <1>3, <1>4, <1>5, <1>6 DEF TouchInv

\* The inductive invariant of Touch: the history is that of the polls, the stamp
\* that of the last touch, and a wrong tick has a carry behind it.
THEOREM TouchInductive == TSpec => []TouchInv
<1>1. TouchInv /\ [TNext]_tvars => TouchInv'
  <2> SUFFICES ASSUME TouchInv, [TNext]_tvars PROVE TouchInv' OBVIOUS
  <2>1. TTypeOK /\ Booting /\ BitsArePolls /\ StampIsTouch /\ SeenAreStamps /\ WrongAtCarry
    BY DEF TouchInv
  <2>2. since <= now BY <2>1, WindowAssumption DEF TTypeOK, StampIsTouch
  <2>3. TTypeOK' BY <2>1, TouchTypeKept
  <2>4. Booting' BY <2>1, BootingKept
  <2>5. BitsArePolls' BY <2>1, <2>2, BitsArePollsKept
  <2>6. StampIsTouch' BY <2>1, StampIsTouchKept
  <2>7. SeenAreStamps' BY <2>1, SeenAreStampsKept
  <2>8. WrongAtCarry' BY <2>1, WrongAtCarryKept
  <2> QED BY <2>3, <2>4, <2>5, <2>6, <2>7, <2>8 DEF TouchInv
<1> QED BY <1>1, TouchInitInv, PTL DEF TSpec

\* For every window, every byte and every pattern of touches and phantoms, the
\* stamp is the last poll that saw TOUCH_MIN valid samples in the window.
THEOREM StampsTouches == TSpec => []ActivityIsTouch
<1>1. TouchInv => ActivityIsTouch
  <2> SUFFICES ASSUME TouchInv, s_present, ppc = "poll" PROVE TimeOf(s_last) = LastTouch
    BY DEF ActivityIsTouch
  <2>1. active \in Nat BY WindowAssumption DEF TouchInv, TTypeOK
  <2>2. s_last["hi"] = Words(active)["hi"] /\ s_last["lo"] = Words(active)["lo"]
    BY DEF TouchInv, StampIsTouch, Half, Other
  <2>3. TimeOf(s_last) = active BY <2>1, <2>2, HalvesOf DEF TimeOf
  <2> QED BY <2>3 DEF TouchInv, StampIsTouch
<1> QED BY <1>1, TouchInductive, PTL

\* However long the box runs, a torn read blanks a panel in use no earlier than
\* after 71 minutes and never in two ticks in a row.
THEOREM NeverDarkTwice == TSpec => DarkOnce
<1>1. TouchInv /\ [TNext]_tvars => [BlankOrWake /\ wrong' => now >= Word /\ ~wrong]_tvars
  BY DarkOnceStep DEF TouchInv
<1>2. DarkOnce <=> [][BlankOrWake /\ wrong' => now >= Word /\ ~wrong]_tvars BY DEF DarkOnce
<1> QED BY <1>1, <1>2, TouchInductive, PTL DEF TSpec
=============================================================================
