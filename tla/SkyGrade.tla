------------------------------- MODULE SkyGrade -------------------------------
(***************************************************************************)
(* The one palette that sky, fog, lights and scenes are drawn with.        *)
(*                                                                         *)
(*   frontend/src/3d/atmosphere.js   STOPS, gradeForElevation,             *)
(*                                   createAtmosphere                      *)
(*                                                                         *)
(* Documents move the sun, also by half a day when a member drags the      *)
(* slider; frames ease what is drawn toward where it is now.  Colours fade *)
(* like the numbers, and are left out; so are numbers that nothing here    *)
(* speaks of.  Numbers are in thousandths, the ease of a frame of 0.19     *)
(* seconds is a quarter.                                                   *)
(***************************************************************************)
EXTENDS Integers, Sequences

CONSTANTS
  Elevations,   \* degrees
  MaxJumps      \* bound: documents that move the sun

VARIABLES
  goal,   \* targetElevation, targetDaylight, target
  now,    \* currentElevation, currentDaylight, current
  jumps

vars == <<goal, now, jumps>>

Channels == {"sun", "key", "twilight", "night", "cloud"}

\* STOPS, in hundredths: sunIntensity, keyIntensity, twilightStrength,
\* nightStrength and cloudLight
Stops == <<
  [at |-> -90, sun |-> 0,   key |-> 75,  twilight |-> 0,   night |-> 100, cloud |-> 34],
  [at |-> -12, sun |-> 0,   key |-> 70,  twilight |-> 28,  night |-> 86,  cloud |-> 38],
  [at |-> -4,  sun |-> 42,  key |-> 105, twilight |-> 92,  night |-> 38,  cloud |-> 54],
  [at |-> 2,   sun |-> 90,  key |-> 170, twilight |-> 100, night |-> 4,   cloud |-> 86],
  [at |-> 12,  sun |-> 100, key |-> 200, twilight |-> 46,  night |-> 0,   cloud |-> 94],
  [at |-> 45,  sun |-> 100, key |-> 215, twilight |-> 0,   night |-> 0,   cloud |-> 100] >>

-----------------------------------------------------------------------------
Within(n, low, high) == IF n < low THEN low ELSE IF n > high THEN high ELSE n

\* t * t * (3 - 2 * t), in hundredths
Smooth(t) == (t * t * (300 - 2 * t)) \div 10000

\* gradeForElevation: between the two stops around elev.  Beyond the first
\* and the last one the palette is theirs.
GradeForElevation(elev) ==
  LET last == Len(Stops) - 1
      i  == CHOOSE j \in 1 .. last :
              /\ j = 1 \/ Stops[j].at < elev
              /\ j = last \/ elev <= Stops[j + 1].at
      lo == Stops[i]
      hi == Stops[i + 1]
      s  == Smooth(Within(((elev - lo.at) * 100) \div (hi.at - lo.at), 0, 100))
  IN  [c \in Channels |-> 10 * lo[c] + ((hi[c] - lo[c]) * s) \div 10]

TargetDaylight(elev) == Within(((elev + 6) * 1000) \div 18, 0, 1000)

SkyAt(elev) == [elevation |-> 1000 * elev, daylight |-> TargetDaylight(elev),
              grade |-> GradeForElevation(elev)]

\* Faulty variant of Elevation: where the sun is going.
GoalElevation == goal.elevation

\* What consumers read as the elevation
Elevation == now.elevation

-----------------------------------------------------------------------------
\* One frame; a frame of more than half a second snaps.
Ease(x, y, snap) == IF snap THEN y ELSE x + (y - x) \div 4

Eased(snap) ==
  [elevation |-> Ease(now.elevation, goal.elevation, snap),
   daylight  |-> Ease(now.daylight, goal.daylight, snap),
   grade     |-> [c \in Channels |-> Ease(now.grade[c], goal.grade[c], snap)]]

SetElevation(elev) ==
  /\ jumps < MaxJumps
  /\ jumps' = jumps + 1
  /\ goal' = SkyAt(elev)
  /\ UNCHANGED now

Update(snap) ==
  /\ now' = Eased(snap)
  /\ UNCHANGED <<goal, jumps>>

Init ==
  /\ goal = SkyAt(-90)
  /\ now = SkyAt(-90)
  /\ jumps = 0

Next ==
  \/ \E elev \in Elevations : SetElevation(elev)
  \/ \E snap \in BOOLEAN : Update(snap)

Spec == Init /\ [][Next]_vars

-----------------------------------------------------------------------------
\* A sky that is drawn as night is not reported as a day: the palette, the
\* elevation and the daylight are of one hour, however the sun jumped.
NightIsNight ==
  now.grade["night"] >= 900 => Elevation <= -10000 /\ now.daylight <= 100

\* And the other way round, which is what shafts and traffic go by.
DayIsDay ==
  Elevation >= 12000 => now.grade["night"] <= 660 /\ now.grade["sun"] > 0

\* Another frame would change nothing.
Rested == now = Eased(FALSE)

\* What the fades come to rest at is the palette of the sun's elevation, less
\* at most what a frame rounds away; by night it has no sun in it.
RestsOnGoal ==
  Rested =>
    /\ \A c \in Channels : now.grade[c] - goal.grade[c] \in -3 .. 3
    /\ Elevation - goal.elevation \in -3 .. 3
    /\ goal.elevation <= -12000 => now.grade["sun"] = 0

(* Whatever jumps the sun makes while earlier ones are still fading, what is
   drawn is of one hour: no daylight in a night sky ("consumers ... must see
   the same temporal state as the palette", atmosphere.js:258-261), and no
   halo of the sun all night long (44-47, 253-263). *)
SkyIsOfOneHour == NightIsNight /\ DayIsDay /\ RestsOnGoal
=============================================================================
