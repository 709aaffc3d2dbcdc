-------------------------------- MODULE Skyline -------------------------------
(***************************************************************************)
(* How a tower of the city scene is put together.                          *)
(*                                                                         *)
(*   frontend/src/3d/scenes/city-scene.js   generateSkyline                *)
(*                                                                         *)
(* A step is one part of addBuilding, from the ground to the roof.  Every  *)
(* length depends on random numbers and on what is below; a random number  *)
(* is one of the two ends of its range or the middle.  Lengths are in      *)
(* centimetres, which makes the percentages of whole metres exact.         *)
(* Colours, facade details, textures and the plan of the streets are left  *)
(* out.                                                                    *)
(***************************************************************************)
EXTENDS Integers

CONSTANTS
  Heights     \* metres: those of the towers, within hMin and hMax of the bands

VARIABLES
  tower,    \* h, the style, landmark, the roll of the style
  stage,    \* the next part
  y,        \* top of what stands
  width,    \* cw
  wall,     \* the part that was just added: base, height, width
  windows   \* its windows: bottom, top, half the width they take

vars == <<tower, stage, y, width, wall, windows>>

Styles == {"banded", "vertical", "crowned", "terraced", "industrial"}
Rolls == {30, 60, 90}         \* styleRoll, in percent

\* The three landmarks: metres, style and width
Landmarks == {<<108, "crowned", 2400>>, <<122, "vertical", 2800>>,
              <<96, "terraced", 2200>>}

Between(a, b) == {a, (a + b) \div 2, b}     \* a + rng() * (b - a)
Least(a, b) == IF a < b THEN a ELSE b
AtLeast(a, b) == IF a < b THEN b ELSE a

NoWindows == [bottom |-> 0, top |-> 0, half |-> 0]
NoTower == [h |-> 0, style |-> "banded", landmark |-> FALSE, roll |-> 0]
OnGround == [base |-> 0, height |-> 0, width |-> 0]

-----------------------------------------------------------------------------
\* addWindows: a row for each floor, 1.3 m high, and columns 2 m apart, which
\* are shifted by 9 cm at most.
Facade(base, height, w) ==
  LET floors  == AtLeast((height - 300) \div 280, 1)
      columns == AtLeast((w - 180) \div 200, 1)
  IN  [bottom |-> base + 180 - 65,
       top    |-> base + 180 + (floors - 1) * 280 + 65,
       half   |-> (columns - 1) * 100 + 48 + 9]

\* The shops of the podium: one row of windows of 1 m by 1.15 m
Retail(w) ==
  LET columns == AtLeast((w - 120) \div 190, 2)
  IN  [bottom |-> 170 - 58, top |-> 170 + 58, half |-> (columns - 1) * 95 + 50]

Part(height, w, glass) ==
  /\ wall' = [base |-> y, height |-> height, width |-> w]
  /\ windows' = glass
  /\ y' = y + height

Skip(next) == stage' = next /\ UNCHANGED <<y, width, wall, windows>>

-----------------------------------------------------------------------------
Podium ==
  /\ stage = "podium"
  /\ stage' = "shaft"
  /\ UNCHANGED <<tower, width>>
  /\ \E base \in Between(350, 650) :
       Part(Least(base, (tower.h * 18) \div 100), (width * 114) \div 100,
            Retail((width * 114) \div 100))

Shaft ==
  /\ stage = "shaft"
  /\ stage' = "setback"
  /\ UNCHANGED <<tower, width>>
  /\ \E part \in Between(55, 70) :
       Part((tower.h * part) \div 100, width,
            Facade(y, (tower.h * part) \div 100, width))

\* Faulty variant of SetbackHeight: what is left of the tower does not count.
SetbackOfHeight(part) == (tower.h * part) \div 100

SetbackHeight(part) == Least((tower.h * part) \div 100, tower.h - y)

\* The first setback, for some styles and rolls, where there is room
Setback ==
  /\ stage = "setback"
  /\ UNCHANGED tower
  /\ IF (tower.style \in {"terraced", "crowned"} \/ tower.roll < 52)
        /\ y < tower.h - 800
     THEN /\ stage' = "crown"
          /\ \E part \in Between(12, 22), kept \in Between(78, 86) :
               LET w == (width * kept) \div 100
                   h1 == SetbackHeight(part)
               IN  Part(h1, w, Facade(y, h1, w)) /\ width' = w
     ELSE Skip("crown")

\* The second one, which leaves room for the cap
Crown ==
  /\ stage = "crown"
  /\ UNCHANGED tower
  /\ LET h2 == tower.h - y - (IF tower.landmark THEN 350 ELSE 150)
     IN  IF (tower.landmark \/ tower.style \in {"terraced", "crowned"}
               \/ tower.roll > 70) /\ y < tower.h - 600
         THEN /\ stage' = "cap"
              /\ \E kept \in Between(72, 80) :
                   /\ width' = (width * kept) \div 100
                   /\ IF h2 > 200 THEN Part(h2, width', Facade(y, h2, width'))
                      ELSE UNCHANGED <<y, wall, windows>>
         ELSE Skip("cap")

\* The cap, on which the roof stands; it has no windows, and its shape, which
\* differs with the style, carries none.
Cap ==
  /\ stage = "cap"
  /\ UNCHANGED tower
  /\ IF y < tower.h - 50
     THEN /\ stage' = "roof"
          /\ Part(tower.h - y, (width * 55) \div 100, NoWindows)
          /\ UNCHANGED width
     ELSE Skip("roof")

\* buildings.push
Finish ==
  /\ stage = "roof"
  /\ stage' = "site"
  /\ y' = 0
  /\ width' = 0
  /\ wall' = OnGround
  /\ windows' = NoWindows
  /\ tower' = NoTower

\* The next tower of the bands, or a landmark
AddBuilding(metres, style, landmark, w) ==
  /\ stage = "site"
  /\ stage' = "podium"
  /\ width' = w
  /\ \E roll \in Rolls :
       tower' = [h |-> metres * 100, style |-> style, landmark |-> landmark,
                 roll |-> roll]
  /\ UNCHANGED <<y, wall, windows>>

Init ==
  /\ tower = NoTower
  /\ stage = "site"
  /\ y = 0
  /\ width = 0
  /\ wall = OnGround
  /\ windows = NoWindows

Next ==
  \/ \E metres \in Heights, style \in Styles, w \in {700, 2200} :
       AddBuilding(metres, style, FALSE, w)
  \/ \E l \in Landmarks : AddBuilding(l[1], l[2], TRUE, l[3])
  \/ Podium
  \/ Shaft
  \/ Setback
  \/ Crown
  \/ Cap
  \/ Finish

Spec == Init /\ [][Next]_vars

-----------------------------------------------------------------------------
\* The shops of a tower of less than 12.7 m are higher than its podium, and
\* are left out here.
WindowsAreOnWalls ==
  windows # NoWindows /\ (stage = "shaft" => tower.h >= 1270) =>
    /\ windows.bottom >= wall.base
    /\ windows.top <= wall.base + wall.height
    /\ 2 * windows.half <= wall.width

RoofIsCarried ==
  /\ y <= tower.h
  /\ stage = "roof" => tower.h - y <= 50

(* Whatever the random numbers are, no row of windows leaves its wall, no
   part is higher than the tower, and what stands on the roof, at y1, is not
   above the last part by more than the half metre for which no cap is built
   (city-scene.js:497-560, 600-690). *)
TowerHoldsTogether == WindowsAreOnWalls /\ RoofIsCarried
=============================================================================
