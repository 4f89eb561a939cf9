----------------------------- MODULE MCPetEngine -----------------------------
(***************************************************************************)
(* Pets and screens on which TLC checks PetEngine.                          *)
(***************************************************************************)
EXTENDS PetEngine

To(id, only) == [id |-> id, only |-> only, weight |-> 1]

Still == [x |-> 0, y |-> 0]

Clip(from, to, n, repeat, repeatFrom, sequence) ==
  [start |-> from, end |-> to, frames |-> n, repeat |-> repeat,
   repeatFrom |-> repeatFrom, action |-> "", gravityNext |-> {},
   borderNext |-> {}, sequenceNext |-> sequence]

\* The skeleton of the shipped pets: 1 walk, 2 turn (flips), 3 fall, 4 drag, 5 land.
Walk == [Clip([x |-> 1, y |-> 0], [x |-> 1, y |-> 0], 2, {2}, 0, {To(1, "none")})
           EXCEPT !.gravityNext = {To(3, "none")}, !.borderNext = {To(2, "none")}]
Turn == [Clip(Still, Still, 2, {0}, 1, {To(1, "none")}) EXCEPT !.action = "flip"]
Fall == [Clip([x |-> 0, y |-> 1], [x |-> 0, y |-> 3], 1, {3}, 0, {To(3, "none")})
           EXCEPT !.borderNext = {To(5, "floor")}]
Drag == Clip(Still, Still, 2, {1}, 1, {To(1, "none")})
Land == Clip(Still, Still, 2, {1, 2}, 5, {To(1, "")})

Sheep == <<Walk, Turn, Fall, Drag, Land>>

\* A pet with mistakes: 2 is entered by gravity that no drop named "fall" backs
\* up, 3 climbs into the ceiling, 4 has no frames, and 9 is not defined.
Broken ==
  << [Walk EXCEPT !.gravityNext = {To(2, "ceiling"), To(9, "none"), To(0, "")},
                  !.borderNext = {To(3, "walls"), To(9, "floor")},
                  !.sequenceNext = {To(4, "window"), To(3, "horizontal+")}],
     [Fall EXCEPT !.borderNext = {To(1, "taskbar")}, !.sequenceNext = {}],
     [Clip([x |-> -1, y |-> -1], [x |-> 0, y |-> -2], 3, {0, 1}, -1, {To(4, ""), To(1, "none")})
        EXCEPT !.borderNext = {To(9, "none"), To(1, "ceiling")}],
     Clip(Still, Still, 0, {1}, 2, {To(1, "none")}) >>

Screen(w, h, floor) ==
  [screen   |-> [x |-> 0, y |-> 0, w |-> w, h |-> h],
   workArea |-> [x |-> 0, y |-> 0, w |-> w, h |-> floor],
   desktop  |-> [x |-> 0, y |-> 0, w |-> w, h |-> h]]

\* A work area above a task bar.
OneScreen   == {Screen(7, 9, 8)}
\* The second geometry names only the desktop; gravity is off in it.
TwoScreens  == OneScreen \cup
  {[screen |-> [x |-> 0, y |-> 0, w |-> 0, h |-> 0],
    workArea |-> [x |-> 0, y |-> 0, w |-> 0, h |-> 0],
    desktop |-> [x |-> 0, y |-> 0, w |-> 5, h |-> 5]]}

OffRight == [x |-> 8, y |-> 4, next |-> 1]
OffTop   == [x |-> 2, y |-> -3, next |-> 1]
ToMissing == [x |-> 2, y |-> 0, next |-> 9]

BothSpawns  == {OffRight, OffTop}
OddSpawns   == {OffTop, ToMissing}

Grid == -4..12
Grabs == {<<1, 1>>, <<6, 4>>}
=============================================================================
