------------------------------ MODULE PetEngine ------------------------------
(***************************************************************************)
(* One pet's animation engine, as the backend runs it: engine.Engine driven *)
(* by Service.StepPet, DragPet, DropPet, SetPosition and the scale and      *)
(* gravity settings.  The service holds its mutex over each call, so a call *)
(* is one action; in particular engine.Step and the TransitionTo the        *)
(* service applies to the id it returns are one action.                     *)
(*                                                                         *)
(* Positions live on an integer grid with the engine's tolerance as the     *)
(* unit.  A border context is the set of edges touched, the sprite, opacity *)
(* and interval of a frame are left out, and a weighted random pick is a    *)
(* free choice among the candidates of positive weight.                     *)
(***************************************************************************)
EXTENDS Integers

CONSTANTS
  AnimId,          \* ids of the animations the pet defines
  Anim,            \* the definition of each of them
  DragAnim,        \* id of the animation named "drag", 0 when there is none
  FallAnim,        \* id of the animation named "fall", 0 when there is none
  Spawns,          \* spawn points, with their expressions already evaluated
  Worlds,          \* geometries the app may send with a call
  FrameW, FrameH,  \* size of one sprite tile
  Scales,          \* values of the Scale setting
  GravityFactors,  \* values of the GravityFactor setting
  Coord,           \* coordinates a position may take (bounds the model)
  SentPositions    \* positions the app may send with drag_pet, set_position

\* Mutant of Tolerance: as large as the step a falling pet starts with at 2.0x.
WideTolerance == 2

Tolerance == 1

Edge == {"floor", "ceiling", "left", "right"}

OnlyName == {"", "none", "floor", "taskbar", "ceiling", "horizontal", "walls",
             "vertical", "obstacle", "window", "horizontal+"}

NextAnimation == [id : Int, only : OnlyName, weight : Nat]

Movement == [x : Int, y : Int]

Animation == [start : Movement, end : Movement, frames : Nat,
              repeat : SUBSET Int, repeatFrom : Int, action : {"", "flip"},
              gravityNext : SUBSET NextAnimation,
              borderNext : SUBSET NextAnimation,
              sequenceNext : SUBSET NextAnimation]

Rect == [x : Int, y : Int, w : Nat, h : Nat]

WorldContext == [screen : Rect, workArea : Rect, desktop : Rect]

ASSUME AnimIdsPositive == AnimId \subseteq Nat \ {0}
ASSUME AnimsDefined == /\ Anim \in [AnimId -> Animation]
                       /\ \A id \in AnimId : Anim[id].repeat # {}
ASSUME NamedAnims == {DragAnim, FallAnim} \subseteq AnimId \cup {0}
ASSUME CoordIsInt == Coord \subseteq Int
ASSUME SpawnsDefined == Spawns \subseteq [x : Coord, y : Coord, next : Int]
ASSUME WorldsDefined == Worlds \subseteq WorldContext
ASSUME SizesDefined == {FrameW, FrameH} \subseteq Nat
ASSUME ScalesDefined == Scales # {} /\ Scales \subseteq Nat
ASSUME GravityDefined == GravityFactors # {} /\ GravityFactors \subseteq Nat
ASSUME SentPositionsDefined == SentPositions \subseteq Coord \X Coord

VARIABLES
  state,            \* Engine.state
  currentAnim,      \* Engine.currentAnim; 0 and undefined ids have no frames
  loaded,           \* the animation whose frames are in animFrames, 0: none
  animTotalSteps,   \* Engine.animTotalSteps, chosen when it was loaded
  frameIdx,
  totalStepsDone,
  borderTriggered,
  gravityTriggered,
  flipH,
  parentX, parentY,
  scale, gravityFactor,
  answer            \* what the last step_pet returned: nothing yet, a frame, null

cursor   == <<currentAnim, loaded, animTotalSteps, frameIdx, totalStepsDone>>
triggers == <<borderTriggered, gravityTriggered>>
pose     == <<parentX, parentY, flipH>>
tuning   == <<scale, gravityFactor>>
vars     == <<state, cursor, triggers, pose, tuning, answer>>

-----------------------------------------------------------------------------
(* Geometry *)

PetW == FrameW * scale
PetH == FrameH * scale

\* The screen falls back to the desktop, the floor to the screen.
ScreenOf(world) == IF world.screen.w = 0 THEN world.desktop ELSE world.screen
FloorOf(world)  == IF world.workArea.w = 0 THEN ScreenOf(world) ELSE world.workArea
Bottom(rect)    == rect.y + rect.h
Right(rect)     == rect.x + rect.w

Touches(edge, world, px, py) ==
  \/ edge = "floor"   /\ py + PetH >= Bottom(FloorOf(world)) - Tolerance
  \/ edge = "ceiling" /\ py <= ScreenOf(world).y + Tolerance
  \/ edge = "left"    /\ px <= ScreenOf(world).x + Tolerance
  \/ edge = "right"   /\ px + PetW >= Right(ScreenOf(world)) - Tolerance

DetectBorder(world, px, py) ==
  IF ScreenOf(world).w = 0 THEN {}
  ELSE {edge \in Edge : Touches(edge, world, px, py)}

DetectGravity(world) ==
  /\ world.workArea.w # 0
  /\ parentY + PetH < Bottom(world.workArea) - Tolerance

\* applyPhysics: floor, then ceiling; left, then right.
SnapY(world, ctx, py) ==
  LET onFloor == IF "floor" \in ctx THEN Bottom(FloorOf(world)) - PetH ELSE py
  IN  IF "ceiling" \in ctx /\ onFloor <= ScreenOf(world).y + Tolerance
      THEN ScreenOf(world).y ELSE onFloor

\* Mutant of SnapX: aligns the pet's left side, not its right one, with the wall.
SnapXLeftSide(world, ctx, px) ==
  LET atLeft == IF "left" \in ctx THEN ScreenOf(world).x ELSE px
  IN  IF "right" \in ctx /\ atLeft + PetW >= Right(ScreenOf(world)) - Tolerance
      THEN Right(ScreenOf(world)) ELSE atLeft

SnapX(world, ctx, px) ==
  LET atLeft == IF "left" \in ctx THEN ScreenOf(world).x ELSE px
  IN  IF "right" \in ctx /\ atLeft + PetW >= Right(ScreenOf(world)) - Tolerance
      THEN Right(ScreenOf(world)) - PetW ELSE atLeft

\* Linear interpolation over the animation's steps, rounded to the grid.
Interpolate(from, to) ==
  IF totalStepsDone >= animTotalSteps THEN to
  ELSE from + ((to - from) * totalStepsDone) \div animTotalSteps

Displacement(world) ==
  LET a  == Anim[currentAnim]
      dy == Interpolate(a.start.y, a.end.y) * scale
  IN  [x |-> Interpolate(a.start.x, a.end.x) * scale,
       y |-> IF DetectGravity(world) /\ dy > 0 THEN dy * gravityFactor ELSE dy]

Moved(world) ==
  LET d == Displacement(world)
  IN  [x |-> IF flipH THEN parentX - d.x ELSE parentX + d.x,
       y |-> parentY + d.y]

-----------------------------------------------------------------------------
(* Choosing the next animation; 0 stands for "no transition" *)

Matches(only, ctx) ==
  \/ only \in {"", "none"}
  \/ only \in {"floor", "taskbar"}      /\ "floor" \in ctx
  \/ only \in {"ceiling", "horizontal"} /\ "ceiling" \in ctx
  \/ only \in {"walls", "vertical"}     /\ ctx \cap {"left", "right"} # {}
  \/ only = "horizontal+"               /\ ctx \cap {"ceiling", "floor"} # {}

WeightedPick(candidates) ==
  LET eligible == {n \in candidates : n.weight > 0}
  IN  IF eligible = {} THEN {0} ELSE {n.id : n \in eligible}

MovingIntoBorder(ctx, d) ==
  LET effX == IF flipH THEN -d.x ELSE d.x
  IN  \/ "floor" \in ctx   /\ d.y > 0
      \/ "ceiling" \in ctx /\ d.y < 0
      \/ "left" \in ctx    /\ effX < 0
      \/ "right" \in ctx   /\ effX > 0

BorderPicks(ctx, d) ==
  WeightedPick({n \in Anim[currentAnim].borderNext :
                  /\ Matches(n.only, ctx)
                  /\ n.only \in {"", "none"} => MovingIntoBorder(ctx, d)})

\* A finished sequence whose candidates all fail replays the same animation.
SequencePicks(ctx) ==
  LET a == Anim[currentAnim]
  IN  {IF id = 0 /\ a.sequenceNext # {} THEN currentAnim ELSE id :
         id \in WeightedPick({n \in a.sequenceNext : Matches(n.only, ctx)})}

\* The gravity list of an animation, else the animation named "fall".
GravityPicks(id) ==
  {IF pick > 0 THEN pick ELSE FallAnim :
     pick \in IF id \in AnimId THEN WeightedPick(Anim[id].gravityNext) ELSE {0}}

-----------------------------------------------------------------------------
(* Loading an animation *)

\* animRepeatFrom is a function of the loaded animation.
AnimRepeatFrom(id) ==
  IF id \notin AnimId \/ Anim[id].repeatFrom >= Anim[id].frames THEN 0
  ELSE Anim[id].repeatFrom

TotalSteps(id) ==
  {Anim[id].frames * (IF r <= 0 THEN 1 ELSE r) : r \in Anim[id].repeat}

\* Mutant of LoadAnimation: takes an id the pet does not define for loaded.
LoadUndefined(id, border, gravity) ==
  /\ loaded' = id
  /\ animTotalSteps' \in IF id \in AnimId THEN TotalSteps(id) ELSE {animTotalSteps}
  /\ borderTriggered' = FALSE
  /\ gravityTriggered' = FALSE

\* Mutant of LoadAnimation: forgets to lower the gravity flag.
LoadKeepsGravityFlag(id, border, gravity) ==
  /\ IF id \in AnimId
     THEN loaded' = id /\ animTotalSteps' \in TotalSteps(id) /\ borderTriggered' = FALSE
     ELSE UNCHANGED <<loaded, animTotalSteps>> /\ borderTriggered' = border
  /\ gravityTriggered' = gravity

\* loadAnimation keeps everything when the animation is not defined; the
\* parameters are the trigger flags at the call.
LoadAnimation(id, border, gravity) ==
  \/ /\ id \in AnimId
     /\ loaded' = id
     /\ animTotalSteps' \in TotalSteps(id)
     /\ borderTriggered' = FALSE
     /\ gravityTriggered' = FALSE
  \/ /\ id \notin AnimId
     /\ borderTriggered' = border
     /\ gravityTriggered' = gravity
     /\ UNCHANGED <<loaded, animTotalSteps>>

\* Mutant of TransitionTo: leaves the step counter of the old animation.
TransitionKeepsSteps(id, border, gravity) ==
  /\ currentAnim' = id
  /\ frameIdx' = 0
  /\ UNCHANGED totalStepsDone
  /\ LoadAnimation(id, border, gravity)

TransitionTo(id, border, gravity) ==
  /\ currentAnim' = id
  /\ frameIdx' = 0
  /\ totalStepsDone' = 0
  /\ LoadAnimation(id, border, gravity)

-----------------------------------------------------------------------------
(* Actions *)

\* NewEngine: idle, nothing loaded.  AddPet tunes it before Start.
Init ==
  /\ state = "idle"
  /\ currentAnim = 0 /\ loaded = 0 /\ animTotalSteps = 0
  /\ frameIdx = 0 /\ totalStepsDone = 0
  /\ borderTriggered = FALSE /\ gravityTriggered = FALSE
  /\ flipH = FALSE /\ parentX = 0 /\ parentY = 0
  /\ scale \in Scales /\ gravityFactor \in GravityFactors
  /\ answer = "none"

\* Start: where a pet spawns in mid-air, the animation its spawn point names is
\* loaded and then replaced by a falling one, unless it is that one already.
Start(spawn, world) ==
  LET petBottom == spawn.y + PetH
      airborne  == /\ world.workArea.w # 0
                   /\ petBottom < Bottom(world.workArea) - Tolerance
      first     == spawn.next
      listed    == IF first \in AnimId THEN WeightedPick(Anim[first].gravityNext)
                   ELSE {0}
  IN
  /\ state = "idle"
  /\ state' = "animating"
  /\ parentX' = spawn.x /\ parentY' = spawn.y /\ flipH' = FALSE
  /\ frameIdx' = 0 /\ totalStepsDone' = 0
  /\ borderTriggered' = FALSE /\ gravityTriggered' = FALSE
  /\ \E pick \in listed :
       currentAnim' = IF ~airborne THEN first
                      ELSE IF pick > 0 THEN pick
                      ELSE IF FallAnim > 0 THEN FallAnim ELSE first
  /\ loaded' = IF currentAnim' \in AnimId THEN currentAnim'
               ELSE IF first \in AnimId THEN first ELSE loaded
  /\ IF loaded' \in AnimId THEN animTotalSteps' \in TotalSteps(loaded')
     ELSE UNCHANGED animTotalSteps
  /\ UNCHANGED <<tuning, answer>>

\* Step gives no frame to an idle pet, for an animation that is not defined, or
\* for one without frames; StepPet turns each of these into a null state.
HasFrame ==
  /\ state # "idle"
  /\ currentAnim \in AnimId
  /\ loaded \in AnimId /\ Anim[loaded].frames > 0

\* The frame cursor after the out-of-range reset at the head of Step.
Cursor ==
  IF frameIdx < 0 \/ frameIdx >= Anim[loaded].frames THEN 0 ELSE frameIdx

StepNull ==
  /\ ~HasFrame
  /\ answer' = "null"
  /\ UNCHANGED <<state, cursor, triggers, pose, tuning>>

MoveTo(px, py) ==
  /\ px \in Coord /\ py \in Coord
  /\ parentX' = px /\ parentY' = py

\* While dragged the pet animates and drifts, but neither snaps nor transitions.
StepDragged(world) ==
  LET m    == Moved(world)
      wrap == Cursor + 1 >= Anim[loaded].frames
  IN
  /\ HasFrame /\ state = "dragging"
  /\ MoveTo(m.x, m.y)
  /\ frameIdx' = IF wrap THEN AnimRepeatFrom(loaded) ELSE Cursor + 1
  /\ totalStepsDone' = IF wrap /\ totalStepsDone + 1 >= animTotalSteps THEN 0
                       ELSE totalStepsDone + 1
  /\ answer' = "frame"
  /\ UNCHANGED <<state, currentAnim, loaded, animTotalSteps, triggers, flipH, tuning>>

\* The part every step of a pet that is not dragged begins with.
Border(world) == DetectBorder(world, Moved(world).x, Moved(world).y)

Glide(world) ==
  LET ctx == Border(world)
  IN
  /\ HasFrame /\ state # "dragging"
  /\ MoveTo(SnapX(world, ctx, Moved(world).x), SnapY(world, ctx, Moved(world).y))
  /\ answer' = "frame"
  /\ UNCHANGED <<state, tuning>>

MayFall(world) == DetectGravity(world) /\ ~gravityTriggered

StepGravity(world) ==
  /\ Glide(world)
  /\ MayFall(world)
  /\ \E id \in GravityPicks(currentAnim) :
       id > 0 /\ TransitionTo(id, borderTriggered, TRUE)
  /\ UNCHANGED flipH

PassedGravity(world) == MayFall(world) => \E id \in GravityPicks(currentAnim) : id <= 0

MayHitBorder(world) == Border(world) # {} /\ ~borderTriggered

StepBorder(world) ==
  /\ Glide(world)
  /\ PassedGravity(world)
  /\ MayHitBorder(world)
  /\ \E id \in BorderPicks(Border(world), Displacement(world)) :
       id > 0 /\ TransitionTo(id, TRUE, gravityTriggered)
  /\ UNCHANGED flipH

PassedBorder(world) ==
  MayHitBorder(world) =>
    \E id \in BorderPicks(Border(world), Displacement(world)) : id <= 0

Wraps == Cursor + 1 >= Anim[loaded].frames
Finishes == Wraps /\ totalStepsDone + 1 >= animTotalSteps

StepAdvance(world) ==
  /\ Glide(world)
  /\ PassedGravity(world) /\ PassedBorder(world)
  /\ ~Finishes
  /\ frameIdx' = IF Wraps THEN AnimRepeatFrom(loaded) ELSE Cursor + 1
  /\ totalStepsDone' = totalStepsDone + 1
  /\ UNCHANGED <<currentAnim, loaded, animTotalSteps, triggers, flipH>>

StepSequence(world) ==
  /\ Glide(world)
  /\ PassedGravity(world) /\ PassedBorder(world)
  /\ Finishes
  /\ \E id \in SequencePicks(Border(world)) :
       \/ /\ id > 0
          /\ flipH' = IF Anim[currentAnim].action = "flip" THEN ~flipH ELSE flipH
          /\ TransitionTo(id, borderTriggered, gravityTriggered)
       \/ /\ id <= 0
          /\ frameIdx' = AnimRepeatFrom(loaded)
          /\ totalStepsDone' = 0
          /\ UNCHANGED <<currentAnim, loaded, animTotalSteps, triggers, flipH>>

StepPet(world) ==
  \/ StepNull
  \/ StepDragged(world)
  \/ StepGravity(world) \/ StepBorder(world)
  \/ StepAdvance(world) \/ StepSequence(world)

\* Mutant of DragPet: names the drag animation without loading its frames.
DragWithoutLoading(pos) ==
  /\ state' = "dragging"
  /\ IF DragAnim <= 0 \/ currentAnim = DragAnim
     THEN UNCHANGED cursor
     ELSE /\ currentAnim' = DragAnim /\ frameIdx' = 0 /\ totalStepsDone' = 0
          /\ UNCHANGED <<loaded, animTotalSteps>>
  /\ parentX' = pos[1] /\ parentY' = pos[2]
  /\ UNCHANGED <<triggers, flipH, tuning, answer>>

\* SetDrag keeps a running drag animation, and any animation when none is named
\* "drag"; DragPet then moves the pet to the position the app sent.
DragPet(pos) ==
  /\ state' = "dragging"
  /\ IF DragAnim <= 0 \/ currentAnim = DragAnim
     THEN UNCHANGED <<cursor, triggers>>
     ELSE TransitionTo(DragAnim, borderTriggered, gravityTriggered)
  /\ parentX' = pos[1] /\ parentY' = pos[2]
  /\ UNCHANGED <<flipH, tuning, answer>>

\* SetFall takes the id of "fall" even when there is none.
DropPet ==
  /\ state' = "falling"
  /\ currentAnim' = FallAnim
  /\ IF FallAnim > 0
     THEN TransitionTo(FallAnim, borderTriggered, gravityTriggered)
     ELSE UNCHANGED <<loaded, animTotalSteps, frameIdx, totalStepsDone, triggers>>
  /\ UNCHANGED <<pose, tuning, answer>>

SetPosition(pos) ==
  /\ parentX' = pos[1] /\ parentY' = pos[2]
  /\ UNCHANGED <<state, cursor, triggers, flipH, tuning, answer>>

SetScale(s) ==
  /\ scale' = s
  /\ UNCHANGED <<state, cursor, triggers, pose, gravityFactor, answer>>

SetGravityFactor(g) ==
  /\ gravityFactor' = g
  /\ UNCHANGED <<state, cursor, triggers, pose, scale, answer>>

\* AddPet runs NewEngine and Start under the mutex, so no other call meets an
\* engine that has yet to start; a pet without spawn points never starts.
Registered == state # "idle" \/ Spawns = {}

Steps == Registered /\ \E world \in Worlds : StepPet(world)

Handled ==
  /\ Registered
  /\ \/ \E pos \in SentPositions : DragPet(pos) \/ SetPosition(pos)
     \/ DropPet
     \/ \E s \in Scales : SetScale(s)
     \/ \E g \in GravityFactors : SetGravityFactor(g)

Next ==
  \/ \E spawn \in Spawns, world \in Worlds : Start(spawn, world)
  \/ Steps
  \/ Handled

\* The app keeps one step loop per pet running, so step_pet keeps coming.
Spec == Init /\ [][Next]_vars
FairSpec == Spec /\ WF_vars(\E spawn \in Spawns, world \in Worlds : Start(spawn, world))
                 /\ WF_vars(Steps)

-----------------------------------------------------------------------------
(* Properties *)

TypeOK ==
  /\ state \in {"idle", "animating", "dragging", "falling"}
  /\ currentAnim \in Int
  /\ loaded \in AnimId \cup {0}
  /\ animTotalSteps \in Nat
  /\ frameIdx \in Int
  /\ totalStepsDone \in Nat
  /\ borderTriggered \in BOOLEAN /\ gravityTriggered \in BOOLEAN
  /\ flipH \in BOOLEAN
  /\ parentX \in Int /\ parentY \in Int
  /\ scale \in Scales
  /\ gravityFactor \in GravityFactors
  /\ answer \in {"none", "frame", "null"}

\* A pet never moves by one animation while it shows the frames of another:
\* whenever the current animation is defined, its frames are the loaded ones,
\* although SetFall and transitions to undefined ids leave stale frames behind.
LoadedIsCurrent == currentAnim \in AnimId => loaded = currentAnim

\* The step counter that drives interpolation and the end of the sequence
\* overruns its total by less than one pass of the loop, whatever drags, drops
\* and interrupted transitions come in between: a sequence cannot run away.
SequenceOverrunBounded ==
  loaded \in AnimId /\ Anim[loaded].frames > 0 =>
    totalStepsDone < animTotalSteps + Anim[loaded].frames - AnimRepeatFrom(loaded)

\* The trigger-once flags are up only while the pet has no animation to play
\* (the transition they guarded led to an id the pet does not define), so under
\* StepPet they never suppress a transition of an animation that plays.
TriggersOnlyWithoutAnimation ==
  borderTriggered \/ gravityTriggered => currentAnim \notin AnimId

Fits(world) ==
  /\ ScreenOf(world).w # 0
  /\ PetW <= ScreenOf(world).w
  /\ ScreenOf(world).y + PetH <= Bottom(FloorOf(world))

OnScreen(world) ==
  /\ ScreenOf(world).x <= parentX /\ parentX + PetW <= Right(ScreenOf(world))
  /\ ScreenOf(world).y <= parentY /\ parentY + PetH <= Bottom(FloorOf(world))

\* A step of a pet that is not being dragged leaves it on the screen and above
\* the floor, from wherever a drag, a spawn point or a change of scale left it.
StepKeepsPetOnScreen ==
  [][\A world \in Worlds :
       StepPet(world) /\ HasFrame /\ state # "dragging" /\ Fits(world)
         => OnScreen(world)']_vars

Landed == \E world \in Worlds : "floor" \in DetectBorder(world, parentX, parentY)

\* A pet the user leaves alone comes down: from some point on without a drag, a
\* drop or a change of settings, it is on the floor again and again.
LeftAlonePetLands ==
  <>[][~Handled]_vars => []<>(Landed \/ state \in {"dragging", "idle"})

-----------------------------------------------------------------------------
(* What the documentation says and the engine does not do *)

\* animation-engine.md: start and end movement are interpolated over the course
\* of the animation.  So a step of the fall of an airborne pet, which nothing
\* interrupts, moves on in the fall.
FallProgresses ==
  [][\A world \in Worlds :
       StepPet(world) /\ HasFrame /\ state # "dragging"
         /\ currentAnim = FallAnim /\ currentAnim' = FallAnim
         /\ DetectGravity(world) /\ ~Finishes
         => totalStepsDone' = totalStepsDone + 1]_vars
=============================================================================
