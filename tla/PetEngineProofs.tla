--------------------------- MODULE PetEngineProofs ---------------------------
(***************************************************************************)
(* Theorems about PetEngine, for every pet definition, screen and setting.  *)
(***************************************************************************)
EXTENDS PetEngine, TLAPS

\* The cursor runs at most one pass ahead of the wrap that checks the total:
\* what SequenceOverrunBounded needs to be inductive.
CursorBehind ==
  loaded \in AnimId /\ Anim[loaded].frames > 0 =>
    /\ frameIdx < Anim[loaded].frames
    /\ Anim[loaded].frames <= animTotalSteps
    /\ totalStepsDone - frameIdx <= animTotalSteps - 1 - AnimRepeatFrom(loaded)

IInv == /\ TypeOK
        /\ LoadedIsCurrent
        /\ TriggersOnlyWithoutAnimation
        /\ CursorBehind

-----------------------------------------------------------------------------
(* What the operators return *)

\* The record of an animation has the fields the engine reads.
LEMMA AnimFields ==
  ASSUME NEW id \in AnimId
  PROVE  /\ Anim[id].frames \in Nat
         /\ Anim[id].repeatFrom \in Int
         /\ Anim[id].repeat \subseteq Int
         /\ Anim[id].gravityNext \subseteq NextAnimation
         /\ Anim[id].borderNext \subseteq NextAnimation
         /\ Anim[id].sequenceNext \subseteq NextAnimation
         /\ Anim[id].start \in Movement /\ Anim[id].end \in Movement
         /\ id \in Int /\ id > 0
<1>1. Anim[id] \in Animation
  BY AnimsDefined
<1>2. id \in Nat /\ id # 0
  BY AnimIdsPositive
<1>3. /\ Anim[id].frames \in Nat /\ Anim[id].repeatFrom \in Int
      /\ Anim[id].repeat \in SUBSET Int
      /\ Anim[id].start \in Movement /\ Anim[id].end \in Movement
  BY <1>1 DEF Animation
<1>4. /\ Anim[id].gravityNext \in SUBSET NextAnimation
      /\ Anim[id].borderNext \in SUBSET NextAnimation
      /\ Anim[id].sequenceNext \in SUBSET NextAnimation
  BY <1>1 DEF Animation
<1> QED BY <1>2, <1>3, <1>4

\* The frame a loop returns to is a frame of the animation, or before it.
LEMMA RepeatFromInRange ==
  ASSUME NEW id \in AnimId, Anim[id].frames > 0
  PROVE  AnimRepeatFrom(id) \in Int /\ AnimRepeatFrom(id) < Anim[id].frames
  BY AnimFields DEF AnimRepeatFrom

\* However repeat evaluates, a sequence is at least one pass long.
LEMMA TotalCoversAPass ==
  ASSUME NEW id \in AnimId, NEW total \in TotalSteps(id)
  PROVE  total \in Nat /\ Anim[id].frames <= total
<1> DEFINE f == Anim[id].frames
<1>1. \A r \in Nat : r >= 1 => f * r \in Nat /\ f <= f * r
  BY AnimFields
<1>2. PICK r \in Anim[id].repeat : total = f * (IF r <= 0 THEN 1 ELSE r)
  BY DEF TotalSteps
<1>3. r \in Int
  BY <1>2, AnimFields
<1>4. (IF r <= 0 THEN 1 ELSE r) \in Nat /\ (IF r <= 0 THEN 1 ELSE r) >= 1
  BY <1>3
<1> QED BY <1>1, <1>2, <1>4

\* A weighted pick returns the id of a candidate, or 0.
LEMMA PickIsId ==
  ASSUME NEW S, S \subseteq NextAnimation
  PROVE  WeightedPick(S) \subseteq Int
  BY DEF WeightedPick, NextAnimation

\* The named animations have ids of the pet, or none.
LEMMA NamedAnimIds == FallAnim \in AnimId \cup {0} /\ FallAnim \in Int
                   /\ DragAnim \in AnimId \cup {0} /\ DragAnim \in Int
<1>1. FallAnim \in AnimId \cup {0} /\ DragAnim \in AnimId \cup {0}
  BY NamedAnims
<1>2. \A id \in AnimId \cup {0} : id \in Int
  BY AnimIdsPositive
<1> QED BY <1>1, <1>2

\* Every transition the engine may choose is an integer id.
LEMMA PicksAreIds ==
  ASSUME TypeOK, HasFrame, NEW ctx, NEW d
  PROVE  /\ GravityPicks(currentAnim) \subseteq Int
         /\ BorderPicks(ctx, d) \subseteq Int
         /\ SequencePicks(ctx) \subseteq Int
<1> USE DEF HasFrame
<1>1. FallAnim \in Int
  BY NamedAnimIds
<1>2. WeightedPick(Anim[currentAnim].gravityNext) \subseteq Int
  BY AnimFields, PickIsId
<1>3. GravityPicks(currentAnim) \subseteq Int
  BY <1>1, <1>2 DEF GravityPicks
<1>4. BorderPicks(ctx, d) \subseteq Int
  BY AnimFields, PickIsId DEF BorderPicks
<1>5. \A S : S \subseteq Anim[currentAnim].sequenceNext => WeightedPick(S) \subseteq Int
  BY AnimFields, PickIsId
<1>6. SequencePicks(ctx) \subseteq Int
  BY <1>5, AnimFields DEF SequencePicks, TypeOK
<1> QED BY <1>3, <1>4, <1>6

\* Entering an animation, defined or not, preserves the invariant's parts about
\* the cursor and the triggers.
LEMMA EnterPreserves ==
  ASSUME IInv, NEW id \in Int, NEW b \in BOOLEAN, NEW g \in BOOLEAN,
         TransitionTo(id, b, g)
  PROVE  /\ currentAnim' \in Int /\ loaded' \in AnimId \cup {0}
         /\ animTotalSteps' \in Nat /\ frameIdx' \in Int /\ totalStepsDone' \in Nat
         /\ borderTriggered' \in BOOLEAN /\ gravityTriggered' \in BOOLEAN
         /\ LoadedIsCurrent' /\ TriggersOnlyWithoutAnimation' /\ CursorBehind'
<1> USE DEF TransitionTo, LoadAnimation, IInv, TypeOK
<1>1. CASE id \in AnimId
  <2>1. animTotalSteps' \in Nat /\ Anim[id].frames <= animTotalSteps'
    BY <1>1, TotalCoversAPass, AnimFields
  <2>2. /\ currentAnim' = id /\ loaded' = id
        /\ frameIdx' = 0 /\ totalStepsDone' = 0
        /\ borderTriggered' = FALSE /\ gravityTriggered' = FALSE
    BY <1>1
  <2>3. CursorBehind'
    BY <1>1, <2>1, <2>2, RepeatFromInRange, AnimFields DEF CursorBehind, AnimRepeatFrom
  <2>4. LoadedIsCurrent' /\ TriggersOnlyWithoutAnimation'
    BY <2>2 DEF LoadedIsCurrent, TriggersOnlyWithoutAnimation
  <2>5. borderTriggered' \in BOOLEAN /\ gravityTriggered' \in BOOLEAN
    BY <2>2
  <2>6. /\ currentAnim' \in Int /\ loaded' \in AnimId \cup {0}
        /\ frameIdx' \in Int /\ totalStepsDone' \in Nat
    BY <1>1, <2>2
  <2> QED
    BY <2>1, <2>3, <2>4, <2>5, <2>6
<1>2. CASE id \notin AnimId
  <2>1. CursorBehind'
    BY <1>2, RepeatFromInRange, AnimFields DEF CursorBehind, AnimRepeatFrom
  <2> QED
    BY <1>2, <2>1 DEF LoadedIsCurrent, TriggersOnlyWithoutAnimation
<1> QED BY <1>1, <1>2

-----------------------------------------------------------------------------
(* The invariant *)

\* Nothing but the cursor, the triggers and what TypeOK says of the rest matters
\* to the invariant.
LEMMA SameCursorPreserves ==
  ASSUME IInv, UNCHANGED <<cursor, triggers>>
  PROVE  LoadedIsCurrent' /\ TriggersOnlyWithoutAnimation' /\ CursorBehind'
  BY DEF IInv, cursor, triggers, LoadedIsCurrent, TriggersOnlyWithoutAnimation,
         CursorBehind, AnimRepeatFrom

\* An engine is created with nothing loaded.
LEMMA InitHolds == Init => IInv
<1> SUFFICES ASSUME Init PROVE IInv
  OBVIOUS
<1>1. loaded \notin AnimId /\ currentAnim \notin AnimId
  BY AnimIdsPositive DEF Init
<1>2. TypeOK
  <2>1. /\ state \in {"idle", "animating", "dragging", "falling"}
        /\ answer \in {"none", "frame", "null"}
    BY DEF Init
  <2>2. currentAnim \in Int /\ loaded \in AnimId \cup {0} /\ animTotalSteps \in Nat
        /\ frameIdx \in Int /\ totalStepsDone \in Nat /\ parentX \in Int /\ parentY \in Int
    BY DEF Init
  <2>3. borderTriggered \in BOOLEAN /\ gravityTriggered \in BOOLEAN /\ flipH \in BOOLEAN
    BY DEF Init
  <2> QED BY <2>1, <2>2, <2>3 DEF Init, TypeOK
<1> QED
  BY <1>1, <1>2 DEF Init, IInv, LoadedIsCurrent, TriggersOnlyWithoutAnimation, CursorBehind

\* Start loads the animation of the spawn point, or the fall that replaces it.
LEMMA StartPreserves ==
  ASSUME IInv, NEW spawn \in Spawns, NEW world \in Worlds, Start(spawn, world)
  PROVE  IInv'
<1> USE DEF Start, tuning
<1>1. spawn.x \in Coord /\ spawn.y \in Coord /\ spawn.next \in Int
  BY SpawnsDefined
<1>2. currentAnim' \in Int
  <2> DEFINE listed == IF spawn.next \in AnimId
                       THEN WeightedPick(Anim[spawn.next].gravityNext) ELSE {0}
  <2>1. listed \subseteq Int
    BY AnimFields, PickIsId
  <2>2. FallAnim \in Int
    BY NamedAnimIds
  <2>3. \E pick \in listed : currentAnim' \in {spawn.next, pick, FallAnim}
    OBVIOUS
  <2> QED BY <1>1, <2>1, <2>2, <2>3
<1>3. /\ loaded' \in AnimId \cup {0}
      /\ currentAnim' \in AnimId => loaded' = currentAnim'
  BY DEF IInv, TypeOK
<1>4. frameIdx' = 0 /\ totalStepsDone' = 0
  OBVIOUS
<1>5. /\ animTotalSteps' \in Nat
      /\ loaded' \in AnimId => Anim[loaded'].frames <= animTotalSteps'
  BY TotalCoversAPass DEF IInv, TypeOK
<1>6. CursorBehind'
  BY <1>3, <1>4, <1>5, RepeatFromInRange, AnimFields DEF CursorBehind, AnimRepeatFrom
<1>7. borderTriggered' = FALSE /\ gravityTriggered' = FALSE /\ flipH' = FALSE
  OBVIOUS
<1>8. parentX' \in Int /\ parentY' \in Int
  BY <1>1, CoordIsInt
<1>9. /\ state' \in {"idle", "animating", "dragging", "falling"}
      /\ scale' \in Scales /\ gravityFactor' \in GravityFactors
      /\ answer' \in {"none", "frame", "null"}
  BY DEF IInv, TypeOK
<1>10. /\ borderTriggered' \in BOOLEAN /\ gravityTriggered' \in BOOLEAN
       /\ flipH' \in BOOLEAN
  BY <1>7
<1>11. TypeOK'
  BY <1>2, <1>3, <1>4, <1>5, <1>8, <1>9, <1>10 DEF TypeOK
<1> QED
  BY <1>3, <1>6, <1>7, <1>11 DEF IInv, LoadedIsCurrent, TriggersOnlyWithoutAnimation

\* The frame cursor of a step is a frame of the loaded animation.
LEMMA CursorInRange ==
  ASSUME IInv, HasFrame
  PROVE  /\ Cursor \in Nat /\ Cursor < Anim[loaded].frames
         /\ loaded \in AnimId /\ Anim[loaded].frames \in Nat
         /\ totalStepsDone - Cursor <= animTotalSteps - 1 - AnimRepeatFrom(loaded)
         /\ AnimRepeatFrom(loaded) \in Int
         /\ AnimRepeatFrom(loaded) < Anim[loaded].frames
         /\ Anim[loaded].frames <= animTotalSteps
  BY RepeatFromInRange, AnimFields
  DEF HasFrame, IInv, TypeOK, CursorBehind, Cursor

\* Moving the cursor on, around the loop, or back to the start of the sequence
\* keeps it behind.
LEMMA AdvancePreserves ==
  ASSUME IInv, HasFrame, UNCHANGED <<currentAnim, loaded, animTotalSteps, triggers>>,
         \/ /\ Cursor + 1 < Anim[loaded].frames
            /\ frameIdx' = Cursor + 1 /\ totalStepsDone' = totalStepsDone + 1
         \/ /\ frameIdx' = AnimRepeatFrom(loaded)
            /\ totalStepsDone' = totalStepsDone + 1
            /\ totalStepsDone + 1 < animTotalSteps
         \/ frameIdx' = AnimRepeatFrom(loaded) /\ totalStepsDone' = 0
  PROVE  /\ frameIdx' \in Int /\ totalStepsDone' \in Nat
         /\ LoadedIsCurrent' /\ TriggersOnlyWithoutAnimation' /\ CursorBehind'
<1>1. frameIdx' \in Int /\ totalStepsDone' \in Nat
  BY CursorInRange DEF IInv, TypeOK
<1>2. AnimRepeatFrom(loaded)' = AnimRepeatFrom(loaded)
  BY DEF AnimRepeatFrom
<1>3. CursorBehind'
  BY <1>2, CursorInRange DEF IInv, TypeOK, CursorBehind
<1>4. LoadedIsCurrent' /\ TriggersOnlyWithoutAnimation'
  BY DEF IInv, LoadedIsCurrent, TriggersOnlyWithoutAnimation, triggers
<1> QED BY <1>1, <1>3, <1>4

-----------------------------------------------------------------------------
(* One lemma per kind of step *)

\* A dragged step only moves the pet and its cursor.
LEMMA StepDraggedPreserves ==
  ASSUME IInv, NEW world \in Worlds, StepDragged(world)
  PROVE  IInv'
<1> USE DEF StepDragged
<1>1. /\ frameIdx' \in Int /\ totalStepsDone' \in Nat
      /\ LoadedIsCurrent' /\ TriggersOnlyWithoutAnimation' /\ CursorBehind'
  <2>1. CASE Cursor + 1 >= Anim[loaded].frames
    <3>1. CASE totalStepsDone + 1 >= animTotalSteps
      BY <2>1, <3>1, AdvancePreserves
    <3>2. CASE ~(totalStepsDone + 1 >= animTotalSteps)
      BY <2>1, <3>2, AdvancePreserves DEF IInv, TypeOK
    <3> QED BY <3>1, <3>2
  <2>2. CASE ~(Cursor + 1 >= Anim[loaded].frames)
    <3>1. Cursor + 1 < Anim[loaded].frames
      BY <2>2, CursorInRange
    <3> QED BY <2>2, <3>1, AdvancePreserves
  <2> QED BY <2>1, <2>2
<1>2. parentX' \in Int /\ parentY' \in Int
  BY CoordIsInt DEF MoveTo
<1>3. TypeOK'
  BY <1>1, <1>2 DEF IInv, TypeOK, triggers, tuning
<1> QED BY <1>1, <1>3 DEF IInv

\* What every step of a pet that is not dragged does to the rest of the state.
LEMMA GlidePreserves ==
  ASSUME IInv, NEW world \in Worlds, Glide(world)
  PROVE  /\ HasFrame /\ state' \in {"idle", "animating", "dragging", "falling"}
         /\ parentX' \in Int /\ parentY' \in Int
         /\ scale' \in Scales /\ gravityFactor' \in GravityFactors
         /\ answer' \in {"none", "frame", "null"}
  BY CoordIsInt DEF IInv, TypeOK, Glide, MoveTo, tuning

\* A gravity transition enters the animation it picked.
LEMMA StepGravityPreserves ==
  ASSUME IInv, NEW world \in Worlds, StepGravity(world)
  PROVE  IInv'
<1>1. Glide(world) /\ UNCHANGED flipH
  BY DEF StepGravity
<1>2. PICK id \in GravityPicks(currentAnim) : TransitionTo(id, borderTriggered, TRUE)
  BY DEF StepGravity
<1>3. id \in Int
  BY <1>1, <1>2, PicksAreIds, GlidePreserves DEF IInv
<1>4. borderTriggered \in BOOLEAN
  BY DEF IInv, TypeOK
<1> QED
  BY <1>1, <1>2, <1>3, <1>4, EnterPreserves, GlidePreserves DEF IInv, TypeOK

\* A border transition enters the animation it picked.
LEMMA StepBorderPreserves ==
  ASSUME IInv, NEW world \in Worlds, StepBorder(world)
  PROVE  IInv'
<1>1. Glide(world) /\ UNCHANGED flipH
  BY DEF StepBorder
<1>2. PICK id \in BorderPicks(Border(world), Displacement(world)) :
        TransitionTo(id, TRUE, gravityTriggered)
  BY DEF StepBorder
<1>3. id \in Int
  BY <1>1, <1>2, PicksAreIds, GlidePreserves DEF IInv
<1>4. gravityTriggered \in BOOLEAN
  BY DEF IInv, TypeOK
<1> QED
  BY <1>1, <1>2, <1>3, <1>4, EnterPreserves, GlidePreserves DEF IInv, TypeOK

\* A step inside the sequence moves the cursor on or around the loop.
LEMMA StepAdvancePreserves ==
  ASSUME IInv, NEW world \in Worlds, StepAdvance(world)
  PROVE  IInv'
<1>1. /\ Glide(world) /\ ~Finishes
      /\ UNCHANGED <<currentAnim, loaded, animTotalSteps, triggers, flipH>>
      /\ frameIdx' = IF Wraps THEN AnimRepeatFrom(loaded) ELSE Cursor + 1
      /\ totalStepsDone' = totalStepsDone + 1
  BY DEF StepAdvance
<1>2. HasFrame
  BY <1>1, GlidePreserves
<1>3. /\ frameIdx' \in Int /\ totalStepsDone' \in Nat
      /\ LoadedIsCurrent' /\ TriggersOnlyWithoutAnimation' /\ CursorBehind'
  <2>1. CASE Wraps
    <3>1. totalStepsDone + 1 < animTotalSteps
      BY <1>1, <2>1 DEF Finishes, IInv, TypeOK
    <3> QED BY <1>1, <1>2, <2>1, <3>1, AdvancePreserves
  <2>2. CASE ~Wraps
    <3>1. Cursor + 1 < Anim[loaded].frames
      BY <1>2, <2>2, CursorInRange DEF Wraps
    <3> QED BY <1>1, <1>2, <2>2, <3>1, AdvancePreserves
  <2> QED BY <2>1, <2>2
<1>4. TypeOK'
  BY <1>1, <1>3, GlidePreserves DEF IInv, TypeOK, triggers
<1> QED BY <1>3, <1>4 DEF IInv

\* The end of a sequence enters the next animation or starts the loop over.
LEMMA StepSequencePreserves ==
  ASSUME IInv, NEW world \in Worlds, StepSequence(world)
  PROVE  IInv'
<1>1. Glide(world)
  BY DEF StepSequence
<1>2. HasFrame
  BY <1>1, GlidePreserves
<1>3. PICK id \in SequencePicks(Border(world)) :
        \/ /\ flipH' = IF Anim[currentAnim].action = "flip" THEN ~flipH ELSE flipH
           /\ TransitionTo(id, borderTriggered, gravityTriggered)
        \/ /\ frameIdx' = AnimRepeatFrom(loaded)
           /\ totalStepsDone' = 0
           /\ UNCHANGED <<currentAnim, loaded, animTotalSteps, triggers, flipH>>
  BY DEF StepSequence
<1>4. id \in Int
  BY <1>2, <1>3, PicksAreIds DEF IInv
<1>5. borderTriggered \in BOOLEAN /\ gravityTriggered \in BOOLEAN /\ flipH \in BOOLEAN
  BY DEF IInv, TypeOK
<1>6. CASE /\ flipH' = IF Anim[currentAnim].action = "flip" THEN ~flipH ELSE flipH
           /\ TransitionTo(id, borderTriggered, gravityTriggered)
  <2>1. flipH' \in BOOLEAN
    BY <1>5, <1>6
  <2> QED
    BY <1>1, <1>4, <1>5, <1>6, <2>1, EnterPreserves, GlidePreserves DEF IInv, TypeOK
<1>7. CASE /\ frameIdx' = AnimRepeatFrom(loaded)
           /\ totalStepsDone' = 0
           /\ UNCHANGED <<currentAnim, loaded, animTotalSteps, triggers, flipH>>
  <2>1. /\ frameIdx' \in Int /\ totalStepsDone' \in Nat
        /\ LoadedIsCurrent' /\ TriggersOnlyWithoutAnimation' /\ CursorBehind'
    BY <1>2, <1>7, AdvancePreserves
  <2>2. TypeOK'
    BY <1>1, <1>7, <2>1, GlidePreserves DEF IInv, TypeOK, triggers
  <2> QED BY <2>1, <2>2 DEF IInv
<1> QED BY <1>3, <1>6, <1>7

\* A drag keeps the cursor or enters the drag animation; only the position and
\* the state change besides.
LEMMA DragPetPreserves ==
  ASSUME IInv, NEW pos \in SentPositions, DragPet(pos)
  PROVE  IInv'
<1>1. /\ state' = "dragging" /\ UNCHANGED <<flipH, tuning, answer>>
      /\ parentX' = pos[1] /\ parentY' = pos[2]
      /\ UNCHANGED <<cursor, triggers>>
           \/ TransitionTo(DragAnim, borderTriggered, gravityTriggered)
  BY DEF DragPet
<1>2. parentX' \in Int /\ parentY' \in Int
  BY <1>1, SentPositionsDefined, CoordIsInt
<1>3. borderTriggered \in BOOLEAN /\ gravityTriggered \in BOOLEAN
  BY DEF IInv, TypeOK
<1>4. CASE UNCHANGED <<cursor, triggers>>
  BY <1>1, <1>2, <1>4, SameCursorPreserves DEF IInv, TypeOK, cursor, triggers, tuning
<1>5. CASE TransitionTo(DragAnim, borderTriggered, gravityTriggered)
  BY <1>1, <1>2, <1>3, <1>5, NamedAnimIds, EnterPreserves DEF IInv, TypeOK, tuning
<1> QED BY <1>1, <1>4, <1>5

\* A drop enters the fall animation, or leaves the pet without one.
LEMMA DropPetPreserves ==
  ASSUME IInv, DropPet
  PROVE  IInv'
<1>1. /\ state' = "falling" /\ UNCHANGED <<pose, tuning, answer>>
      /\ currentAnim' = FallAnim
      /\ IF FallAnim > 0
         THEN TransitionTo(FallAnim, borderTriggered, gravityTriggered)
         ELSE UNCHANGED <<loaded, animTotalSteps, frameIdx, totalStepsDone, triggers>>
  BY DEF DropPet
<1>2. borderTriggered \in BOOLEAN /\ gravityTriggered \in BOOLEAN
  BY DEF IInv, TypeOK
<1>3. CASE FallAnim > 0
  BY <1>1, <1>2, <1>3, NamedAnimIds, EnterPreserves DEF IInv, TypeOK, pose, tuning
<1>4. CASE ~(FallAnim > 0)
  <2>1. currentAnim' = 0 /\ currentAnim' \notin AnimId
    BY <1>1, <1>4, NamedAnimIds, AnimIdsPositive
  <2>2. CursorBehind'
    BY <1>1, <1>4 DEF IInv, CursorBehind, AnimRepeatFrom
  <2> QED
    BY <1>1, <1>4, <2>1, <2>2
    DEF IInv, TypeOK, LoadedIsCurrent, TriggersOnlyWithoutAnimation, triggers, pose, tuning
<1> QED BY <1>3, <1>4

\* Every step of the specification preserves the invariant.
LEMMA NextPreserves == IInv /\ [Next]_vars => IInv'
<1> SUFFICES ASSUME IInv, [Next]_vars PROVE IInv'
  OBVIOUS
<1>1. ASSUME NEW spawn \in Spawns, NEW world \in Worlds, Start(spawn, world) PROVE IInv'
  BY <1>1, StartPreserves
<1>2. ASSUME NEW world \in Worlds, StepPet(world) PROVE IInv'
  <2>1. CASE StepNull
    BY <2>1, SameCursorPreserves
    DEF StepNull, IInv, TypeOK, cursor, triggers, pose, tuning
  <2> QED
    BY <1>2, <2>1, StepDraggedPreserves, StepGravityPreserves, StepBorderPreserves,
       StepAdvancePreserves, StepSequencePreserves DEF StepPet
<1>3. ASSUME NEW pos \in SentPositions, SetPosition(pos) PROVE IInv'
  <2>1. parentX' \in Int /\ parentY' \in Int
    BY <1>3, SentPositionsDefined, CoordIsInt DEF SetPosition
  <2> QED
    BY <1>3, <2>1, SameCursorPreserves
    DEF SetPosition, IInv, TypeOK, cursor, triggers, tuning
<1>4. ASSUME NEW s \in Scales, SetScale(s) PROVE IInv'
  BY <1>4, SameCursorPreserves DEF SetScale, IInv, TypeOK, cursor, triggers, pose
<1>5. ASSUME NEW g \in GravityFactors, SetGravityFactor(g) PROVE IInv'
  BY <1>5, SameCursorPreserves DEF SetGravityFactor, IInv, TypeOK, cursor, triggers, pose
<1>6. CASE UNCHANGED vars
  BY <1>6, SameCursorPreserves
  DEF vars, IInv, TypeOK, cursor, triggers, pose, tuning
<1>7. CASE Handled
  BY <1>3, <1>4, <1>5, <1>7, DragPetPreserves, DropPetPreserves DEF Handled
<1>8. CASE Steps
  BY <1>2, <1>8 DEF Steps
<1> QED BY <1>1, <1>6, <1>7, <1>8 DEF Next

-----------------------------------------------------------------------------
(* Theorems *)

\* The inductive invariant holds of every reachable state, for every pet.
THEOREM Invariant == Spec => []IInv
<1> QED BY InitHolds, NextPreserves, PTL DEF Spec

\* Every field of the engine keeps its type.
THEOREM TypeCorrect == Spec => []TypeOK
<1>1. IInv => TypeOK
  BY DEF IInv
<1> QED BY <1>1, Invariant, PTL

\* Whatever is dragged, dropped or left undefined, a step that gives a frame
\* takes it from the animation it moves by.
THEOREM FramesMatchMovement == Spec => []LoadedIsCurrent
<1>1. IInv => LoadedIsCurrent
  BY DEF IInv
<1> QED BY <1>1, Invariant, PTL

\* Under StepPet the trigger-once flags never hold a playing animation back.
THEOREM TriggersNeverSuppress == Spec => []TriggersOnlyWithoutAnimation
<1>1. IInv => TriggersOnlyWithoutAnimation
  BY DEF IInv
<1> QED BY <1>1, Invariant, PTL

\* No sequence overruns its total by a whole pass of its loop.
THEOREM SequencesEnd == Spec => []SequenceOverrunBounded
<1>1. IInv => SequenceOverrunBounded
  BY RepeatFromInRange, AnimFields
  DEF IInv, TypeOK, CursorBehind, SequenceOverrunBounded
<1> QED BY <1>1, Invariant, PTL

-----------------------------------------------------------------------------
(* The pet stays on the screen *)

\* The numbers of a geometry.
LEMMA WorldNumbers ==
  ASSUME NEW world \in Worlds
  PROVE  /\ ScreenOf(world).x \in Int /\ ScreenOf(world).y \in Int
         /\ ScreenOf(world).w \in Nat
         /\ Right(ScreenOf(world)) \in Int /\ Bottom(FloorOf(world)) \in Int
<1>1. world \in WorldContext
  BY WorldsDefined
<1>2. world.screen \in Rect /\ world.workArea \in Rect /\ world.desktop \in Rect
  BY <1>1 DEF WorldContext
<1>3. ScreenOf(world) \in Rect /\ FloorOf(world) \in Rect
  BY <1>2 DEF ScreenOf, FloorOf
<1> QED BY <1>3 DEF Rect, Right, Bottom

\* The size of the pet is a number, whatever the scale.
LEMMA PetSize == TypeOK => PetW \in Int /\ PetH \in Int
<1> SUFFICES ASSUME TypeOK PROVE PetW \in Int /\ PetH \in Int
  OBVIOUS
<1>1. FrameW \in Int /\ FrameH \in Int /\ scale \in Int
  BY SizesDefined, ScalesDefined DEF TypeOK
<1> QED BY <1>1 DEF PetW, PetH

\* Snapping puts any position on the screen, if the pet fits on it at all.
LEMMA SnapFits ==
  ASSUME TypeOK, NEW world \in Worlds, Fits(world), NEW px \in Int, NEW py \in Int
  PROVE  LET ctx == DetectBorder(world, px, py)
             sx  == SnapX(world, ctx, px)
             sy  == SnapY(world, ctx, py)
         IN  /\ ScreenOf(world).x <= sx /\ sx + PetW <= Right(ScreenOf(world))
             /\ ScreenOf(world).y <= sy /\ sy + PetH <= Bottom(FloorOf(world))
<1> DEFINE ctx == DetectBorder(world, px, py)
<1>1. /\ "floor" \in ctx <=> py + PetH >= Bottom(FloorOf(world)) - Tolerance
      /\ "ceiling" \in ctx <=> py <= ScreenOf(world).y + Tolerance
      /\ "left" \in ctx <=> px <= ScreenOf(world).x + Tolerance
      /\ "right" \in ctx <=> px + PetW >= Right(ScreenOf(world)) - Tolerance
  BY DEF Fits, DetectBorder, Touches, Edge
<1>2. ScreenOf(world).x + PetW <= Right(ScreenOf(world))
  BY WorldNumbers, PetSize DEF Fits, Right
<1>3. ScreenOf(world).y + PetH <= Bottom(FloorOf(world))
  BY DEF Fits
<1> HIDE DEF ctx
<1>4. /\ ScreenOf(world).y <= SnapY(world, ctx, py)
      /\ SnapY(world, ctx, py) + PetH <= Bottom(FloorOf(world))
  BY <1>1, <1>3, WorldNumbers, PetSize DEF SnapY, Tolerance
<1>5. /\ ScreenOf(world).x <= SnapX(world, ctx, px)
      /\ SnapX(world, ctx, px) + PetW <= Right(ScreenOf(world))
  BY <1>1, <1>2, WorldNumbers, PetSize DEF SnapX, Tolerance
<1> QED BY <1>4, <1>5 DEF ctx

\* Interpolation rounds to the grid.
LEMMA InterpolateInt ==
  ASSUME TypeOK, NEW from \in Int, NEW to \in Int
  PROVE  Interpolate(from, to) \in Int
<1>1. totalStepsDone \in Nat /\ animTotalSteps \in Nat
  BY DEF TypeOK
<1>2. CASE totalStepsDone >= animTotalSteps
  BY <1>2 DEF Interpolate
<1>3. CASE ~(totalStepsDone >= animTotalSteps)
  <2>1. animTotalSteps > 0
    BY <1>1, <1>3
  <2>2. (to - from) * totalStepsDone \in Int
    BY <1>1
  <2>3. ((to - from) * totalStepsDone) \div animTotalSteps \in Int
    BY <1>1, <2>1, <2>2
  <2> QED BY <1>3, <2>3 DEF Interpolate
<1> QED BY <1>2, <1>3

\* A movement leads to a position on the grid.
LEMMA MovedInt ==
  ASSUME TypeOK, HasFrame, NEW world \in Worlds
  PROVE  Moved(world).x \in Int /\ Moved(world).y \in Int
<1> DEFINE a == Anim[currentAnim]
<1>1. a.start.x \in Int /\ a.start.y \in Int /\ a.end.x \in Int /\ a.end.y \in Int
  BY AnimFields DEF HasFrame, Movement
<1>2. scale \in Int /\ gravityFactor \in Int
  BY ScalesDefined, GravityDefined DEF TypeOK
<1>3. Interpolate(a.start.x, a.end.x) \in Int /\ Interpolate(a.start.y, a.end.y) \in Int
  BY <1>1, InterpolateInt
<1>4. /\ Interpolate(a.start.x, a.end.x) * scale \in Int
      /\ Interpolate(a.start.y, a.end.y) * scale \in Int
      /\ Interpolate(a.start.y, a.end.y) * scale * gravityFactor \in Int
  BY <1>2, <1>3
<1>5. Displacement(world).x \in Int /\ Displacement(world).y \in Int
  BY <1>4 DEF Displacement
<1> QED BY <1>5 DEF Moved, TypeOK

\* From wherever the pet is, a step of a pet that is not dragged leaves it on
\* the screen and above the floor.
THEOREM StepsKeepOnScreen == Spec => StepKeepsPetOnScreen
<1>1. ASSUME IInv, NEW world \in Worlds, StepPet(world), HasFrame,
             state # "dragging", Fits(world)
      PROVE  OnScreen(world)'
  <2>1. Glide(world)
    BY <1>1 DEF StepPet, StepNull, StepDragged, StepGravity, StepBorder, StepAdvance,
                StepSequence
  <2>2. TypeOK
    BY <1>1 DEF IInv
  <2> DEFINE m   == Moved(world)
             ctx == DetectBorder(world, m.x, m.y)
  <2>3. m.x \in Int /\ m.y \in Int
    BY <1>1, <2>2, MovedInt
  <2>4. parentX' = SnapX(world, ctx, m.x) /\ parentY' = SnapY(world, ctx, m.y)
    BY <2>1 DEF Glide, MoveTo, Border
  <2>5. UNCHANGED scale
    BY <2>1 DEF Glide, tuning
  <2>6. PetW' = PetW /\ PetH' = PetH
    BY <2>5 DEF PetW, PetH
  <2> HIDE DEF m
  <2>7. /\ ScreenOf(world).x <= parentX' /\ parentX' + PetW <= Right(ScreenOf(world))
        /\ ScreenOf(world).y <= parentY' /\ parentY' + PetH <= Bottom(FloorOf(world))
    BY <1>1, <2>2, <2>3, <2>4, SnapFits
  <2> QED BY <2>6, <2>7 DEF OnScreen
<1>2. IInv /\ [Next]_vars =>
        [\A world \in Worlds :
           StepPet(world) /\ HasFrame /\ state # "dragging" /\ Fits(world)
             => OnScreen(world)']_vars
  BY <1>1
<1> QED BY <1>2, Invariant, PTL DEF Spec, StepKeepsPetOnScreen
=============================================================================
