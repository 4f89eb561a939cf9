--------------------------- MODULE PetDragProofs ---------------------------
(***************************************************************************)
(* Proofs about PetDrag, for every line of cells and every bound: types,    *)
(* the window of a held pet and, until a request is given up, the          *)
(* agreement of the backend with the user and the place a pet falls from.   *)
(***************************************************************************)
EXTENDS PetDrag, SequenceTheorems, TLAPS

\* The handlers' dragging set follows the renderer, and what the pointer holds
\* is a cell.
HoldingAgrees == dragging = held /\ (held => cursor - offset \in Cells)

\* The last command tells whether the pet is held, and where.
LastCommandHolds ==
  IF queue = << >>
  THEN (engine.mode = "dragging" <=> held) /\ (held => engine.at = cursor - offset)
  ELSE /\ queue[Len(queue)].kind = "drag" <=> held
       /\ held => queue[Len(queue)].at = cursor - offset

\* A drop comes right after a drag to the place it is released from.
DropsFollowDrags ==
  \A i \in 1..Len(queue) : queue[i].kind = "drop" =>
    IF i = 1 THEN engine.mode = "dragging" /\ engine.at = queue[1].at
    ELSE queue[i - 1].kind = "drag" /\ queue[i - 1].at = queue[i].at

\* What holds of the channel while every request is answered.
InOrder == late = {} /\ LastCommandHolds /\ DropsFollowDrags

IInv == TypeOK /\ HoldingAgrees /\ (~gaveUp => InOrder)

-----------------------------------------------------------------------------
(* What the operators return *)

\* Wherever a step takes the pet is a cell, and a pet that is held stays.
LEMMA ReachIsCells ==
  ASSUME TypeOK
  PROVE  Reach \subseteq Cells /\ (engine.mode = "dragging" => Reach = {engine.at})
BY DEF Reach, Near, TypeOK, EngineState

\* Carrying out a request keeps the engine's type.
LEMMA ExecuteTypes ==
  ASSUME TypeOK, NEW request \in Command \cup StepRequest, Execute(request)
  PROVE  engine' \in EngineState
<1> USE DEF TypeOK, EngineState, Command, StepRequest
<1>1. CASE request.kind = "drag"
  BY <1>1 DEF Execute
<1>2. CASE request.kind = "drop"
  BY <1>2 DEF Execute
<1>3. CASE request.kind = "step"
  BY <1>3, ReachIsCells DEF Execute
<1> QED BY <1>1, <1>2, <1>3

\* A drag leaves the engine dragging at its position, a drop leaves it where it is.
LEMMA ExecuteCommand ==
  ASSUME TypeOK, NEW command \in Command, Execute(command)
  PROVE  /\ command.kind = "drag" =>
              engine'.mode = "dragging" /\ engine'.at = command.at
         /\ command.kind = "drop" =>
              engine'.mode # "dragging" /\ engine'.at = engine.at
BY DEF Execute, TypeOK, EngineState, Command

\* A queued command becomes the last one and the others keep their places.
LEMMA QueuedAppends ==
  ASSUME TypeOK, NEW command \in Command, Queued(command)
  PROVE  /\ queue' \in Seq(Command) /\ Len(queue') <= MaxQueue
         /\ queue' # << >> /\ Len(queue') = Len(queue) + 1
         /\ Len(queue) \in Nat /\ (queue = << >> <=> Len(queue) = 0)
         /\ queue'[Len(queue')] = command
         /\ \A i \in 1..Len(queue) : queue'[i] = queue[i]
<1>1. queue \in Seq(Command) /\ Len(queue) \in Nat /\ Len(queue) < MaxQueue
  BY LenProperties DEF TypeOK, Queued
<1>2. queue' = Append(queue, command)
  BY DEF Queued
<1>3. /\ queue' \in Seq(Command) /\ Len(queue') = Len(queue) + 1
      /\ queue'[Len(queue) + 1] = command
      /\ \A i \in 1..Len(queue) : queue'[i] = queue[i]
  BY <1>1, <1>2, AppendProperties
<1>4. queue' # << >>
  BY <1>1, <1>3, EmptySeq
<1>5. MaxQueue \in Nat
  BY BoundsAreNumbers
<1> QED BY <1>1, <1>3, <1>4, <1>5, EmptySeq

\* The queue without its head, which is a command.
LEMMA TailShifts ==
  ASSUME TypeOK, queue # << >>, queue' = Tail(queue)
  PROVE  /\ Head(queue) \in Command /\ Head(queue) = queue[1]
         /\ queue' \in Seq(Command) /\ Len(queue') <= MaxQueue
         /\ Len(queue) \in Nat \ {0} /\ Len(queue') = Len(queue) - 1
         /\ (queue' = << >> <=> Len(queue) = 1)
         /\ \A i \in 1..Len(queue') : queue'[i] = queue[i + 1]
<1>1. queue \in Seq(Command) /\ Len(queue) <= MaxQueue /\ MaxQueue \in Nat
  BY BoundsAreNumbers DEF TypeOK
<1>2. Len(queue) \in Nat \ {0}
  BY <1>1, EmptySeq
<1>3. /\ Head(queue) \in Command /\ Tail(queue) \in Seq(Command)
      /\ Len(Tail(queue)) = Len(queue) - 1
      /\ \A i \in 1..Len(Tail(queue)) : Tail(queue)[i] = queue[i + 1]
  BY <1>1, HeadTailProperties
<1>4. Head(queue) = queue[1]
  BY <1>1
<1>5. queue' = << >> <=> Len(queue') = 0
  BY <1>3, EmptySeq
<1> QED BY <1>1, <1>2, <1>3, <1>4, <1>5

-----------------------------------------------------------------------------
(* The queue stays in order *)

\* Appending the drag of a pet that is held, or the drop after it, keeps the
\* queue in order.
LEMMA QueuedInOrder ==
  ASSUME TypeOK, InOrder, NEW command \in Command, Queued(command),
         UNCHANGED <<late, engine>>,
         command.kind = "drag" <=> held',
         held' => command.at = cursor' - offset',
         command.kind = "drop" => held /\ command.at = cursor - offset
  PROVE  InOrder'
<1>1. late' = {}
  BY DEF InOrder
<1>2. LastCommandHolds'
  BY QueuedAppends DEF LastCommandHolds
<1>3. DropsFollowDrags'
  <2> SUFFICES ASSUME NEW i \in 1..Len(queue'), queue'[i].kind = "drop"
               PROVE  IF i = 1 THEN engine.mode = "dragging" /\ engine.at = queue'[1].at
                      ELSE queue'[i - 1].kind = "drag" /\ queue'[i - 1].at = queue'[i].at
    BY DEF DropsFollowDrags
  <2>1. CASE i \in 1..Len(queue)
    <3>1. queue'[i] = queue[i] /\ queue'[1] = queue[1]
          /\ (i # 1 => queue'[i - 1] = queue[i - 1])
      BY <2>1, QueuedAppends
    <3> QED BY <2>1, <3>1 DEF InOrder, DropsFollowDrags
  <2>2. CASE i = Len(queue) + 1
    <3>1. queue'[i] = command /\ held /\ command.at = cursor - offset
      BY <2>2, QueuedAppends
    <3>2. CASE queue = << >>
      BY <2>2, <3>1, <3>2, QueuedAppends DEF InOrder, LastCommandHolds
    <3>3. CASE queue # << >>
      <4>1. Len(queue) \in 1..Len(queue) /\ i # 1 /\ i - 1 = Len(queue)
        BY <2>2, <3>3, QueuedAppends
      <4>2. queue'[i - 1] = queue[Len(queue)]
        BY <4>1, QueuedAppends
      <4> QED BY <3>1, <3>3, <4>1, <4>2 DEF InOrder, LastCommandHolds
    <3> QED BY <3>2, <3>3
  <2> QED BY <2>1, <2>2, QueuedAppends
<1> QED BY <1>1, <1>2, <1>3 DEF InOrder

\* Carrying out the head and sending the next command keeps the queue in order.
LEMMA AnswerInOrder ==
  ASSUME TypeOK, InOrder, CommandAnswer
  PROVE  InOrder'
<1> DEFINE head == queue[1]
<1>1. queue # << >> /\ queue' = Tail(queue) /\ UNCHANGED <<held, cursor, offset, late>>
  BY DEF CommandAnswer, user, entry, given
<1>2. head \in Command /\ Execute(head)
  BY <1>1, TailShifts DEF CommandAnswer
<1>3. /\ head.kind = "drag" => engine'.mode = "dragging" /\ engine'.at = head.at
      /\ head.kind = "drop" => engine'.mode # "dragging" /\ engine'.at = engine.at
      /\ head.kind \in {"drag", "drop"}
  BY <1>2, ExecuteCommand DEF Command
<1>4. LastCommandHolds'
  <2>1. CASE queue' = << >>
    <3>1. Len(queue) = 1
      BY <1>1, <2>1, TailShifts
    <3> QED BY <1>1, <1>3, <2>1, <3>1 DEF InOrder, LastCommandHolds
  <2>2. CASE queue' # << >>
    <3>1. queue'[Len(queue')] = queue[Len(queue)]
      BY <1>1, <2>2, TailShifts
    <3> QED BY <1>1, <2>2, <3>1 DEF InOrder, LastCommandHolds
  <2> QED BY <2>1, <2>2
<1>5. DropsFollowDrags'
  <2> SUFFICES ASSUME NEW i \in 1..Len(queue'), queue'[i].kind = "drop"
               PROVE  IF i = 1 THEN engine'.mode = "dragging" /\ engine'.at = queue'[1].at
                      ELSE queue'[i - 1].kind = "drag" /\ queue'[i - 1].at = queue'[i].at
    BY DEF DropsFollowDrags
  <2>1. /\ i + 1 \in 1..Len(queue) /\ i + 1 # 1 /\ (i + 1) - 1 = i
        /\ queue'[i] = queue[i + 1]
    BY <1>1, TailShifts
  <2>2. queue[i].kind = "drag" /\ queue[i].at = queue'[i].at
    BY <2>1 DEF InOrder, DropsFollowDrags
  <2>3. CASE i = 1
    BY <1>3, <2>2, <2>3
  <2>4. CASE i # 1
    <3>1. i - 1 \in 1..Len(queue') /\ (i - 1) + 1 = i
      BY <1>1, <2>4, TailShifts
    <3>2. queue'[i - 1] = queue[i]
      BY <1>1, <3>1, TailShifts
    <3> QED BY <2>2, <2>4, <3>2
  <2> QED BY <2>3, <2>4
<1> QED BY <1>1, <1>4, <1>5 DEF InOrder

\* A step that leaves a pet being dragged where it is keeps the queue in order.
LEMMA StepInOrder ==
  ASSUME TypeOK, InOrder, NEW q \in Reach, engine' = [engine EXCEPT !.at = q],
         UNCHANGED <<user, offset, channel>>
  PROVE  InOrder'
<1>1. engine'.mode = engine.mode /\ (engine.mode = "dragging" => engine'.at = engine.at)
  BY ReachIsCells DEF TypeOK, EngineState
<1> QED BY <1>1 DEF InOrder, LastCommandHolds, DropsFollowDrags, user, channel, given

-----------------------------------------------------------------------------
(* The invariant *)

\* Before the first grab nothing is queued and the engine is not dragging.
LEMMA InitHolds == Init => IInv
<1> SUFFICES ASSUME Init PROVE IInv
  OBVIOUS
<1>1. queue \in Seq(Command) /\ Len(queue) = 0
  BY EmptySeq DEF Init
<1>2. TypeOK
  <2>1. Len(queue) <= MaxQueue
    BY <1>1, BoundsAreNumbers
  <2>2. engine \in EngineState /\ gaveUp \in BOOLEAN
    BY DEF Init, EngineState
  <2>3. /\ step \in [state : {"timer", "sent", "answered"}, got : Cells \cup {NoFrame}]
        /\ step.state = "timer" => step.got = NoFrame
    BY DEF Init
  <2>4. late \subseteq Command \cup StepRequest
    BY DEF Init
  <2>5. held \in BOOLEAN /\ dragging \in BOOLEAN
    BY Zenon DEF Init
  <2>6. cursor \in Cells /\ cached \in Cells /\ window \in Cells
    BY Zenon DEF Init
  <2>7. offset \in Int
    BY DEF Init
  <2> QED BY <1>1, <2>1, <2>2, <2>3, <2>4, <2>5, <2>6, <2>7 DEF TypeOK
<1>3. HoldingAgrees
  BY DEF Init, HoldingAgrees
<1>4. InOrder
  BY <1>1 DEF Init, InOrder, LastCommandHolds, DropsFollowDrags
<1> QED BY <1>2, <1>3, <1>4 DEF IInv

\* IInv is inductive, action by action.  The pointer moves without a button.
LEMMA HoverPreserves ==
  ASSUME IInv, NEW p \in Cells, Hover(p)
  PROVE  IInv'
<1> USE DEF IInv, Hover, entry, channel, given
<1>1. TypeOK'
  BY DEF TypeOK
<1>2. HoldingAgrees'
  BY DEF HoldingAgrees
<1>3. ASSUME ~gaveUp' PROVE InOrder'
  BY <1>3 DEF InOrder, LastCommandHolds, DropsFollowDrags
<1> QED BY <1>1, <1>2, <1>3

\* A grab sends a drag, which the queue ends with.
LEMMA GrabPreserves ==
  ASSUME IInv, Grab
  PROVE  IInv'
<1> DEFINE command == [kind |-> "drag", at |-> cached]
<1>1. TypeOK /\ command \in Command /\ Queued(command)
  BY DEF IInv, TypeOK, Grab, Command
<1>2. cursor' - offset' = cached
  BY CellsAreInts DEF IInv, TypeOK, Grab
<1>3. TypeOK'
  BY <1>1, QueuedAppends, CellsAreInts DEF IInv, TypeOK, Grab, given
<1>4. HoldingAgrees'
  BY <1>1, <1>2 DEF Grab, HoldingAgrees, TypeOK
<1>5. ASSUME ~gaveUp' PROVE InOrder'
  BY <1>1, <1>2, <1>5, QueuedInOrder DEF IInv, Grab, given
<1> QED BY <1>3, <1>4, <1>5 DEF IInv

\* A move says where the pet is held, and sends another drag.
LEMMA MovePreserves ==
  ASSUME IInv, NEW p \in Cells, Move(p)
  PROVE  IInv'
<1> DEFINE command == [kind |-> "drag", at |-> p - offset]
<1>1. TypeOK /\ command \in Command /\ Queued(command)
  BY DEF IInv, Move, Command
<1>2. TypeOK'
  BY <1>1, QueuedAppends DEF TypeOK, Move, given
<1>3. HoldingAgrees'
  BY DEF Move, HoldingAgrees
<1>4. ASSUME ~gaveUp' PROVE InOrder'
  <2>1. command.kind = "drag" /\ command.at = cursor' - offset' /\ held'
    BY DEF Move
  <2> QED BY <1>1, <1>4, <2>1, QueuedInOrder DEF IInv, Move, given
<1> QED BY <1>2, <1>3, <1>4 DEF IInv

\* A drop follows the drags, and is the last request of the queue.
LEMMA DropPreserves ==
  ASSUME IInv, Drop
  PROVE  IInv'
<1> DEFINE command == [kind |-> "drop", at |-> cursor - offset]
<1>1. TypeOK /\ command \in Command /\ Queued(command)
  BY DEF IInv, HoldingAgrees, Drop, Command
<1>2. TypeOK'
  BY <1>1, QueuedAppends DEF TypeOK, Drop, given
<1>3. HoldingAgrees'
  BY DEF Drop, HoldingAgrees
<1>4. ASSUME ~gaveUp' PROVE InOrder'
  <2>1. command.kind = "drop" /\ command.at = cursor - offset /\ held /\ ~held'
    BY DEF Drop
  <2> QED BY <1>1, <1>4, <2>1, QueuedInOrder DEF IInv, Drop, given
<1> QED BY <1>2, <1>3, <1>4 DEF IInv

\* The head of the queue takes effect, and the rest stays as it was.
LEMMA CommandAnswerPreserves ==
  ASSUME IInv, CommandAnswer
  PROVE  IInv'
<1>1. TypeOK /\ queue # << >> /\ queue' = Tail(queue) /\ Execute(Head(queue))
  BY DEF IInv, CommandAnswer
<1>2. Head(queue) \in Command /\ queue' \in Seq(Command) /\ Len(queue') <= MaxQueue
  BY <1>1, TailShifts
<1>3. engine' \in EngineState
  BY <1>1, <1>2, ExecuteTypes
<1>4. TypeOK'
  BY <1>1, <1>2, <1>3 DEF TypeOK, CommandAnswer, user, entry, given
<1>5. HoldingAgrees'
  BY DEF IInv, HoldingAgrees, CommandAnswer, user, entry
<1>6. ASSUME ~gaveUp' PROVE InOrder'
  BY <1>6, AnswerInOrder DEF IInv, CommandAnswer, given
<1> QED BY <1>4, <1>5, <1>6 DEF IInv

\* Once a request was given up nothing is claimed of the order.
LEMMA CommandTimesOutPreserves ==
  ASSUME IInv, CommandTimesOut
  PROVE  IInv'
<1>1. TypeOK /\ queue # << >> /\ queue' = Tail(queue) /\ GiveUp(Head(queue)) /\ gaveUp'
  BY DEF IInv, CommandTimesOut, GiveUp
<1>2. Head(queue) \in Command /\ queue' \in Seq(Command) /\ Len(queue') <= MaxQueue
  BY <1>1, TailShifts
<1>3. TypeOK'
  BY <1>1, <1>2 DEF TypeOK, CommandTimesOut, GiveUp, user, entry
<1>4. HoldingAgrees'
  BY DEF IInv, HoldingAgrees, CommandTimesOut, user, entry
<1> QED BY <1>1, <1>3, <1>4 DEF IInv, CommandTimesOut

\* Nor when a request that was given up is carried out.
LEMMA LateRequestPreserves ==
  ASSUME IInv, NEW request \in late, LateRequest(request)
  PROVE  IInv'
<1>1. TypeOK /\ request \in Command \cup StepRequest /\ Execute(request)
  BY DEF IInv, TypeOK, LateRequest
<1>2. engine' \in EngineState
  BY <1>1, ExecuteTypes
<1>3. TypeOK'
  BY <1>1, <1>2 DEF TypeOK, LateRequest, user, entry
<1>4. HoldingAgrees'
  BY DEF IInv, HoldingAgrees, LateRequest, user, entry
<1>5. gaveUp'
  BY DEF IInv, InOrder, LateRequest
<1> QED BY <1>3, <1>4, <1>5 DEF IInv, LateRequest

\* A step is sent beside the queue.
LEMMA StepSendPreserves ==
  ASSUME IInv, StepSend
  PROVE  IInv'
<1> USE DEF IInv, StepSend, user, entry, channel, given
<1>1. TypeOK'
  BY DEF TypeOK
<1>2. HoldingAgrees'
  BY DEF HoldingAgrees
<1>3. ASSUME ~gaveUp' PROVE InOrder'
  BY <1>3 DEF InOrder, LastCommandHolds, DropsFollowDrags
<1> QED BY <1>1, <1>2, <1>3

\* A step may move the engine, not out of its mode.
LEMMA StepRunsPreserves ==
  ASSUME IInv, StepRuns
  PROVE  IInv'
<1>1. PICK q \in Reach :
        /\ engine' = [engine EXCEPT !.at = q]
        /\ step' = [state |-> "answered",
                    got   |-> IF engine.mode = "silent" THEN NoFrame ELSE q]
  BY DEF StepRuns
<1>2. q \in Cells
  BY <1>1, ReachIsCells DEF IInv
<1>3. TypeOK'
  <2>1. engine' \in EngineState
    BY <1>1, <1>2 DEF IInv, TypeOK, EngineState
  <2>2. step' \in [state : {"timer", "sent", "answered"}, got : Cells \cup {NoFrame}]
        /\ step'.state # "timer"
    BY <1>1, <1>2
  <2> QED BY <2>1, <2>2 DEF IInv, TypeOK, StepRuns, user, entry, channel, given
<1>4. HoldingAgrees'
  BY DEF IInv, HoldingAgrees, StepRuns, user, entry
<1>5. ASSUME ~gaveUp' PROVE InOrder'
  BY <1>1, <1>5, StepInOrder DEF IInv, StepRuns, entry, channel, given
<1> QED BY <1>3, <1>4, <1>5 DEF IInv

\* Its answer moves the window, not while the pet is held.
LEMMA StepAnswerPreserves ==
  ASSUME IInv, StepAnswer
  PROVE  IInv'
<1> USE DEF IInv, StepAnswer, user, channel, given
<1>1. cached' \in Cells /\ window' \in Cells
  BY DEF TypeOK
<1>2. TypeOK'
  BY <1>1 DEF TypeOK
<1>3. HoldingAgrees'
  BY DEF HoldingAgrees
<1>4. ASSUME ~gaveUp' PROVE InOrder'
  BY <1>4 DEF InOrder, LastCommandHolds, DropsFollowDrags
<1> QED BY <1>2, <1>3, <1>4

\* A step that is given up has no answer.
LEMMA StepTimesOutPreserves ==
  ASSUME IInv, StepTimesOut
  PROVE  IInv'
<1>1. late' \subseteq Command \cup StepRequest
  BY DEF IInv, TypeOK, StepTimesOut, GiveUp, StepRequest
<1>2. gaveUp' = TRUE
  BY Zenon DEF StepTimesOut, GiveUp
<1>3. TypeOK'
  BY <1>1, <1>2 DEF IInv, TypeOK, StepTimesOut, user, entry
<1>4. HoldingAgrees'
  BY DEF IInv, HoldingAgrees, StepTimesOut, user, entry
<1> QED BY <1>2, <1>3, <1>4 DEF IInv, StepTimesOut

\* Every step keeps IInv.
LEMMA NextPreserves == IInv /\ [Next]_vars => IInv'
<1> SUFFICES ASSUME IInv, [Next]_vars PROVE IInv'
  OBVIOUS
<1>1. ASSUME NEW p \in Cells, Hover(p) PROVE IInv'
  BY <1>1, HoverPreserves
<1>2. ASSUME NEW p \in Cells, Move(p) PROVE IInv'
  BY <1>2, MovePreserves
<1>3. CASE Grab
  BY <1>3, GrabPreserves
<1>4. CASE Drop
  BY <1>4, DropPreserves
<1>5. CASE CommandAnswer
  BY <1>5, CommandAnswerPreserves
<1>6. CASE CommandTimesOut
  BY <1>6, CommandTimesOutPreserves
<1>7. ASSUME NEW request \in late, LateRequest(request) PROVE IInv'
  BY <1>7, LateRequestPreserves
<1>8. CASE Steps
  BY <1>8, StepSendPreserves, StepRunsPreserves, StepAnswerPreserves,
     StepTimesOutPreserves DEF Steps
<1>9. CASE UNCHANGED vars
  BY <1>9 DEF IInv, TypeOK, HoldingAgrees, InOrder, LastCommandHolds,
     DropsFollowDrags, vars, user, entry, channel, given
<1> QED BY <1>1, <1>2, <1>3, <1>4, <1>5, <1>6, <1>7, <1>8, <1>9 DEF Next

\* The invariant holds of every behaviour.
THEOREM Inductive == Spec => []IInv
BY InitHolds, NextPreserves, PTL DEF Spec

-----------------------------------------------------------------------------
(* What follows *)

\* Positions stay cells, and queue, engine and step loop keep their types,
\* whatever is given up and carried out late.
THEOREM TypeCorrect == Spec => []TypeOK
<1>1. IInv => TypeOK
  BY DEF IInv
<1> QED BY <1>1, Inductive, PTL

\* Until a request is given up, an empty queue means that the backend drags
\* the pet exactly while the user holds it.
THEOREM BackendAgrees == Spec => []DrainedQueueAgrees
<1>1. IInv => DrainedQueueAgrees
  BY DEF IInv, InOrder, LastCommandHolds, DrainedQueueAgrees
<1> QED BY <1>1, Inductive, PTL

\* Until a request is given up, a pet is let go where the pointer held it.
THEOREM DropsWhereHeld == Spec => FallsFromRelease
<1>1. ASSUME IInv, [Next]_vars, engine.mode = "dragging", engine'.mode # "dragging",
             ~gaveUp
      PROVE  engine'.at = Head(queue).at
  <2>1. CASE CommandAnswer
    <3>1. /\ TypeOK /\ Head(queue) \in Command /\ Head(queue) = queue[1]
          /\ Execute(Head(queue)) /\ Len(queue) \in Nat \ {0}
      BY <1>1, <2>1, TailShifts DEF IInv, CommandAnswer
    <3>2. Head(queue).kind = "drop" /\ engine'.at = engine.at
      BY <1>1, <3>1, ExecuteCommand DEF Command
    <3>3. 1 \in 1..Len(queue) /\ queue[1].kind = "drop"
      BY <3>1, <3>2
    <3> QED BY <1>1, <3>1, <3>2, <3>3 DEF IInv, InOrder, DropsFollowDrags
  <2>2. CASE StepRuns
    BY <1>1, <2>2, ReachIsCells DEF StepRuns, IInv, TypeOK, EngineState
  <2>3. CASE \E request \in late : LateRequest(request)
    BY <1>1, <2>3 DEF IInv, InOrder
  <2>4. CASE UNCHANGED engine
    BY <1>1, <2>4
  <2> QED BY <1>1, <2>1, <2>2, <2>3, <2>4
      DEF Next, Hover, Move, Grab, Drop, CommandTimesOut, Steps, StepSend,
          StepAnswer, StepTimesOut, vars
<1>2. IInv /\ [Next]_vars =>
        [engine.mode = "dragging" /\ engine'.mode # "dragging" /\ ~gaveUp
           => engine'.at = Head(queue).at]_vars
  BY <1>1
<1> QED BY <1>2, Inductive, PTL DEF Spec, FallsFromRelease

\* The window of a pet that is held moves with the pointer alone, whatever
\* steps are answered meanwhile and whatever is given up.
THEOREM HeldWindowStays == Spec => HeldWindowFollowsPointer
<1>1. ASSUME IInv, [Next]_vars, held, held', window' # window
      PROVE  window' = cursor' - offset'
  <2>1. CASE \E p \in Cells : Move(p)
    BY <2>1 DEF Move
  <2>2. CASE StepAnswer
    BY <1>1, <2>2 DEF StepAnswer, IInv, HoldingAgrees
  <2>3. CASE UNCHANGED window
    BY <1>1, <2>3
  <2> QED BY <1>1, <2>1, <2>2, <2>3
      DEF Next, Hover, Grab, Drop, CommandAnswer, CommandTimesOut, LateRequest,
          Steps, StepSend, StepRuns, StepTimesOut, vars
<1>2. IInv /\ [Next]_vars =>
        [held /\ held' /\ window' # window => window' = cursor' - offset']_vars
  BY <1>1
<1> QED BY <1>2, Inductive, PTL DEF Spec, HeldWindowFollowsPointer
=============================================================================
