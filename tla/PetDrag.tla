------------------------------ MODULE PetDrag ------------------------------
(***************************************************************************)
(* One pet picked up and dropped by the user, in the three places that      *)
(* know its position: the window, the store's cached state and the backend. *)
(* The drag handlers of PetManager queue commands to the backend, one       *)
(* request at a time, while the pet's step loop goes on beside the queue.   *)
(*                                                                         *)
(* Positions are cells of a line.  The engine is PetEngine as seen by these *)
(* requests: free it moves by at most one cell a step, dragged it stays     *)
(* where it is put (the drag animations of the pets shipped do not move),    *)
(* and a pet without a fall animation gives no frame after it is dropped.    *)
(* The pointer is read when the renderer's event arrives.                    *)
(***************************************************************************)
EXTENDS Integers, Sequences, FiniteSets

CONSTANTS
  Cells,      \* positions
  MaxQueue,   \* bound on queued commands (the code has none)
  MaxLate,    \* bound on given-up requests still to be carried out
  NoFrame     \* the answer of a pet that produces no frame

ASSUME CellsAreInts == Cells \subseteq Int
ASSUME BoundsAreNumbers == MaxQueue \in Nat \ {0} /\ MaxLate \in Nat
ASSUME NoFrameIsNoCell == NoFrame \notin Cells

VARIABLES
  held,       \* the renderer's isDragging
  cursor,
  dragging,   \* the pet is in draggingPets
  offset,     \* dragOffset of the store entry
  cached,     \* state.x of the store entry
  window,     \* position of the window
  queue,      \* petBackendQueues: the head is the request being answered
  late,       \* requests the app gave up, which the backend may yet carry out
  gaveUp,     \* history: the app has given up a request
  engine,     \* mode and position of the pet in the backend, and whether it has
              \* an animation named "fall"
  step        \* the step loop: what it awaits, what it got

user    == <<held, cursor>>
entry   == <<dragging, offset, cached>>
given   == <<late, gaveUp>>
channel == <<queue, given>>
vars    == <<user, entry, window, channel, engine, step>>

\* The position of a drop is a history value: where the pointer held the pet.
Command == [kind : {"drag", "drop"}, at : Cells]

\* A step is computed for the displays around the cached position.
StepRequest == [kind : {"step"}, at : Cells]

Init ==
  /\ held = FALSE /\ dragging = FALSE /\ offset = 0
  /\ cached \in Cells /\ cursor \in Cells
  /\ window = cached
  /\ queue = << >> /\ late = {} /\ gaveUp = FALSE
  /\ engine \in [mode : {"free"}, at : {cached}, falls : BOOLEAN]
  /\ step = [state |-> "timer", got |-> NoFrame]

-----------------------------------------------------------------------------
(* The user, and the handlers of the drag messages *)

Queued(command) == Len(queue) < MaxQueue /\ queue' = Append(queue, command)

Hover(p) ==
  /\ ~held /\ p # cursor
  /\ cursor' = p
  /\ UNCHANGED <<held, entry, window, channel, engine, step>>

\* The pointer has to be over the window; the position sent is the cached one.
Grab ==
  /\ ~held /\ cursor = window
  /\ held' = TRUE /\ dragging' = TRUE
  /\ offset' = cursor - cached
  /\ Queued([kind |-> "drag", at |-> cached])
  /\ UNCHANGED <<cursor, cached, window, given, engine, step>>

\* Mutant of Move: no drag is sent while a request is pending.
MoveWhenIdle(p) ==
  /\ held /\ p # cursor
  /\ p - offset \in Cells
  /\ cursor' = p
  /\ dragging' = TRUE
  /\ IF queue = << >> THEN Queued([kind |-> "drag", at |-> p - offset])
                     ELSE UNCHANGED queue
  /\ window' = p - offset
  /\ UNCHANGED <<held, offset, cached, given, engine, step>>

\* Mutant of Move: the drag offset is added.
MoveAddsOffset(p) ==
  /\ held /\ p # cursor
  /\ p - offset \in Cells
  /\ cursor' = p
  /\ dragging' = TRUE
  /\ Queued([kind |-> "drag", at |-> p + offset])
  /\ window' = p + offset
  /\ UNCHANGED <<held, offset, cached, given, engine, step>>

Move(p) ==
  /\ held /\ p # cursor
  /\ p - offset \in Cells
  /\ cursor' = p
  /\ dragging' = TRUE
  /\ Queued([kind |-> "drag", at |-> p - offset])
  /\ window' = p - offset
  /\ UNCHANGED <<held, offset, cached, given, engine, step>>

Drop ==
  /\ held
  /\ held' = FALSE /\ dragging' = FALSE
  /\ Queued([kind |-> "drop", at |-> cursor - offset])
  /\ UNCHANGED <<cursor, offset, cached, window, given, engine, step>>

-----------------------------------------------------------------------------
(* The command queue *)

Near(p) == {q \in Cells : q \in {p - 1, p, p + 1}}

\* A step leaves a pet that is held, or that has no animation, where it is.
Reach == IF engine.mode = "free" THEN Near(engine.at) ELSE {engine.at}

Execute(request) ==
  \/ request.kind = "drag" /\ engine' = [engine EXCEPT !.mode = "dragging", !.at = request.at]
  \/ request.kind = "drop"
     /\ engine' = [engine EXCEPT !.mode = IF engine.falls THEN "free" ELSE "silent"]
  \/ request.kind = "step"
     /\ \E q \in Reach : engine' = [engine EXCEPT !.at = q]

\* Mutant of CommandAnswer: a drop overtakes the requests before it.
CommandAnswerDropFirst ==
  /\ queue # << >>
  /\ LET drops == {i \in DOMAIN queue : queue[i].kind = "drop"}
         i     == IF drops = {} THEN 1 ELSE CHOOSE j \in drops : \A k \in drops : j <= k
     IN  /\ Execute(queue[i])
         /\ queue' = SubSeq(queue, 1, i - 1) \o SubSeq(queue, i + 1, Len(queue))
  /\ UNCHANGED <<user, entry, window, given, step>>

\* Mutant of CommandAnswer: the settled request stays the one awaited.
CommandAnswerStays ==
  /\ queue # << >>
  /\ Execute(Head(queue))
  /\ UNCHANGED <<user, entry, window, channel, step>>

\* The backend carries out the request at the head; then the next one is sent.
CommandAnswer ==
  /\ queue # << >>
  /\ Execute(Head(queue))
  /\ queue' = Tail(queue)
  /\ UNCHANGED <<user, entry, window, given, step>>

\* The app gives up a request the backend has not carried out; it still may.
GiveUp(request) ==
  /\ Cardinality(late) < MaxLate
  /\ late' = late \cup {request} /\ gaveUp' = TRUE

CommandTimesOut ==
  /\ queue # << >>
  /\ GiveUp(Head(queue))
  /\ queue' = Tail(queue)
  /\ UNCHANGED <<user, entry, window, engine, step>>

LateRequest(request) ==
  /\ request \in late
  /\ Execute(request)
  /\ late' = late \ {request}
  /\ UNCHANGED <<user, entry, window, queue, gaveUp, step>>

-----------------------------------------------------------------------------
(* The step loop, which does not go through the queue *)

StepSend ==
  /\ step.state = "timer"
  /\ step' = [step EXCEPT !.state = "sent"]
  /\ UNCHANGED <<user, entry, window, channel, engine>>

StepRuns ==
  /\ step.state = "sent"
  /\ \E q \in Reach :
       /\ engine' = [engine EXCEPT !.at = q]
       /\ step' = [state |-> "answered",
                   got   |-> IF engine.mode = "silent" THEN NoFrame ELSE q]
  /\ UNCHANGED <<user, entry, window, channel>>

\* Mutant of StepAnswer: takes the position of the answer while dragging.
StepAnswerMoves ==
  /\ step.state = "answered"
  /\ cached' = IF step.got = NoFrame THEN cached ELSE step.got
  /\ window' = IF cached' # cached THEN cached' ELSE window
  /\ step' = [state |-> "timer", got |-> NoFrame]
  /\ UNCHANGED <<user, dragging, offset, channel, engine>>

\* The store tells the window manager, which moves the window when the cached
\* position has changed.  While the pet is held the answer keeps the position
\* read before the request; only answers change it, so it is the cached one.
StepAnswer ==
  /\ step.state = "answered"
  /\ cached' = IF step.got = NoFrame \/ dragging THEN cached ELSE step.got
  /\ window' = IF cached' # cached THEN cached' ELSE window
  /\ step' = [state |-> "timer", got |-> NoFrame]
  /\ UNCHANGED <<user, dragging, offset, channel, engine>>

\* A step given up leaves the store alone; if it had not run it still may.
StepTimesOut ==
  /\ \/ step.state = "sent" /\ GiveUp([kind |-> "step", at |-> cached])
     \/ step.state = "answered" /\ gaveUp' = TRUE /\ UNCHANGED late
  /\ step' = [state |-> "timer", got |-> NoFrame]
  /\ UNCHANGED <<user, entry, window, queue, engine>>

Steps == StepSend \/ StepRuns \/ StepAnswer \/ StepTimesOut

Next ==
  \/ \E p \in Cells : Hover(p) \/ Move(p)
  \/ Grab \/ Drop
  \/ CommandAnswer \/ CommandTimesOut \/ \E request \in late : LateRequest(request)
  \/ Steps

Spec == Init /\ [][Next]_vars

\* Requests are answered and the step timer fires.
FairSpec == Spec /\ WF_vars(CommandAnswer) /\ WF_vars(Steps)

-----------------------------------------------------------------------------
(* Properties *)

EngineState == [mode : {"free", "dragging", "silent"}, at : Cells, falls : BOOLEAN]

TypeOK ==
  /\ held \in BOOLEAN /\ dragging \in BOOLEAN
  /\ cursor \in Cells /\ cached \in Cells /\ window \in Cells
  /\ offset \in Int
  /\ queue \in Seq(Command) /\ Len(queue) <= MaxQueue
  /\ late \subseteq Command \cup StepRequest
  /\ gaveUp \in BOOLEAN /\ engine \in EngineState
  /\ step \in [state : {"timer", "sent", "answered"}, got : Cells \cup {NoFrame}]
  /\ step.state = "timer" => step.got = NoFrame

\* The backend agrees with the user once the queue is empty: the engine is being
\* dragged exactly while the pet is held, however grabs and drops follow on
\* one another and steps come in between, as long as the app has given up no request.
DrainedQueueAgrees ==
  queue = << >> /\ ~gaveUp => (engine.mode = "dragging" <=> held)

\* A pet falls from where it was released: when the backend carries out a drop,
\* it has the pet where the pointer held it, whatever steps came in between, as long
\* as the app has given up no request.
FallsFromRelease ==
  [][engine.mode = "dragging" /\ engine'.mode # "dragging" /\ ~gaveUp
       => engine'.at = Head(queue).at]_vars

\* While the user holds the pet only the pointer moves its window; a step that
\* was sent before the grab and is answered after it does not, nor does anything that
\* was given up and is carried out late.
HeldWindowFollowsPointer ==
  [][held /\ held' /\ window' # window => window' = cursor' - offset']_vars

\* A pet that was released is let go in the end, although the user may go on grabbing
\* it, unless the app gives up a request.
ReleasedPetIsFree ==
  ~held /\ ~gaveUp ~> engine.mode # "dragging" \/ held \/ gaveUp
=============================================================================
