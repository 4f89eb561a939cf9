---------------------------- MODULE PetLifecycle ----------------------------
(***************************************************************************)
(* The life of pets in the Electron main process: PetManager creates, polls *)
(* and removes them, WindowManager keeps their windows in step with the     *)
(* WorldStore, and the backend process may crash and be restarted.          *)
(*                                                                         *)
(* Everything between two awaits of the event loop is one action, with the  *)
(* callbacks that run synchronously inside it: a store change notifies the  *)
(* window manager, which destroys windows, whose "closed" handlers remove   *)
(* pets from the store.  These nested effects are functions on the record   *)
(* app.  A call to the backend is answered by a later action.               *)
(***************************************************************************)
EXTENDS Naturals, FiniteSets, Functions

CONSTANTS
  Call,          \* invocations of loadAndCreatePet; each opens at most one window
  Faults,        \* what may fail: requests, opening a window, loading its page
  MaxCrashes,    \* bound on the crashes of the backend
  Restarts,      \* whether the backend manager restarts a crashed backend
  SlowLoads,     \* whether a page may need 200 ms from first paint to load
  FailureLimit   \* step failures after which a pet is stopped

ASSUME FaultsKnown == Faults \subseteq {"load_pet", "add_pet", "add_pet timeout",
                                        "step_pet", "remove_pet", "window", "page"}
ASSUME BoundsDefined ==
  IsFiniteSet(Call) /\ MaxCrashes \in Nat /\ FailureLimit \in Nat \ {0}
ASSUME SwitchesDefined == Restarts \in BOOLEAN /\ SlowLoads \in BOOLEAN

PetId == 1..Cardinality(Call)

VARIABLES
  up,         \* the backend process runs
  backend,    \* the pets it has
  idCounter,  \* Service.idCounter
  crashes,
  lost,       \* requests in flight whose connection a crash has broken
  pc,         \* where each call of loadAndCreatePet awaits
  petOf,      \* backendPetId of the call, 0 before it has one
  app,        \* the main process: see AppState
  page,       \* progress of the page: which windows have hooks, loaded, shown
  userRemovals, \* removals asked for by removePet
  quitting    \* PetManager.appIsQuitting

process == <<up, backend, idCounter, crashes, lost>>
calls   == <<pc, petOf>>
vars    == <<process, calls, app, page, userRemovals, quitting>>

PetEntry == [loaded : BOOLEAN, stopped : BOOLEAN, failures : 0..FailureLimit]

\* A step loop is the closure one showPetWindow started.
LoopState == {"none", "timer", "step", "ended"}

Awaiting == {"idle", "load", "add", "position", "navigate", "rollback",
             "committed", "failed"}

NoPet == [c \in Call |-> 0]

-----------------------------------------------------------------------------
(* Synchronous effects on the record app:                                  *)
(*   pets      WorldStore.pets                                             *)
(*   windows   WindowManager.windows, a window being named by its call     *)
(*   open      windows that are not destroyed                              *)
(*   timers    PetManager.petTimers: the loop whose timer was stored last  *)
(*   loop      state of each step loop                                     *)
(*   seen      stepFailures each loop read before it awaited its step      *)
(*   removing  PetManager.petBackendRemovals                               *)

Drop(f, key) == Restrict(f, DOMAIN f \ {key})

Put(f, key, value) == [k \in DOMAIN f \cup {key} |-> IF k = key THEN value ELSE f[k]]

EmptyApp == [pets |-> << >>, windows |-> << >>, open |-> {}, timers |-> << >>,
             loop |-> [c \in Call |-> "none"], seen |-> NoPet, removing |-> {}]

Stored(a, id) == id \in DOMAIN a.pets

\* The timer stored for a pet may have fired: clearing it is then no more than
\* forgetting it.
ClearPetTimer(a, id) ==
  IF id \notin DOMAIN a.timers THEN a
  ELSE LET c == a.timers[id]
       IN  [a EXCEPT !.timers = Drop(@, id),
                     !.loop[c] = IF @ = "timer" THEN "ended" ELSE @]

\* Mutant of Closed: the pet stays in the backend.
ClosedKeepsBackendPet(a, c, quits) ==
  LET id == petOf[c]
  IN  [ClearPetTimer(a, id) EXCEPT !.pets = Drop(@, id), !.windows = Drop(@, id)]

\* The "closed" handler of a window, which by then is destroyed.  Removing the
\* pet from the store makes the window manager forget the window.
Closed(a, c, quits) ==
  LET id      == petOf[c]
      cleared == ClearPetTimer(a, id)
  IN  IF ~Stored(a, id) THEN cleared
      ELSE [cleared EXCEPT !.removing = IF quits THEN @ ELSE @ \cup {id},
                           !.pets = Drop(@, id),
                           !.windows = Drop(@, id)]

\* destroy() emits "closed" before it returns; the handler is there only when
\* the call has registered it.
Destroy(a, c, quits) ==
  IF c \notin a.open THEN a
  ELSE LET d == [a EXCEPT !.open = @ \ {c}]
       IN  IF c \in page.hooked THEN Closed(d, c, quits) ELSE d

RemovePetWindow(a, id, quits) ==
  IF id \notin DOMAIN a.windows THEN a
  ELSE LET d == Destroy(a, a.windows[id], quits)
       IN  [d EXCEPT !.windows = Drop(@, id)]

\* The store notifies the window manager of the pet that is gone.
RemoveFromStore(a, id, quits) ==
  IF ~Stored(a, id) THEN a
  ELSE RemovePetWindow([a EXCEPT !.pets = Drop(@, id)], id, quits)

\* Mutant of CreatePetWindow: the window an id already has stays open.
CreateBesideWindow(a, c, id, quits) ==
  [a EXCEPT !.windows = Put(@, id, c), !.open = @ \cup {c}]

DestroyExisting(a, id, quits) ==
  IF id \in DOMAIN a.windows THEN Destroy(a, a.windows[id], quits) ELSE a

\* An existing window of the same id is destroyed first.
CreatePetWindow(a, c, id, quits) ==
  [DestroyExisting(a, id, quits) EXCEPT !.windows = Put(@, id, c), !.open = @ \cup {c}]

\* What a failed creation leaves: the removal is registered before the window is
\* destroyed.
RolledBack(a, id, quits) ==
  LET fenced == ClearPetTimer([a EXCEPT !.removing = @ \cup {id}], id)
  IN  RemovePetWindow(RemoveFromStore(fenced, id, quits), id, quits)

HasWindow(a, id) == id \in DOMAIN a.windows /\ a.windows[id] \in a.open

\* Mutant of Schedule: overwrites the timer that is stored.
ScheduleOverTimer(a, c) ==
  LET id == petOf[c]
  IN  IF ~Stored(a, id) \/ ~HasWindow(a, id) \/ a.pets[id].stopped
      THEN [a EXCEPT !.loop[c] = "ended"]
      ELSE [a EXCEPT !.timers = Put(@, id, c), !.loop[c] = "timer"]

\* schedule: the loop of call c arms the timer of its pet, or ends.
Schedule(a, c) ==
  LET id == petOf[c]
  IN  IF ~Stored(a, id) \/ ~HasWindow(a, id) \/ a.pets[id].stopped
      THEN [a EXCEPT !.loop[c] = "ended"]
      ELSE LET cleared == ClearPetTimer(a, id)
           IN  [cleared EXCEPT !.timers = Put(@, id, c), !.loop[c] = "timer"]

StartPetLoop(a, c) ==
  IF ~Stored(a, petOf[c]) \/ petOf[c] \in DOMAIN a.timers THEN a
  ELSE Schedule(a, c)

UpdatePet(a, id, entry) == IF Stored(a, id) THEN [a EXCEPT !.pets[id] = entry] ELSE a

-----------------------------------------------------------------------------
(* Creating a pet *)

Init ==
  /\ up = TRUE /\ backend = {} /\ idCounter = 0 /\ crashes = 0
  /\ lost = [create |-> {}, step |-> {}, remove |-> {}]
  /\ pc = [c \in Call |-> "idle"] /\ petOf = NoPet
  /\ app = EmptyApp
  /\ page = [hooked |-> {}, loaded |-> {}, showDue |-> {}, shown |-> {}]
  /\ userRemovals = {} /\ quitting = FALSE

Become(c, where) == pc' = [pc EXCEPT ![c] = where]

LoadAndCreatePet(c) ==
  /\ pc[c] = "idle" /\ ~quitting
  /\ Become(c, "load")
  /\ UNCHANGED <<process, petOf, app, page, userRemovals, quitting>>

CreateAnswers(c)        == up /\ c \notin lost.create
CreateFails(c, request) == ~up \/ c \in lost.create \/ request \in Faults

LoadAnswer(c) ==
  /\ pc[c] = "load"
  /\ \/ CreateAnswers(c) /\ Become(c, "add")
     \/ CreateFails(c, "load_pet") /\ Become(c, "failed")
  /\ lost' = [lost EXCEPT !.create = @ \ {c}]
  /\ UNCHANGED <<up, backend, idCounter, crashes, petOf, app, page, userRemovals, quitting>>

BackendAdds ==
  /\ idCounter' = idCounter + 1
  /\ backend' = backend \cup {idCounter'}

PutInStore(a, id) ==
  [a EXCEPT !.pets = Put(@, id, [loaded |-> FALSE, stopped |-> FALSE, failures |-> 0])]

\* From the answer to the opening of the window there is no await.  A spawn
\* point outside the desktop is clamped and sent back, which is another await.
AddAnswer(c) ==
  LET id == idCounter + 1
  IN
  /\ pc[c] = "add"
  /\ CreateAnswers(c) /\ BackendAdds
  /\ petOf' = [petOf EXCEPT ![c] = id]
  /\ app' = CreatePetWindow(PutInStore(app, id), c, id, quitting)
  /\ \/ Become(c, "position") /\ UNCHANGED page
     \/ Become(c, "navigate") /\ page' = [page EXCEPT !.hooked = @ \cup {c}]
  /\ UNCHANGED <<up, crashes, lost, userRemovals, quitting>>

\* new BrowserWindow throws, once the window the id had is destroyed.
WindowFails(c) ==
  LET id == idCounter + 1
  IN
  /\ pc[c] = "add" /\ "window" \in Faults
  /\ CreateAnswers(c) /\ BackendAdds
  /\ petOf' = [petOf EXCEPT ![c] = id]
  /\ app' = RolledBack(DestroyExisting(PutInStore(app, id), id, quitting), id, quitting)
  /\ Become(c, "rollback")
  /\ UNCHANGED <<up, crashes, lost, page, userRemovals, quitting>>

\* A request that times out may have been carried out.
AddFails(c) ==
  /\ pc[c] = "add"
  /\ Become(c, "failed")
  /\ \/ CreateFails(c, "add_pet") /\ UNCHANGED <<backend, idCounter>>
     \/ CreateAnswers(c) /\ "add_pet timeout" \in Faults /\ BackendAdds
  /\ lost' = [lost EXCEPT !.create = @ \ {c}]
  /\ UNCHANGED <<up, crashes, petOf, app, page, userRemovals, quitting>>

Rollback(c) == Become(c, "rollback") /\ app' = RolledBack(app, petOf[c], quitting)

\* Whether set_position failed makes no difference; navigating a window that was
\* destroyed in the meantime throws.
PositionAnswer(c) ==
  /\ pc[c] = "position"
  /\ \/ /\ c \in app.open
        /\ Become(c, "navigate")
        /\ page' = [page EXCEPT !.hooked = @ \cup {c}]
        /\ UNCHANGED app
     \/ c \notin app.open /\ Rollback(c) /\ UNCHANGED page
  /\ UNCHANGED <<process, petOf, userRemovals, quitting>>

Survives(c) == c \in app.open /\ Stored(app, petOf[c])

\* loadURL settles when the page has loaded, when it fails to, and when its
\* window is destroyed.
Commit(c) ==
  /\ pc[c] = "navigate"
  /\ c \in page.loaded /\ Survives(c)
  /\ Become(c, "committed")
  /\ UNCHANGED <<process, petOf, app, page, userRemovals, quitting>>

\* Mutant of GiveUp: rolls back without asking whether the pet survives.
GiveUpOnLoad(c) ==
  /\ pc[c] = "navigate"
  /\ c \in page.loaded \/ c \notin app.open
  /\ Rollback(c)
  /\ UNCHANGED <<process, petOf, page, userRemovals, quitting>>

GiveUp(c) ==
  /\ pc[c] = "navigate"
  /\ \/ c \in page.loaded \/ c \notin app.open
     \/ "page" \in Faults
  /\ c \in page.loaded => ~Survives(c)
  /\ Rollback(c)
  /\ UNCHANGED <<process, petOf, page, userRemovals, quitting>>

-----------------------------------------------------------------------------
(* The page *)

\* showPetWindow, of "ready-to-show" and of the timer "did-finish-load" starts.
ShowPetWindow(c) ==
  IF c \in page.shown \/ c \notin app.open THEN UNCHANGED <<app, page>>
  ELSE /\ page' = [page EXCEPT !.shown = @ \cup {c}, !.showDue = @ \ {c}]
       /\ app' = StartPetLoop(app, c)

ReadyToShow(c) ==
  /\ c \in page.hooked \cap app.open
  /\ c \notin page.shown
  /\ ShowPetWindow(c)
  /\ UNCHANGED <<process, calls, userRemovals, quitting>>

DidFinishLoad(c) ==
  /\ c \in page.hooked \cap app.open
  /\ c \notin page.loaded
  /\ page' = [page EXCEPT !.loaded = @ \cup {c}, !.showDue = @ \cup {c}]
  /\ app' = IF Stored(app, petOf[c])
            THEN [app EXCEPT !.pets[petOf[c]].loaded = TRUE] ELSE app
  /\ UNCHANGED <<process, calls, userRemovals, quitting>>

ShowTimer(c) ==
  /\ c \in page.showDue
  /\ IF c \in page.shown \/ c \notin app.open
     THEN page' = [page EXCEPT !.showDue = @ \ {c}] /\ UNCHANGED app
     ELSE ShowPetWindow(c)
  /\ UNCHANGED <<process, calls, userRemovals, quitting>>

-----------------------------------------------------------------------------
(* The step loop *)

\* A loop that finds its pet gone, stopped or not loaded returns and leaves its
\* fired timer in petTimers.
LoopFires(c) ==
  LET id == petOf[c]
  IN
  /\ app.loop[c] = "timer"
  /\ SlowLoads \/ c \in page.loaded
  /\ app' = IF ~Stored(app, id) \/ ~HasWindow(app, id)
               \/ app.pets[id].stopped \/ ~app.pets[id].loaded
            THEN [app EXCEPT !.loop[c] = "ended"]
            ELSE [app EXCEPT !.loop[c] = "step", !.timers = Drop(@, id),
                             !.seen[c] = app.pets[id].failures]
  /\ UNCHANGED <<process, calls, page, userRemovals, quitting>>

\* Mutant of StepAnswer: a null state is not followed by another step.
StepAnswerNullEnds(c) ==
  LET id == petOf[c]
  IN
  /\ app.loop[c] = "step"
  /\ up /\ id \in backend /\ c \notin lost.step
  /\ \/ app' = [app EXCEPT !.loop[c] = "ended"]
     \/ /\ Stored(app, id)
        /\ app' = Schedule([app EXCEPT !.pets[id].failures = 0], c)
  /\ UNCHANGED <<process, calls, page, userRemovals, quitting>>

\* The answer is a frame, or a null state which changes nothing.
StepAnswer(c) ==
  LET id == petOf[c]
  IN
  /\ app.loop[c] = "step"
  /\ up /\ id \in backend /\ c \notin lost.step
  /\ \/ app' = Schedule(app, c)
     \/ /\ Stored(app, id)
        /\ app' = Schedule([app EXCEPT !.pets[id].failures = 0], c)
  /\ UNCHANGED <<process, calls, page, userRemovals, quitting>>

\* Mutant of StepFails: starts counting again at the limit instead of stopping.
StepFailsNeverStops(c) ==
  LET id     == petOf[c]
      counted == IF ~Stored(app, id) THEN app
                 ELSE [app EXCEPT !.pets[id].failures =
                                    IF app.seen[c] + 1 >= FailureLimit THEN 0 ELSE app.seen[c] + 1]
  IN
  /\ app.loop[c] = "step"
  /\ ~up \/ id \notin backend \/ c \in lost.step \/ "step_pet" \in Faults
  /\ lost' = [lost EXCEPT !.step = @ \ {c}]
  /\ app' = Schedule(counted, c)
  /\ UNCHANGED <<up, backend, idCounter, crashes, calls, page, userRemovals, quitting>>

\* The failures are counted from the entry the loop read before it awaited.
StepFails(c) ==
  LET id     == petOf[c]
      failed == app.seen[c] + 1
      counted == IF ~Stored(app, id) THEN app
                 ELSE [app EXCEPT !.pets[id].failures = failed,
                                  !.pets[id].stopped = @ \/ failed >= FailureLimit]
  IN
  /\ app.loop[c] = "step"
  /\ ~up \/ id \notin backend \/ c \in lost.step \/ "step_pet" \in Faults
  /\ lost' = [lost EXCEPT !.step = @ \ {c}]
  /\ app' = IF failed >= FailureLimit THEN [counted EXCEPT !.loop[c] = "ended"]
            ELSE Schedule(counted, c)
  /\ UNCHANGED <<up, backend, idCounter, crashes, calls, page, userRemovals, quitting>>

-----------------------------------------------------------------------------
(* Removing pets *)

\* removePet of a pet the control panel lists as active.
RemovePet(id) ==
  /\ ~quitting
  /\ up /\ id \in backend /\ id \notin userRemovals
  /\ userRemovals' = userRemovals \cup {id}
  /\ LET cleared == ClearPetTimer(app, id)
     IN  app' = [cleared EXCEPT !.removing = @ \cup {id}]
  /\ UNCHANGED <<process, calls, page, quitting>>

\* Mutant of RemovalSettles: empties the store and leaves the window.
RemovalKeepsWindow(id) ==
  LET done == [app EXCEPT !.removing = @ \ {id}]
  IN
  /\ id \in app.removing
  /\ up /\ id \notin lost.remove /\ backend' = backend \ {id}
  /\ lost' = [lost EXCEPT !.remove = @ \ {id}]
  /\ app' = IF id \notin userRemovals THEN done ELSE [done EXCEPT !.pets = Drop(@, id)]
  /\ userRemovals' = userRemovals \ {id}
  /\ pc' = [c \in Call |-> IF pc[c] = "rollback" /\ petOf[c] = id THEN "failed"
                           ELSE pc[c]]
  /\ UNCHANGED <<up, idCounter, crashes, petOf, page, quitting>>

\* The shared promise settles and all who await it go on, whatever the outcome.
RemovalSettles(id) ==
  LET done == [app EXCEPT !.removing = @ \ {id}]
  IN
  /\ id \in app.removing
  /\ \/ up /\ id \notin lost.remove /\ backend' = backend \ {id}
     \/ (~up \/ id \in lost.remove \/ "remove_pet" \in Faults) /\ UNCHANGED backend
  /\ lost' = [lost EXCEPT !.remove = @ \ {id}]
  /\ app' = IF id \notin userRemovals THEN done
            ELSE RemovePetWindow(RemoveFromStore(done, id, quitting), id, quitting)
  /\ userRemovals' = userRemovals \ {id}
  /\ pc' = [c \in Call |-> IF pc[c] = "rollback" /\ petOf[c] = id THEN "failed"
                           ELSE pc[c]]
  /\ UNCHANGED <<up, idCounter, crashes, petOf, page, quitting>>

\* The user closes a visible pet window.
CloseWindow(c) ==
  /\ c \in page.shown \cap app.open
  /\ app' = Destroy(app, c, quitting)
  /\ UNCHANGED <<process, calls, page, userRemovals, quitting>>

-----------------------------------------------------------------------------
(* The backend process and the end of the application *)

Crash ==
  /\ up /\ ~quitting /\ crashes < MaxCrashes
  /\ up' = FALSE /\ backend' = {} /\ idCounter' = 0 /\ crashes' = crashes + 1
  /\ lost' = [create |-> {c \in Call : pc[c] \in {"load", "add"}},
              step   |-> {c \in Call : app.loop[c] = "step"},
              remove |-> app.removing]
  /\ UNCHANGED <<calls, app, page, userRemovals, quitting>>

Restart ==
  /\ Restarts /\ ~up /\ ~quitting
  /\ up' = TRUE
  /\ UNCHANGED <<backend, idCounter, crashes, lost, calls, app, page, userRemovals, quitting>>

\* Mutant of Shutdown: passes over the pets whose window is not shown yet.
ShutdownShownPets ==
  LET shown(id) == id \in DOMAIN app.windows /\ app.windows[id] \in page.shown
  IN
  /\ ~quitting /\ quitting' = TRUE
  /\ app' = [app EXCEPT !.pets = Restrict(@, {id \in DOMAIN @ : ~shown(id)}),
                        !.windows = Restrict(@, {id \in DOMAIN @ : ~shown(id)}),
                        !.open = @ \ page.shown,
                        !.timers = << >>,
                        !.loop = [c \in Call |-> IF @[c] = "timer" THEN "ended" ELSE @[c]]]
  /\ up' = FALSE /\ backend' = {}
  /\ UNCHANGED <<idCounter, crashes, lost, calls, page, userRemovals>>

\* shutdown of the pet manager, then of the backend: the timers of all pets are
\* cleared, then their windows destroyed, and the store is emptied.
Shutdown ==
  LET gone    == {c \in app.open : \E id \in DOMAIN app.pets :
                                      HasWindow(app, id) /\ app.windows[id] = c}
      cleared == {app.timers[id] : id \in DOMAIN app.timers \cap DOMAIN app.pets}
  IN
  /\ ~quitting /\ quitting' = TRUE
  /\ app' = [app EXCEPT
       !.pets = << >>,
       !.windows = Restrict(@, DOMAIN @ \ DOMAIN app.pets),
       !.open = @ \ gone,
       !.timers = Restrict(@, DOMAIN @ \ DOMAIN app.pets),
       !.loop = [c \in Call |-> IF c \in cleared /\ @[c] = "timer" THEN "ended" ELSE @[c]]]
  /\ up' = FALSE /\ backend' = {}
  /\ UNCHANGED <<idCounter, crashes, lost, calls, page, userRemovals>>

Continue(c) ==
  \/ LoadAnswer(c) \/ AddAnswer(c) \/ WindowFails(c) \/ AddFails(c)
  \/ PositionAnswer(c) \/ Commit(c) \/ GiveUp(c)

Turn(c) == LoopFires(c) \/ StepAnswer(c) \/ StepFails(c)

Next ==
  \/ \E c \in Call : \/ LoadAndCreatePet(c) \/ Continue(c) \/ Turn(c)
                     \/ ReadyToShow(c) \/ DidFinishLoad(c) \/ ShowTimer(c)
                     \/ CloseWindow(c)
  \/ \E id \in PetId : RemovePet(id) \/ RemovalSettles(id)
  \/ Crash \/ Restart \/ Shutdown

Spec == Init /\ [][Next]_vars

\* Requests are answered or time out, pages load, and timers fire.
FairSpec ==
  /\ Spec
  /\ \A c \in Call : /\ WF_vars(Continue(c)) /\ WF_vars(Turn(c))
                     /\ WF_vars(DidFinishLoad(c)) /\ WF_vars(ShowTimer(c))
  /\ \A id \in PetId : WF_vars(RemovalSettles(id))

-----------------------------------------------------------------------------
(* Properties *)

IdMap(values) == UNION {[ids -> values] : ids \in SUBSET PetId}

TypeOK ==
  /\ up \in BOOLEAN /\ quitting \in BOOLEAN
  /\ backend \subseteq 1..idCounter /\ idCounter \in 0..Cardinality(Call)
  /\ crashes \in 0..MaxCrashes
  /\ lost \in [create : SUBSET Call, step : SUBSET Call, remove : SUBSET PetId]
  /\ pc \in [Call -> Awaiting]
  /\ petOf \in [Call -> PetId \cup {0}]
  /\ app \in [pets : IdMap(PetEntry), windows : IdMap(Call), open : SUBSET Call,
              timers : IdMap(Call), loop : [Call -> LoopState],
              seen : [Call -> 0..FailureLimit], removing : SUBSET PetId]
  /\ page \in [hooked : SUBSET Call, loaded : SUBSET Call,
               showDue : SUBSET Call, shown : SUBSET Call]
  /\ userRemovals \subseteq PetId

\* No window leaks: a window that is open is the one the window manager knows
\* under its pet's id, so that removing the pet destroys it.
OpenWindowsRegistered ==
  \A c \in app.open :
    petOf[c] \in DOMAIN app.windows /\ app.windows[petOf[c]] = c

\* No timer leaks: a timer that has not fired is the one petTimers holds for its
\* pet, so that clearing it stops the loop, although a step that was in flight
\* when the pet was removed arms a timer afterwards.
TimersCancellable ==
  \A c \in Call :
    app.loop[c] = "timer" =>
      petOf[c] \in DOMAIN app.timers /\ app.timers[petOf[c]] = c

\* No pet is orphaned: while requests succeed, a pet of the backend is in the
\* store or is being removed, however closing, removing and creating interleave, as
\* long as no backend has crashed: a removal that fails with the crash takes the pet
\* out of the store that a restarted one has given its id.
BackendPetsOwned ==
  crashes = 0 /\ ~quitting => backend \subseteq DOMAIN app.pets \cup app.removing

\* No window shows a pet that is gone: while the backend does not crash, the pet
\* of an open window is in the store.
WindowsShowStoredPets == crashes = 0 => \A c \in app.open : Stored(app, petOf[c])

\* Shutting down leaves no window open, as long as no backend has crashed: two
\* windows of one id are one to the store.
ShutdownClosesWindows == [][crashes = 0 /\ ~quitting /\ quitting' => app'.open = {}]_vars

\* A creation whose page has loaded in a window that is still open, for a pet the
\* backend still has, is committed and not rolled back, as long as no backend has
\* crashed: a restarted one gives out the ids of windows that are still there.
LoadedPageCommits ==
  [][\A c \in Call :
       crashes = 0 /\ pc[c] = "navigate" /\ pc'[c] # "navigate"
         /\ c \in page.loaded \cap app.open /\ petOf[c] \in backend
         => pc'[c] = "committed"]_vars

\* The pet of call c is on the desktop: committed, in the store, not stopped.
OnDesktop(c) ==
  /\ pc[c] = "committed"
  /\ Survives(c)
  /\ ~app.pets[petOf[c]].stopped

Polled(c) == \E d \in Call : petOf[d] = petOf[c] /\ app.loop[d] = "step"

\* A pet on the desktop is polled again and again, as long as no backend has crashed:
\* the loop of a lost pet may take the timer of one that was given its id.
DesktopPetsArePolled ==
  \A c \in Call : OnDesktop(c) ~> (Polled(c) \/ ~OnDesktop(c) \/ crashes > 0)

\* No loop polls for ever a pet that the backend lost in a crash or that was
\* removed behind its back.
LostPetsNotPolled ==
  \A c \in Call :
    (app.loop[c] \in {"timer", "step"} /\ petOf[c] \notin backend)
      ~> (app.loop[c] = "ended" \/ petOf[c] \in backend)
=============================================================================
