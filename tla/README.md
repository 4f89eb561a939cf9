# Clod Pet: a formal model

TLA+ modules that model Clod Pet, TLC configurations that check them on small
instances, and proofs, checked by TLAPS, of the properties that matter most for
every value of the constants. Paths are relative to `src/`.

    tlc -config engine_sheep.cfg MCPetEngine      model-check a run
    tlapm PetDragProofs.tla                       check the proofs of a module

## 1. The system

Clod Pet puts animated pets on the desktop. An Electron application owns the
windows and the user's input; a Go process, the *backend*, runs one animation
engine per pet. They talk over HTTP on the loopback interface: about every
200 ms, or at the interval the current animation asks for, the application posts
`step_pet` with the geometry of the displays around the pet, and moves the pet's
window to the position in the answer.

| Component | State it keeps | Operations | What makes it correct |
|---|---|---|---|
| Animation engine (`backend/internal/engine`) | current animation, loaded frames, frame index and step counter, trigger-once flags, position, flip, scale, gravity | `Start`, `Step`, `TransitionTo`, `SetDrag`, `SetFall`, `SetPosition`, `SetScale`, `SetGravityFactor` | frames and movement are of one animation, sequences end, a free step ends on the screen, a pet left alone lands |
| Service registry, IPC dispatch (`backend/internal/service`, `ipc`) | pets by id, `idCounter`, loaded pets, settings, one mutex | add, remove, step one or all, drag, drop, update settings | each call is atomic; a failed call leaves no trace |
| Settings (`backend/internal/settings`, `service`) | values, the file they are stored in, the engines' copies | load, save, change volume, scale or others | memory, file and engines agree; a failed or killed save leaves them so |
| Pet loading (`backend/internal/pet`) | none | decode JSON, XML, PNG; convert the old format | – |
| Expressions (`backend/internal/expression`) | none | parse and evaluate | precedence and integer semantics |
| LLM clients, streaming chat (`backend/internal/llm`, `backend/main.go`, `app/src/main/chat-manager.ts`, `renderer/chat.ts`) | two goroutines and two channels per stream, the response, the reader, listeners and conversation of the page | stream a completion, write and read SSE, send, show and close the chat | every piece arrives once and in order; a stream and its goroutines end; a part of an answer is not taken for it |
| Sound (`backend/internal/sound`) | a pending payload | draw by probability | – |
| HTTP server (`backend/main.go`) | listener | routes, CORS, limits, SSE | – |
| PetManager, WindowManager (`app/src/main/pet-manager.ts`, `window-manager.ts`) | timers, pets being dragged, command queues, pending removals; windows by pet id | create with rollback, poll, remove, close, shut down; drag, move, drop | no window, timer or backend pet is leaked; pets on the desktop are polled; drags and drops take effect in order |
| WorldStore and its bridge (`app/src/shared/store`, `store-bridge.ts`) | pets, backend, environment | `setState`, `updatePet`, `subscribe`, broadcast | subscribers see the changes in order; a page knows the state it was opened into |
| BackendManager (`app/src/main/backend-manager.ts`) | the process, its state, readiness, restart timer and attempts, `startGeneration` | start, wait until ready, restart, stop | no process escapes, a stop is final, restarts are bounded |
| BackendClient (`app/src/main/backend-client.ts`) | none | request with a 5 s time-out, SSE reader | every request settles |
| BorderDetector (`app/src/border-detector.ts`) | none | geometry of displays around a point | – |
| Bootstrap, tray (`app/src/main/main.ts`) | windows, quit flags | start and quit | the backend stops with the application |
| Control panel (`renderer/control-panel.ts`, the handlers in `main.ts`) | the settings shown, timers, an animation frame, the size asked for; the copies in PetManager | show, change a setting, poll, size the window, close | every copy ends with the last change; the window fits its content |
| Pet renderer (`renderer/pet-renderer.ts`) | `isDragging`, the frame shown | pointer events, draw | – |
| Animation editor (`app/src/editor`, `main/editor-window.ts`) | document, layout, history, dirty flag; the file and its temporary | load, edit, undo, lay out, save, close | undo works on what is shown, references resolve, no file is torn, nothing is discarded unasked |
| Preload and IPC contract; logging and paths; command line tools | – | – | – |

### How the parts interact, and what is hard about it

* **Main process to backend.** Each request is an `await`: state read before it
  is used after it. The pet may have been removed, dragged, dropped, its window
  destroyed, or the backend replaced in between. A request that takes more than
  5 s is given up by the application, but the backend may still carry it out.
* **Store to windows.** Every update notifies the subscribers before it returns:
  removing a pet from the store destroys its window, whose `closed` handler
  removes the pet from the store. These nested effects end in a state that no
  one function shows.
* **Window to pet manager.** `ready-to-show`, `did-finish-load`, a 200 ms timer,
  the user closing the window and the failure of the page come in any order.
* **Command queue and step loop.** Drag and drop requests of a pet go through a
  queue, one at a time; its step loop goes on beside the queue.
* **Supervisor and process.** Port search, health checks, error and close events
  of the process, the restart timer and a stop by the application interleave.
* **A stream of the chat** passes two goroutines, the response, the reader of the
  main process and the queue of the page. Each may end before its neighbour, and
  the window, the backend and the connection may go at any moment.
* **The control panel** asks for a change at every movement of a slider. A request
  passes the main process and a goroutine of the backend; the settings have four
  other copies, and `UpdateVolume` does not take the lock.
* **The editor** awaits loading, saving and laying out, and applies their answers
  to whatever the document is by then. A save is a series of steps on the disk.
* **Inside the backend** one mutex serialises everything that concerns pets.
  The difficulty there is in long sequences of calls: an engine has trigger-once
  flags, a frame cursor that wraps to `repeat_from`, and definitions that may
  name animations that do not exist.

`PROJECT.json` lists these hazards at the lines where they bite, each with the
properties that would catch it. What no property covers is told in section 5.

## 2. The modules

| Module | Models | Proofs |
|---|---|---|
| `PetEngine` (`MCPetEngine`) | one engine under the service's calls | `PetEngineProofs` |
| `PetLifecycle` (`MCPetLifecycle`) | pets, windows, timers and a backend that crashes | `PetLifecycleProofs` |
| `PetDrag` (`MCPetDrag`) | drag and drop: renderer, command queue, step loop, engine | `PetDragProofs` |
| `BackendPromise` | what the rest of the application may rely on of the supervisor | – |
| `BackendSupervisor` | BackendManager, shown to implement `BackendPromise` | `BackendSupervisorProofs` |
| `Filters` | filtering a list, as `Array.prototype.filter` does | `FiltersProofs` |
| `EditorDocument` | what the editor does to a document: rename, delete, normalise, validate, lay out | `EditorSessionProofs` |
| `EditorSession` (`MCEditorSession`) | an editor window, its asynchronous operations, its files | `EditorSessionProofs` |
| `ChatStream` | the streams of the chat in the backend and on the wire | `ChatWindowProofs` |
| `ChatWindow` (`MCChatWindow`) | the chat's page on these streams and on `BackendPromise` | `ChatWindowProofs` |
| `SettingsService` | settings in the backend: memory, file, engines, lock | – |
| `ControlPanel` (`MCControlPanel`) | the panel and the main process on `SettingsService` | `ControlPanelProofs` |

The components meet at narrow interfaces, so each is checked with the others
replaced by what it may assume of them, or composed with them where they meet on
shared state: `ChatWindow` takes the actions of `ChatStream` and those of
`BackendPromise`, which `BackendSupervisor` implements; `ControlPanel` those of
`SettingsService`; `EditorSession` the operators of `EditorDocument`. `PetDrag` sees
the engine as a mode and a position; `PetLifecycle` sees the backend as a set of pet
ids that a crash empties and a restart brings back with the counter at zero;
`BackendSupervisor` says when crashes and restarts may happen.

Operators whose comment begins with "Mutant of" are not part of the model. Each
is a plausible mistake in the operator it names, and stands beside it to show
that some property notices the mistake.

### PetEngine

`Service` holds its mutex over each call, so one call is one action; in
particular `engine.Step` and the `TransitionTo` that `Service.StepPet` applies to
the id it returns are one action. `StepPet` is the disjunction of the exits of
`Step`, in the order of the code: no frame (`StepNull`), dragged (`StepDragged`),
gravity (`StepGravity`), border (`StepBorder`), advance (`StepAdvance`), end of
the sequence (`StepSequence`). `Start`, `DragPet`, `DropPet`, `SetPosition`,
`SetScale` and `SetGravityFactor` are the other calls. The variables are the
fields of `Engine`; `loaded` stands for `animFrames`, of which it keeps the
animation they came from.

Abstractions. Positions are on an integer grid whose unit is the engine's border
tolerance. A border context is the set of edges touched. A weighted random pick
is a free choice among the candidates of positive weight. Expressions are
evaluated in the constants; a `repeat` is the set of values its expression may
yield. Sprite, opacity, interval and sound are left out. The constant `Anim` may
name undefined and frameless animations, since the loader accepts both.

Reading the code showed that nothing produces the obstacle context (so `window`
and `obstacle` never match); that a pet climbing a wall is pulled down by gravity
at once; and that no production code calls `Reset`, which is left out. Ids are
positive and weights non-negative, as in all the shipped pets.

### PetLifecycle

Everything between two awaits is one action. The callbacks that run synchronously
inside are functions on the record `app` (`Closed`, `Destroy`, `RemovePetWindow`,
`RemoveFromStore`, `CreatePetWindow`, `StartPetLoop`, ...), composed the way the
code calls them. A window is named by the call of `loadAndCreatePet` that opened
it (`Call`), which keeps apart two windows of one pet id; so is a step loop. `pc`
says which await a call is at:

    idle -> load -> add -> position -> navigate -> committed
                                   \-> rollback -> failed

`page` has the progress of each page: handlers hooked, loaded, the 200 ms show
timer, shown. `seen` is the `stepFailures` a loop read before its await.
`Faults` says what may fail although the backend is up: requests, opening a window
(`WindowFails`) and loading its page; `add_pet
timeout` is the one where the pet was added and the application does not learn
its id. `Crash` breaks the requests in flight (`lost`). `Shutdown` is the quit of
the pet manager and the backend after it. The settings pushed to pets, sound and
the foreground window are left out: they do not change which pets, windows or
timers there are.

### PetDrag

Positions are cells of a line. The three places that know where a pet is are
`window`, `cached` (the store entry) and `engine.at`. `Grab`, `Move` and `Drop` are
the handlers of `pet:drag`, `pet:drag:move` and `pet:drop`; `queue` is the pet's
chain of promises, its head the request under way; `late` are the requests that were
given up and may yet be carried out; `step` is the step loop beside the queue. The
position a queued drop carries is a history value, where the pointer held the pet;
`FallsFromRelease` compares it with the position at which the engine lets the pet
go. The handlers run when the renderer's event happens; the delay of that message,
and the removal of a pet with commands in its queue, are left out. `gaveUp` is
history: the application has given up a request, after which the backend may
disagree with the user (section 5). `engine.falls` says whether the pet has an
animation named `fall`; both kinds of pet are initial states. A dragged engine stays
where it is put: so it is for every shipped pet, whose drag animation has no
movement. A pet with a moving drag animation, or none, would go on moving in the
backend while held (`engine.go:315`).

### BackendSupervisor and BackendPromise

Each invocation of `start()` is a slot of the function `starts`: it awaits the
port search (`port`), then a health request (`check`) or the interval between
two (`interval`). The continuations of a promise run in the turn of the event
that settles it, so the rejection of a start and the `catch` of the restart timer
are functions on the record `manager`, whose fields are those of the class.
`RestartThrows` is a restart that finds no binary and spawns nothing.
`available` is left out: it always equals `ready`. Children go from `running`
through `exiting` (after `error`) to gone (`close`), or are `stopped`, after
which the manager no longer listens to them; a `broken` one could not be
spawned. `restartEnabled` comes from the environment and is chosen once.

`BackendPromise` has a phase and a count of attempts: only the application starts
a backend that is down; one that dies, or a *re*start that fails, is retried at
most `MaxAttempts` times in a row without having been up; a stop is final. The
refinement mapping (`Phase`) reads `ready` as *up*, an armed restart timer as
*waiting*, a start that is neither stopped nor superseded (`Current`) as
*starting*, and anything else as *down*.

### EditorDocument and EditorSession

`EditorDocument` keeps of a document what refers to animations: the ids, the
transitions of the three groups, spawns, children and sounds. The scalar fields
count as fit or not, which is what validation asks. A target chosen from a list
is a string (`parseInputValue`), so a reference is a record with the flag
`picked`: it is never equal to the number it looks like, and normalisation makes
it 0. `Filters` has `Without`, what `filter` leaves of a list, as the places of the
elements it keeps in their order: a definition the prover can reason about, which it
cannot about `SelectSeq`. A layout is the set of animations that have a place in it.

`EditorSession` has the state of `EditorApp` (`document`, `layout`, `path`,
`dirty`, `history`, `index`), the requests under way (`loads`, `saves`,
`relayout`), each with what it captured, and the disk. A file is an inode, so a
writer keeps the file it opened when another save renames it. A save goes

    asked -> write -> rename -> done

with validation, the copy and the truncation of the temporary file in the first
step (`OpenTemporary`), its content in the second, `rename` and the layout's sidecar
in the third, and the answer to the page, if there is one, in the last. Each step
may fail; `Crash` ends the application between any two. `wiped` is the page after
an error nobody catches. `unheard` are the saves whose page was closed: their answers
reach no other page. `raced` and `overlapped` are history: they say whether
edits, loads and saves got in each other's way, which the code does not prevent
(section 5), so that properties can speak of the other cases. Recent documents,
selection, search and previews are left out: a deletion takes any id instead.

### ChatStream and ChatWindow

`producer[s]` and `relay[s]` are the goroutines of the provider's client
(`openai.go:104`) and of `LLMStream` (`service.go:106`): off, free, gone, or
offering an event on an unbuffered channel until the other side takes it.
`handler` is the SSE writer, `wire` what it wrote, `client` the reader. The relay
and the handler listen to the request's context (`Cancelled`), the provider's
goroutine does not. A piece is a text or a blank: the reader trims a line before it looks
for its prefix, so a blank is lost (`Heard`); `said` is the history of pieces.
`Twice` are the streams whose provider sends *done* after an error
(`anthropic.go:133`).

`ChatWindow` adds the page: `inbox` is the one queue through which status and
stream events reach it, `listening` its listeners, `shown` the message that
grows, `messages` the conversation. `Forward` drops what is for a page that has gone.
The supervisor is `BackendPromise`; every phase it reaches is written to the store
and broadcast (`Synced`), and so is the state at any other update (`Broadcast`).
Its other writer is `getDiagnostics`, which the control panel asks for every second or
two: it reads the state (`Diagnose`), awaits two answers, and writes it back
(`Reported`) or not (`DiagnosisFails`). `stored` is what the store holds, `written`
the history of whether a diagnosis wrote it last. Of the state the model keeps whether
the backend is available. Events of one stream have no text beyond being blank;
`\n` and its escape are left out.

### SettingsService and ControlPanel

Every request for a change is a job of a goroutine. `ChangeVolume` writes memory,
then the file, without the lock; `ChangeScale` with it, engines included;
`CopySettings` changes a copy, whose `Write` makes it the memory. A write of the
file is two steps, `Truncate` and `Write`, and what is written over another's write
may be `Mixed`. A save fails before the file is opened (`SaveFails`), over the
emptied file, of which it may write a part (`WriteFails`), or when all is written
(`ChmodFails`). `Crash` kills the backend between any two steps; `Loaded` takes the
defaults for a file that cannot be read. `upset` and `clash` are history: the
settings whose requests got in each other's way or failed, and whether a write
overlapped one without the lock.

`ControlPanel` has the page (`shown`, `loaded`, `polling`, `frame`, `size`), the
settings on their way to it (`answer`), the copies of the main process (`local`)
and its requests (`call`). `Slide` and `Check` are the handlers of the controls:
what they change is shown before it is asked for. All settings but volume and
scale go the same way, so two of them stand for the others: one that the engines
have a copy of, one that changes what there is to see. The content is what the
panel measures; that a maximised window is not sized, and by how much the window
differs from what was asked, is left out.

## 3. The runs

Each cfg has the name of its run.

| Run | States | Shows |
|---|---|---|
| `engine_sheep` | 1,576 | The skeleton of the shipped pets (walk, turn, fall, drag, land) under drags, drops, moves and rescaling. `SequenceOverrunBounded`: the step counter overruns its total by less than one pass of the loop. `LeftAlonePetLands`: a pet left alone is on the floor again and again. |
| `engine_broken` | 2,628 | A pet whose lists name undefined, frameless and missing animations, with two geometries, one of which names only the desktop. `LoadedIsCurrent`, `TriggersOnlyWithoutAnimation`, `StepKeepsPetOnScreen`. |
| `engine_fall` | *violated* | `FallProgresses`; see section 5. |
| `life_calm` | 308,942 | Requests fail only with the backend, which crashes once and is restarted; a window may fail to open; pages load in time. `BackendPetsOwned`, `WindowsShowStoredPets`, `ShutdownClosesWindows`, `LoadedPageCommits`, `DesktopPetsArePolled`, all for the time before the crash, after which ids are reused (section 5); `LostPetsNotPolled`: polling of a lost pet ends, or its id is given out again. |
| `life_crash` | 421,765 | Any request, window and page may fail, one crash and restart. `OpenWindowsRegistered` (no window leaks) and `TimersCancellable` (no timer leaks). |
| `life_slow` | *violated* | `DesktopPetsArePolled` when a page is slow; see section 5. |
| `drag` | 685,566 | Pets with and without a fall animation; grabs may follow a drop at once; requests may be given up and carried out late. Until then: `DrainedQueueAgrees`, `FallsFromRelease`, `ReleasedPetIsFree`. Whatever is given up: `HeldWindowFollowsPointer`. |
| `supervisor` | 5,328 | `ChildrenTracked`, `StopIsFinal`, `RunningChildGetsItsRetries`, and `KeepsPromise`, the refinement of `BackendPromise`. `StartsSettle`, `RestartConcludes`: a start settles and a restart ends, unless a process that runs never answers a health request. |
| `editor` | 1,382,895 | With a preload script the page can use: two edits, two saves, three inputs in all, undo and redo, and a crash. `HistoryHoldsDocument`: undo works on the document shown. `ReferencesResolve`: renaming and deleting leave no reference and no place behind. `CleanMatchesFile`: a document without the star is what the file its title names holds. `FilesWhole`: whatever fails or dies, a file is as the editor found it, or whole and valid. `EditsAreKept`: nothing is discarded unasked or beyond undo. |
| `chat` | 338,482 | Two streams, one whose connection may break, one whose provider reports twice; the backend dies and comes back. `InOrder`, `AnswersWhole`: pieces arrive once, in order, and only a whole answer enters the conversation. `StreamsEnd`: streams and goroutines end. No diagnoses, which do not touch the streams. |
| `chat_status` | 1,721,048 | Streams without text, diagnoses, two status messages in the queue. `PageFollows`: the page believes what the store holds, which is the supervisor's state unless a diagnosis wrote it last; the input is disabled only by that belief or by an answer awaited. |
| `panel` | 1,003,946 | Two changes of any settings, saves that fail before, in and after the write, a crash while writing. `LastChangeHolds`: a change nothing got in the way of is what backend, file, engines, main process and panel have. `EnginesAgree`, `FileReadable`, `SizeFollowsContent`, and `RequestsEnd`: nobody waits for the lock, or for an answer, for ever. |

`engine_broken`, `drag` and `supervisor` also check the type invariant of
their module, which the proofs rest on. In the other modules `TypeOK` says what the
variables hold; no run of the list checks it.

### Bounds, and why they are enough

* **Engine.** Two to five animations, a 7 × 9 screen with a task bar, pets of
  2 × 2 and 4 × 4 units. A pet is spawned outside the screen, can be dragged into
  two places (one touches the wall, one no edge), and can be rescaled in either. That
  reaches each snap on its own, and each combination the geometry allows. `Coord`
  bounds the positions; only an airborne pet off the screen comes near it.
* **Lifecycle.** Two creations give two pets, or a pet and its successor with the
  same id after a crash, which is where windows, timers and removals collide.
  A second crash would only add successors of successors.
  `FailureLimit` is 2 instead of the 5 of the code, so that a failure count can be
  interrupted by a success. `life_crash` uses symmetry of `Call`, which its
  safety properties allow; the runs with liveness do not.
* **Drag.** Three cells let a pet be grabbed off its corner, moved both ways and
  moved again by the engine. The code's queue has no bound; the handlers of the model are
  disabled at `MaxQueue`, and 4 commands hold a whole grab, move and drop
  followed by the next grab. One late request (`MaxLate`) overtakes any later one.
* **Supervisor.** Three slots and three processes: one start searching for a port
  from before a stop, one after it, and a restart. Two stops leave at most two
  superseded port searches, and at most one start is current (proved), so that no
  start is lost for want of a slot.
  Two retries, two attempts and two stops tell the last from the others.
* **Editor.** `Subscribes` is the preload script's missing method (section 5). The
  run has it; without it every page is `wiped` as it is mounted, and there is
  nothing to check. The proofs are for either. Three inputs (edits, saves, opens,
  layouts) and any number of undos: one request under way, an edit over it and a
  second request is the smallest case of each race of section 5. Two animations that
  lead to each other, with one spawn, child and sound, and a third id to rename to,
  reach each kind of reference; two paths let saves hit the same file and different
  ones.
* **Chat.** Each answer has at most three pieces, a blank in the middle: one is
  offered by each goroutine while one is on the wire. Two streams overlap when the
  input is enabled again during the first. `MaxTold` bounds the status messages
  in the page's queue, of which only the last counts; `Diagnosing` switches the
  diagnoses, of which any number may be under way; one retry makes the backend
  die and come up or stay down.
* **Panel.** Two changes, of one setting or of two of the four, meet in each pair
  of steps; a third change finds a state a fresh one does, except for the lock,
  for which two are enough to wait. The search of three changes of three settings
  was ended after some 20 million states without an error.

### Fairness, and what justifies it

* Every request of `BackendClient` is answered, fails, or times out after the 5 s it
  arms (`backend-client.ts:62`). So `Continue` and `Turn` of `PetLifecycle`,
  `CommandAnswer` and `Steps` of `PetDrag` are weakly fair.
* Nothing is assumed of the health requests of a start: they do not go through
  `BackendClient` but through a bare `http.get` without a time-out
  (`backend-manager.ts:501`). `StartsSettle` and `RestartConcludes` except, therefore, a
  start that for ever awaits the answer of a process that runs (`Checking`).
* A timer that is armed fires: the step loops, `ShowTimer`, `RestartFires`,
  `IntervalFires`. A page finishes loading or fails (`DidFinishLoad`, and
  `GiveUp` under `Continue`). A port search ends. The process emits
  `close` after `error`.
* In `PetEngine` the step loop of the application keeps stepping, which is what
  `DesktopPetsArePolled` shows of it. `LeftAlonePetLands` assumes from some point
  on no drag, drop or setting; it assumes nothing of the random picks.
* The goroutines of a stream and the reader go on while they can, and a provider
  answers, ends or fails: its HTTP client gives up after a minute (`openai.go:37`,
  `ollama.go:31`, `gemini.go:24`). Anthropic's has no such limit; there the reader,
  after five minutes without an event, breaks the connection, which ends the request.
  The connection to a backend that died breaks.
  The page takes its messages (`Deliver`).
* The goroutines of the settings go on, the one that gets the lock included
  (`ServiceStep`); every request of the panel is answered or given up after 5 s; a
  frame that was requested is drawn (`ResizeFrame`).
* The editor is checked for safety only: whether a dialog is ever answered is up
  to the user.
* Nothing is assumed of the user, of crashes, or of a backend that is running: it
  may never exit.

`life_*`, `supervisor`, `editor`, `chat` and `panel` say `CHECK_DEADLOCK FALSE`:
the application may quit, a backend that was stopped may stay so, and where the
bounds run out the user may stop. The other runs check deadlock.

## 4. The proofs

The proofs hold for all values of the constants that satisfy the named
assumptions of the modules: every set of animations, every geometry, every
number of processes. TLC evaluates these assumptions in each run.

**PetEngineProofs.** The inductive invariant is

    IInv == TypeOK /\ LoadedIsCurrent /\ TriggersOnlyWithoutAnimation /\ CursorBehind

where `CursorBehind` relates the step counter to the frame index, the fact
`SequenceOverrunBounded` rests on: that bound alone is not inductive, because a
step inside the loop says nothing of how far the counter is from the next wrap.
`StepKeepsPetOnScreen` follows from the arithmetic of the four snaps in turn.
Theorems: `TypeCorrect`, `FramesMatchMovement`, `TriggersNeverSuppress`,
`SequencesEnd`, `StepsKeepOnScreen`.

**PetDragProofs.** The inductive invariant is

    IInv == TypeOK /\ HoldingAgrees /\ (~gaveUp => InOrder)
    InOrder == late = {} /\ LastCommandHolds /\ DropsFollowDrags

`HoldingAgrees` ties the renderer's flag to `draggingPets`. `LastCommandHolds`
says that the last request of the queue, or the engine when it is empty, agrees
with the hand of the user; `DropsFollowDrags` says where a queued drop will find
the engine, and is what makes a statement about the whole queue inductive.
Theorems: `TypeCorrect`; `BackendAgrees` and `DropsWhereHeld`, until a request is given
up; `HeldWindowStays`, whatever is given up.

**BackendSupervisorProofs.** The inductive invariant is

    IInv == TypeOK /\ ChildrenTracked /\ StopIsFinal /\ SettledClean
              /\ WaitsHold /\ SearchesHold /\ ReadyHolds /\ TimerHolds /\ UnaskedHolds

The last five say, for each thing that can keep the supervisor busy (a start that
waits for its process, one that searches for a port, a backend that is ready, an
armed timer, nothing asked), what it excludes. Together: at most one start is
current, a current start excludes readiness and an armed timer, and a start of an
earlier generation never becomes current again. The refinement needs exactly
that, one lemma per action: each maps to a step of `BackendPromise` or to a
stutter. `RunningChildGetsItsRetries` needs besides that a start that waits finds no
exit status and has a health check left (`TriesHold`). Theorems: `TypeCorrect`,
`NoProcessIsLost`, `NothingAfterStop`, `RetriesAreGiven`, `Implements`.

**PetLifecycleProofs.** The callbacks are functions on the record `app`, so what
each keeps is proved of any such record, and the actions, which compose them, inherit
it. The invariant that is kept is `Good`: the window manager knows each window under
the id of its pet (`Named`), each open window is one it knows (`Registered`), each
armed timer is the one its id leads to (`Cancellable`), and who is polled has failures
left (`Counted`). The inductive invariants come in two layers:

    LifeInv == Around /\ Good(app, petOf) /\ Numbered /\ Few
    Calm    == crashes = 0 => no id is given out twice, no removal is lost,
                              and each open window shows a pet of the store

`Few` (no more ids than calls that were answered) bounds the ids. `LifeInv` holds
through crashes, which is why no window and no timer leaks even when ids are
reused; `Calm` is what a crash ends. `BackendPetsOwned` is kept by each step on top of
both. Theorems: `TypeCorrect`, `NoWindowLeaks`, `NoTimerLeaks`, `WindowsShowPets`,
`ShutdownCloses`, `LoadedPagesCommit`; and `NoPetIsOrphaned`, which assumes that no
removal fails and no `add_pet` is given up while the backend is up. Both leave an
orphan (section 5).

**FiltersProofs.** The list that `Without` leaves is described by the places of its
elements; from that follow what it keeps of a list that is joined to another, begins
another, grows by one element or loses its first. Induction over numbers goes by
the least element of a set, a fact of the library about well-founded relations.

**EditorSessionProofs.** The first half is about `EditorDocument`: what each operation
makes of the parts of a document, that it makes a document, and that it keeps a
document together, every reference of it leading to an animation or being a `picked`
one. The second half has four layers, each inductive given those before:

    PageInv  == TypeOK /\ PageFresh /\ DiscardsConfirmed /\ HistoryHoldsDocument
    FileInv  == InodesApart /\ InodesGiven /\ SavesChecked /\ SavesHold /\ FilesWhole
    CleanInv == CleanHolds /\ CleanMatchesFile
    SoundInv == AllSound /\ ReferencesResolve

`FilesWhole` rests on who has which file open: no two paths have one file, the
file a save will make is nobody's (`InodesApart`, `InodesGiven`), and a save knows what
its files hold (`SavesHold`). `CleanMatchesFile` rests on what a save has captured and a
load has read (`CleanHolds`). The answer of a save whose page was closed is heard by
nobody (`unheard`). `ReferencesResolve` is kept because all that can come to
be shown is sound: the history, every request, every file (`AllSound`). Theorems:
`TypeCorrect`, `HistoryHolds`, `EditsKept`, `FilesStayWhole`, `CleanMatches`; and
`ReferencesStay`, which assumes that the file found at first is together when
normalised. The editor opens a file that is not, and shows it as it is.

**ControlPanelProofs.** Three layers: `ServiceInv`, the backend alone (who holds the
lock, who is amid a change, what a write finds in the file); `PanelInv`, which adds the
panel and its calls; and `Agreed(k)` for each setting nothing got in the way of. The last
says, wherever the request for the setting is, which of the copies have the old value and
which the new one; in particular that a request for another setting, which copies them
all, has it as the memory does (`CopyHolds`). `FileReadable` is part of `ServiceInv` and
`SizeFollowsContent` of `PanelInv`. Theorems: `TypeCorrect`,
`EnginesHaveSettings`, `FileStaysReadable`, `SizeFollows`, `LastChangeStays`.

**ChatWindowProofs.** The layers follow an answer on its way:

    StreamInv == StreamTypeOK /\ \A s : Stage(s)
    PageInv   == StreamInv /\ TypeOK /\ Closed /\ Fresh /\ NoBlanks
    Follows, Lined, Dones, Conversation

`Stage` says of a stream how far provider, relay, handler, connection and reader can be
from each other. `Follows` is `PageFollows` with the last status in the queue
told by place, kept whoever writes the store. `Lined` speaks of each stream the page
listens to: its message, its queue and what was not read yet are a beginning of what
the provider has said; while the connection holds, the rest is what the two goroutines
offer. That is `InOrder` for every step of the way, which `InOrder` itself is not.
`Dones` says that an end on its way to the page has all the text before it, and none
behind it; with `Lined` it makes an answer that enters the conversation whole
(`Conversation`). The proofs hold for any number of streams, pieces and retries, and
any choice of the streams that break or report twice. Theorems: `TypeCorrect`,
`PageIsTold`, `AnswersInOrder`, `AnswersAreWhole`.

**Only model-checked.** Liveness (`LeftAlonePetLands`, `DesktopPetsArePolled`,
`LostPetsNotPolled`, `ReleasedPetIsFree`, `StartsSettle`, `RestartConcludes`,
`StreamsEnd`, `RequestsEnd`), because the prover does not handle `ENABLED`, hence
fairness. Every invariant and every action property of the passing runs is
proved, two of them under the assumptions named above: `BackendPetsOwned` and
`ReferencesResolve`.
`BackendPromise` states safety only, so its refinement is proved entirely.

## 5. Where code and documents differ

With a run that shows it:

1. **A fall does not accelerate** (`engine_fall`). The fallback of `Step` takes the
   animation `fall` for any airborne pet, also one that is falling
   (`engine.go:347`), and the transition restarts it. So `fall` shows its first
   frame at its start speed all the way, although `docs/explanation/animation-engine.md:20`
   says movement is interpolated over the animation.
2. **A slow page leaves its pet without steps** (`life_slow`). When the step loop's
   timer fires before `did-finish-load`, the loop ends without a trace in the
   store and nothing starts it again (`pet-manager.ts:499`).

Met while modelling, without a run of their own:

The three that a property excepts or a run assumes away:

* **The editor's page cannot be mounted.** The effect that loads the document calls
  `window.clodPet.on` (`EditorApp.tsx:549`), which `app/src/editor/globals.d.ts:49`
  declares and the preload script does not expose (`preload.ts:5`). The effect throws,
  and React shows the message of `EditorErrorBoundary` (`EditorApp.tsx:97`) instead of
  the editor. With `Subscribes = FALSE`, TLC ends after the first page. All else this
  document says of the editor is of an editor that has the method.
* **A document saved under another name does not open.** Opening any file reads the
  `animations.json` beside it (`editor-window.ts:316`); `app/src/editor/SPEC.md:408`
  wants saved files to be opened again. `CleanMatchesFile` therefore compares with the
  file the title names, and says nothing of opening it.
* **The store loses the backend's state.** `getDiagnostics` reads it, awaits two
  answers and writes it back (`main.ts:346`, `:363`), over what the supervisor has
  written meanwhile; `docs/explanation/architecture.md:49` calls the store the source
  of truth. An input can stay disabled over a backend that is ready, until the
  supervisor has something new to write. `PageFollows` excepts a store a diagnosis
  wrote last.

Engine, pets and windows:

* `repeat` 0 plays once (`engine.go:571`); `docs/reference/animations-json.md:98`
  says infinite.
* The `only` of a gravity entry is ignored (`engine.go:657`);
  `animations-json.md:103` and `:110` describe it for every list.
* Without an animation named `fall`, a drop sets the animation to 0
  (`engine.go:499`) and the pet yields null states until it is dragged;
  `animation-engine.md:38` says only that the fall animation is played "if defined".
* With a gravity multiplier of 1.0 and scale 1 the ceiling's snap undoes the first
  step of a fall (`engine.go:449`). The default is 2.0; `engine_sheep` checks 2
  and 3.
* A grab before the answer that follows a drop sends the stale cached position
  (`pet-manager.ts:629`).
* A drag that was given up may be carried out after its drop and leave the pet
  dragged (`backend-client.ts:62`); this is why `ReleasedPetIsFree` speaks of the time
  until a request is given up.
* `offset_y` is added to the cached position but is unknown to the engine, so a grab
  shifts such a pet by the offset (`pet-manager.ts:543`).
* With several displays the floor is that of their bounding box
  (`border-detector.ts:153`); `animation-engine.md:74` speaks of the pet's display.
* Ids are reused after a crash: the restarted backend counts from `pet_1` while
  the old pets are on the desktop. Creating a pet destroys the window of that id,
  whose handler removes the new pet, and a creation in which nothing failed is rolled
  back (`window-manager.ts:57`; `pet-manager.test.ts:410` says "successful
  initialization commits one pet"). The loop of the old pet takes over the timer
  of the id, a removal that fails with the crash takes the new entry along, and a
  shutdown may miss the new window. `life_calm` therefore states five of its
  properties for the time before a crash.
* A window can stay where it was dropped: the subscriber moves a window when the
  cached position changes, a drag moves it without that. A pet that snaps back to
  where it was grabbed keeps its window in mid-air until it moves
  (`window-manager.ts:42`, under the comment "Synchronize positions").
* A `stop()` followed by `start()` in one turn lets the `catch` of a pending
  restart (`backend-manager.ts:571`) find `shuttingDown` cleared, and it schedules
  a second start. No caller does so, and the model starts in a later turn.
* A first start that times out leaves its process alive and the state `starting`;
  the process is still tracked and ends with a stop.
* A restart whose process cannot be spawned is not retried, whatever attempts are
  left.
* A process that accepts a health request and never answers it keeps its start
  pending: the request has no time-out (`backend-manager.ts:501`), and the next is
  sent only after this one.
* An `add_pet` that is given up after the backend has carried it out leaves a pet no
  window will show (`pet-manager.ts:252`), and a removal that fails is forgotten by
  the application, not by the backend (`pet-manager.ts:455`).
* The renderer has no handler for a cancelled pointer (`pet-renderer.ts:250`): the
  pet then follows the pointer without a button pressed, until the next release.

Editor:

* A target chosen from a list is a string. Renaming and deleting do not see it,
  validation calls it an error, and saving makes it 0 and refuses: "cannot save invalid
  document" (`EditorApp.tsx:177`). `ReferencesResolve` excepts such references.
* The answer of a save clears the star over edits and loads made since
  (`EditorApp.tsx:597`), and the title then says that nothing is unsaved.
  `CleanMatchesFile` is stated without such races.
* The layout engine's answer puts back the document it was given, over edits and under
  the path of a document loaded since (`EditorApp.tsx:753`). What it replaces can be
  undone (`EditsAreKept`) unless it was loaded.
* Loads settle in the order of their answers, over edits made since they were
  confirmed (`EditorApp.tsx:498`).
* A load or layout that is rejected is an unhandled rejection: the page is replaced
  by its message, unsaved changes included.
* Two saves of one file share the name of their temporary file; one may rename what
  the other has just emptied (`editor-window.ts:350`). `FilesWhole` excepts them.
* Leaving any field records a snapshot and sets the star; leaving an id unchanged
  forgets the saved place of its node (`EditorApp.tsx:642`).
* Inputs are uncontrolled and without a key: they keep showing what was typed for
  another selection (`EditorApp.tsx:943`). A click on the edge of a spawn or child
  selects a transition that does not exist (`EditorApp.tsx:407`).
* Quitting with unsaved changes runs `shutdown` and is then refused by the page:
  the application stays, without pets and backend (`main.ts:406`).
* Sounds are not validated.

Chat:

* Any update of the store enables the input during a stream (`chat.ts:62`), any
  error does although the backend is unavailable (`chat.ts:97`). Only the other
  direction holds (`PageFollows`). After an error two questions follow each other in
  what the provider is sent.
* Pieces of white space are lost and others are trimmed at their end
  (`backend-client.ts:239`); `\n` is escaped without its backslash
  (`main.go:260`), so that a text which holds the two characters is changed.
* The provider's goroutine is left over when the connection ends while it offers an
  event (`openai.go:160`), and always when Anthropic reports an error
  (`anthropic.go:131`, `:133`). `StreamsEnd` excepts both.
* Closing the chat does not abort its stream.
* A restarting backend is unavailable, so the banner that says it is restarting
  is never shown (`chat.ts:44` before `:53`; the same in `pet-renderer.ts:200`).
* `LLMStream` reads the provider's settings without the lock (`service.go:88`).

Control panel and settings:

* A slider's requests overlap, and may be served and answered in different orders;
  panel, backend and main process may each keep another value.
* `UpdateVolume` takes no lock (`service.go:424`): it and `SetSettings` can undo each
  other, and their writes of the file can mix.
* Settings that arrive late replace what the user has changed since
  (`control-panel.ts:187`). A change that fails stays shown.
* A failed change of a check box leaves the window in its old size
  (`control-panel.ts:536`). A size asked for while the window is maximised is
  dropped and not asked for again (`main.ts:209`, `control-panel.ts:150`).
* The file is emptied before it is written (`settings.go:133`): on a full disk, or
  when the backend is killed, the old settings are gone from it. Settings that
  cannot be read are replaced by the defaults without a word at the next start
  (`main.go:149`). A scale whose save fails is in effect all the same
  (`service.go:436`).
* The application scales itself at every start at which the scale is exactly 1
  (`main.ts:79`), also when the user has chosen that.

## 6. What is not modelled, and why

* *Pet loading and conversion, expressions, sound, logging, command line tools*:
  conversions of data or pure input and output. `PetEngine` takes the decoded
  pet, mistakes included, as a constant.
* *HTTP server, tray, preload*: routing and forwarding without state, but for the
  SSE handler and the channel of a stream.
* *Diagnostics*: what is shown of them is text; their effect on the store is in
  `ChatWindow`.
* *`step_pets` and the shared pet cache* of the service: the application does not
  call the one, and the other changes nothing anyone can tell but the time.
* *The foreground window* in `PetLifecycle`, the latency of renderer messages and
  the removal of a queue in `PetDrag`, selection, previews and recent documents in
  `EditorSession`, migration of old files in `SettingsService`; see section 2.
* *Borders and displays*: a pure computation, in the plan.

## 7. Plan

Done, in this order: `PetEngine`, because everything a user sees comes from it;
`PetLifecycle`, the largest source of interleavings; `PetDrag`; the supervisor
and its abstract specification; the editor; the chat; the settings with the
control panel; the proofs of section 4.

Next:

1. `PetOwnership`: an abstract specification of who owns a pet (backend, store,
   window), implemented by `PetLifecycle`; `Crash` and `Restart` of
   `PetLifecycle` driven by `BackendPromise`.
2. `Borders`: the geometry the displays give, over bounded inputs, as a source of
   `Worlds`.
