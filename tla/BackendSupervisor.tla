-------------------------- MODULE BackendSupervisor --------------------------
(***************************************************************************)
(* BackendManager: it starts the backend process, waits until it answers,   *)
(* restarts it when it dies, and stops it when the application quits.       *)
(*                                                                         *)
(* Each invocation of start() is a slot of the function starts.  It awaits  *)
(* a free port, then polls the health of its child until that answers; the  *)
(* rejection of a start and the catch of the restart timer run in the turn  *)
(* of the event that causes them, so they are functions on the record       *)
(* manager.  A child that is told to stop is no longer listened to.         *)
(*                                                                         *)
(* Left out: `available`, which always equals `ready`; messages, codes and  *)
(* captured output; and delays, a timer that is armed may fire.             *)
(***************************************************************************)
EXTENDS Naturals

CONSTANTS
  Slot,         \* invocations of start() that may be under way at a time
  Child,        \* processes that may run at a time
  None,
  MaxRetries,   \* health checks of one start
  MaxAttempts,  \* restartMaxAttempts
  MaxStops      \* bound on the calls of stop

ASSUME NoneIsNew == None \notin Slot \cup Child
ASSUME LimitsDefined == {MaxRetries, MaxAttempts} \subseteq Nat \ {0} /\ MaxStops \in Nat

VARIABLES
  manager,      \* fields of BackendManager
  starts,       \* invocations of start()
  children,     \* state of each process
  asked         \* the application has called start() since the last stop

vars == <<manager, starts, children, asked>>

State == {"idle", "starting", "ready", "restarting", "failed", "fatal",
          "spawn_error", "stopped"}

Manager == [process        : Child \cup {None},
            state          : State,
            ready          : BOOLEAN,
            exited         : BOOLEAN,   \* exitCode is set
            restartEnabled : BOOLEAN,
            restartAttempt : 0..MaxAttempts,
            restartTimer   : BOOLEAN,
            readyTimer     : Slot \cup {None},  \* the start whose interval is stored
            readyReject    : Slot \cup {None},  \* the start stop() rejects
            shuttingDown   : BOOLEAN,
            generation     : 0..MaxStops]

Invocation == [at         : {"none", "port", "check", "interval"},
               by         : {"app", "timer"},
               generation : 0..MaxStops,
               child      : Child \cup {None},
               retries    : 0..MaxRetries]

Settled == [at |-> "none", by |-> "app", generation |-> 0, child |-> None, retries |-> 0]

\* A broken child could not be spawned; an exiting one has emitted "error" but
\* not yet "close"; a stopped one has been sent SIGTERM.
ChildState == {"none", "running", "broken", "exiting", "stopped"}

Init ==
  /\ manager \in [process : {None}, state : {"idle"}, ready : {FALSE},
                  exited : {FALSE}, restartEnabled : BOOLEAN,
                  restartAttempt : {0}, restartTimer : {FALSE},
                  readyTimer : {None}, readyReject : {None},
                  shuttingDown : {FALSE}, generation : {0}]
  /\ starts = [s \in Slot |-> Settled]
  /\ children = [c \in Child |-> "none"]
  /\ asked = FALSE

-----------------------------------------------------------------------------
(* Synchronous effects on the record manager *)

\* Mutant of Begun: keeps the exit code of the process before.
BegunContaminated(m) ==
  [m EXCEPT !.shuttingDown = FALSE, !.ready = FALSE, !.restartTimer = FALSE,
            !.state = IF @ = "restarting" THEN @ ELSE "starting"]

\* start() up to its first await.
Begun(m) ==
  [m EXCEPT !.shuttingDown = FALSE, !.ready = FALSE, !.exited = FALSE,
            !.state = IF @ = "restarting" THEN @ ELSE "starting",
            !.restartTimer = FALSE]

\* Mutant of ScheduleRestart: does not count the attempt.
ScheduleUncounted(m) ==
  IF m.shuttingDown \/ ~m.restartEnabled THEN m
  ELSE IF m.restartAttempt >= MaxAttempts THEN [m EXCEPT !.state = "fatal", !.ready = FALSE]
  ELSE [m EXCEPT !.state = "restarting", !.restartTimer = TRUE]

\* Mutant of ScheduleRestart: allows one attempt too many.
ScheduleOneTooMany(m) ==
  IF m.shuttingDown \/ ~m.restartEnabled THEN m
  ELSE IF m.restartAttempt > MaxAttempts THEN [m EXCEPT !.state = "fatal", !.ready = FALSE]
  ELSE [m EXCEPT !.restartAttempt = @ + 1, !.state = "restarting", !.restartTimer = TRUE]

\* The delay grows with the attempts, up to a limit; it is left out.
ScheduleRestart(m) ==
  IF m.shuttingDown \/ ~m.restartEnabled THEN m
  ELSE IF m.restartAttempt >= MaxAttempts THEN [m EXCEPT !.state = "fatal", !.ready = FALSE]
  ELSE [m EXCEPT !.restartAttempt = @ + 1, !.state = "restarting", !.restartTimer = TRUE]

\* Mutant of RestartFailed: does not ask whether the child still runs.
RestartFailedUnblocked(m) ==
  IF m.shuttingDown THEN m
  ELSE ScheduleRestart([m EXCEPT !.ready = FALSE, !.state = "restarting"])

\* The catch of the restart timer: a readiness time-out can leave a child alive.
RestartFailed(m) ==
  IF m.shuttingDown THEN m
  ELSE IF m.process # None THEN [m EXCEPT !.ready = FALSE, !.state = "fatal"]
  ELSE ScheduleRestart([m EXCEPT !.ready = FALSE, !.state = "restarting"])

\* cleanup of _waitForReady.
Cleanup(m, s) ==
  [m EXCEPT !.readyReject = IF @ = s THEN None ELSE @, !.readyTimer = None]

\* The exit status of another process would be taken for that of this one.
Contaminated(m) == m.state \in {"starting", "restarting"} /\ m.exited

\* The "close" handler of start().
Closed(m) ==
  LET gone == [m EXCEPT !.exited = TRUE, !.readyTimer = None, !.process = None]
  IN  IF m.shuttingDown THEN [gone EXCEPT !.state = "stopped"]
      ELSE IF ~m.ready THEN [gone EXCEPT !.state = "failed"]
      ELSE ScheduleRestart(
             [gone EXCEPT !.ready = FALSE,
                          !.state = IF m.restartEnabled THEN "restarting" ELSE "fatal"])

-----------------------------------------------------------------------------
(* start() *)

\* finishReject: the start of slot s rejects; the application's is only logged.
Reject(m, s) ==
  /\ manager' = IF starts[s].by = "timer" THEN RestartFailed(Cleanup(m, s)) ELSE Cleanup(m, s)
  /\ starts' = [starts EXCEPT ![s] = Settled]

\* The child is spawned, and its health is asked for in the same turn.
Spawn(m, s, by, generation) ==
  \E c \in Child, how \in {"running", "broken"} :
    /\ children[c] = "none"
    /\ children' = [children EXCEPT ![c] = how]
    /\ LET spawned == [m EXCEPT !.process = c, !.readyReject = s]
       IN  IF Contaminated(spawned)
           THEN /\ manager' = IF by = "timer" THEN RestartFailed(Cleanup(spawned, s))
                              ELSE Cleanup(spawned, s)
                /\ UNCHANGED starts
           ELSE /\ manager' = spawned
                /\ starts' = [starts EXCEPT ![s] =
                     [at |-> "check", by |-> by, generation |-> generation,
                      child |-> c, retries |-> 0]]

\* The application starts the backend once, and again after a stop.  The port
\* is not known then, so it is searched for.
Start(s) ==
  /\ ~asked /\ starts[s] = Settled
  /\ asked' = TRUE
  /\ manager' = Begun(manager)
  /\ starts' = [starts EXCEPT ![s] =
       [at |-> "port", by |-> "app", generation |-> manager.generation,
        child |-> None, retries |-> 0]]
  /\ UNCHANGED children

Cancelled(s) == manager.shuttingDown \/ starts[s].generation # manager.generation

\* Mutant of PortFound: spawns without asking whether it was cancelled.
PortFoundLate(s) ==
  /\ starts[s].at = "port"
  /\ Spawn(manager, s, "app", starts[s].generation)
  /\ UNCHANGED asked

PortFound(s) ==
  /\ starts[s].at = "port"
  /\ ~Cancelled(s)
  /\ Spawn(manager, s, "app", starts[s].generation)
  /\ UNCHANGED asked

\* A start that was cancelled, one without a port or a binary, throws.
PortFails(s) ==
  /\ starts[s].at = "port"
  /\ starts' = [starts EXCEPT ![s] = Settled]
  /\ UNCHANGED <<manager, children, asked>>

\* The restart timer starts the backend on the port it had.
RestartFires(s) ==
  /\ manager.restartTimer /\ starts[s] = Settled
  /\ IF manager.shuttingDown
     THEN manager' = [manager EXCEPT !.restartTimer = FALSE] /\ UNCHANGED <<starts, children>>
     ELSE Spawn(Begun(manager), s, "timer", manager.generation)
  /\ UNCHANGED asked

\* It finds no binary: start() throws before it spawns.
RestartThrows ==
  /\ manager.restartTimer /\ ~manager.shuttingDown
  /\ manager' = RestartFailed(Begun(manager))
  /\ UNCHANGED <<starts, children, asked>>

-----------------------------------------------------------------------------
(* _waitForReady *)

Checking(s) == starts[s].at = "check" /\ children[starts[s].child] = "running"

HealthOk(s) ==
  /\ Checking(s)
  /\ IF Cancelled(s) THEN Reject(manager, s)
     ELSE /\ manager' = [Cleanup(manager, s) EXCEPT
                !.ready = TRUE, !.state = "ready", !.restartAttempt = 0]
          /\ starts' = [starts EXCEPT ![s] = Settled]
  /\ UNCHANGED <<children, asked>>

\* Mutant of HealthFails: the retries have no limit.
HealthFailsForever(s) ==
  /\ Checking(s)
  /\ IF Contaminated(manager) THEN Reject(manager, s)
     ELSE /\ manager' = [manager EXCEPT !.readyTimer = s]
          /\ starts' = [starts EXCEPT ![s].at = "interval", ![s].retries = @ + 1]
  /\ UNCHANGED <<children, asked>>

HealthFails(s) ==
  /\ Checking(s)
  /\ IF Contaminated(manager) \/ starts[s].retries + 1 >= MaxRetries
     THEN Reject(manager, s)
     ELSE /\ manager' = [manager EXCEPT !.readyTimer = s]
          /\ starts' = [starts EXCEPT ![s].at = "interval", ![s].retries = @ + 1]
  /\ UNCHANGED <<children, asked>>

IntervalFires(s) ==
  /\ starts[s].at = "interval" /\ manager.readyTimer = s
  /\ IF Contaminated(manager) THEN Reject(manager, s)
     ELSE starts' = [starts EXCEPT ![s].at = "check"] /\ UNCHANGED manager
  /\ UNCHANGED <<children, asked>>

-----------------------------------------------------------------------------
(* Events of the child *)

\* After the handlers of start() the ones of a wait for this child run.
Notify(m, c) ==
  LET waiting == {s \in Slot : starts[s].child = c}
  IN  \/ waiting = {} /\ manager' = m /\ UNCHANGED starts
      \/ \E s \in waiting : Reject(m, s)

SpawnError(c) ==
  /\ children[c] = "broken"
  /\ children' = [children EXCEPT ![c] = "exiting"]
  /\ Notify([manager EXCEPT !.state = "spawn_error"], c)
  /\ UNCHANGED asked

Close(c) ==
  /\ children[c] \in {"running", "exiting"}
  /\ children' = [children EXCEPT ![c] = "none"]
  /\ Notify(Closed(manager), c)
  /\ UNCHANGED asked

Exit(c) ==
  /\ children[c] = "stopped"
  /\ children' = [children EXCEPT ![c] = "none"]
  /\ UNCHANGED <<manager, starts, asked>>

-----------------------------------------------------------------------------
(* stopWithReason *)

StopRejecting(rejected) ==
  /\ manager.generation < MaxStops
  /\ manager' = [manager EXCEPT
       !.shuttingDown = TRUE, !.generation = @ + 1, !.ready = FALSE,
       !.state = "stopped", !.restartTimer = FALSE, !.restartAttempt = 0,
       !.readyTimer = None, !.readyReject = IF @ \in rejected THEN None ELSE @,
       !.process = None, !.exited = FALSE]
  /\ starts' = [s \in Slot |-> IF s \in rejected THEN Settled ELSE starts[s]]
  /\ children' = [c \in Child |-> IF c = manager.process THEN "stopped" ELSE children[c]]
  /\ asked' = FALSE

\* Mutant of Stop: clears the timer of the wait without rejecting it.
StopWithoutReject == StopRejecting({})

\* The start that waits for its child is rejected; a restart that is rejected
\* finds shuttingDown set and returns.
Stop == StopRejecting({manager.readyReject})

Next ==
  \/ \E s \in Slot : \/ Start(s) \/ PortFound(s) \/ PortFails(s) \/ RestartFires(s)
                     \/ HealthOk(s) \/ HealthFails(s) \/ IntervalFires(s)
  \/ \E c \in Child : SpawnError(c) \/ Close(c) \/ Exit(c)
  \/ RestartThrows \/ Stop

Spec == Init /\ [][Next]_vars

\* The port search ends, timers fire, and a process that could not be spawned
\* says so.  A health request has no time-out: it may never be answered.
FairSpec ==
  /\ Spec
  /\ \A s \in Slot : /\ WF_vars(PortFound(s) \/ PortFails(s))
                     /\ WF_vars(IntervalFires(s))
  /\ WF_vars(RestartThrows \/ \E s \in Slot : RestartFires(s))
  /\ \A c \in Child : WF_vars(SpawnError(c)) /\ WF_vars(children[c] = "exiting" /\ Close(c))

-----------------------------------------------------------------------------
(* Properties *)

TypeOK ==
  /\ manager \in Manager
  /\ starts \in [Slot -> Invocation]
  /\ children \in [Child -> ChildState]
  /\ asked \in BOOLEAN

\* No process is lost track of: one that was spawned and not told to stop is
\* the one the manager would stop, however starts, restarts and stops overlap.
ChildrenTracked ==
  \A c \in Child : children[c] \in {"running", "broken", "exiting"} => c = manager.process

\* Nothing happens after a stop: no process, no restart and no wait for one is
\* left, and a start that was searching for a port meanwhile spawns nothing.
StopIsFinal ==
  manager.shuttingDown =>
    /\ manager.process = None /\ ~manager.restartTimer
    /\ \A s \in Slot : starts[s].at \notin {"check", "interval"}

Waiting(s, c) == starts[s].child = c

\* A process that runs is waited for until it answers or all the retries of its
\* start have failed; the exit status of an earlier process is not taken for its
\* own.
RunningChildGetsItsRetries ==
  [][\A c \in Child :
       children'[c] = "running" /\ (\A s \in Slot : ~Waiting(s, c)')
         => /\ children[c] = "running"
            /\ \A s \in Slot :
                 Waiting(s, c) => manager'.ready \/ starts[s].retries + 1 = MaxRetries]_vars

\* Every start() settles, also when its process dies, cannot be spawned or is
\* stopped, unless a process that goes on running never answers one of its health
\* requests, which have no time-out.
StartsSettle == \A s \in Slot : []<>(starts[s] = Settled) \/ <>[]Checking(s)

\* A restart is not pending for ever, unless as above: the backend is up again, or
\* it is given up, or stopped.
RestartConcludes ==
  []<>(manager.state # "restarting") \/ \E s \in Slot : <>[]Checking(s)

-----------------------------------------------------------------------------
(* The abstract specification *)

Current(s) == starts[s].at # "none" /\ ~Cancelled(s)

Phase ==
  IF manager.ready THEN "up"
  ELSE IF manager.restartTimer THEN "waiting"
  ELSE IF \E s \in Slot : Current(s) THEN "starting"
  ELSE "down"

Promise == INSTANCE BackendPromise WITH phase <- Phase, attempts <- manager.restartAttempt

\* The supervisor keeps what BackendPromise promises: in particular no more
\* than MaxAttempts restarts in a row, and none after a stop.
KeepsPromise == Promise!Spec
=============================================================================
