----------------------- MODULE BackendSupervisorProofs -----------------------
(***************************************************************************)
(* The supervisor loses track of no process, does nothing after a stop, and *)
(* keeps what BackendPromise promises, for any number of starts, processes, *)
(* retries, attempts and stops.                                             *)
(*                                                                         *)
(* At most one start is current, and it excludes the other reasons for      *)
(* which the backend is not down: a start that waits has the process of the *)
(* manager, one that searches for a port finds none there, and neither      *)
(* comes with a restart timer or a backend that is ready.                   *)
(***************************************************************************)
EXTENDS BackendSupervisor, TLAPS

Waits(s) == starts[s].at \in {"check", "interval"}

Quiet == manager.process = None /\ ~manager.ready /\ ~manager.restartTimer

SettledClean == \A s \in Slot : starts[s].at = "none" => starts[s] = Settled

WaitsHold ==
  \A s \in Slot : Waits(s) =>
    /\ starts[s].child = manager.process /\ manager.process # None
    /\ manager.readyReject = s
    /\ ~manager.ready /\ ~manager.restartTimer /\ ~Cancelled(s)
    /\ starts[s].by = "timer" => manager.restartAttempt > 0

SearchesHold ==
  \A s \in Slot : starts[s].at = "port" =>
    /\ starts[s].child = None /\ starts[s].by = "app"
    /\ starts[s].generation <= manager.generation
    /\ ~asked => starts[s].generation < manager.generation
    /\ ~Cancelled(s) => /\ Quiet /\ ~manager.exited
                        /\ \A t \in Slot : Current(t) => t = s

ReadyHolds ==
  manager.ready =>
    manager.process # None /\ ~manager.restartTimer /\ ~manager.shuttingDown

TimerHolds ==
  manager.restartTimer =>
    /\ manager.process = None /\ ~manager.shuttingDown
    /\ manager.restartAttempt > 0
    /\ asked

UnaskedHolds == ~asked => Quiet /\ manager.restartAttempt = 0

IInv ==
  /\ TypeOK /\ ChildrenTracked /\ StopIsFinal
  /\ SettledClean /\ WaitsHold /\ SearchesHold
  /\ ReadyHolds /\ TimerHolds /\ UnaskedHolds

-----------------------------------------------------------------------------
(* What the functions on the record manager return *)

Alike(m, r) ==
  /\ r \in Manager /\ r.process = m.process /\ r.generation = m.generation
  /\ r.shuttingDown = m.shuttingDown /\ r.exited = m.exited

NoRetry(m, r) == r.restartTimer = m.restartTimer /\ r.restartAttempt = m.restartAttempt

WillRetry(m, r) ==
  /\ r.restartTimer /\ m.restartAttempt < MaxAttempts
  /\ r.restartAttempt = m.restartAttempt + 1

\* A start that begins keeps process, generation, attempts and the waiting start.
LEMMA BegunFields ==
  ASSUME NEW m \in Manager
  PROVE  /\ Begun(m) \in Manager
         /\ Begun(m).process = m.process /\ Begun(m).generation = m.generation
         /\ Begun(m).restartAttempt = m.restartAttempt
         /\ Begun(m).readyReject = m.readyReject
         /\ ~Begun(m).shuttingDown /\ ~Begun(m).ready /\ ~Begun(m).exited
         /\ ~Begun(m).restartTimer
BY DEF Begun, Manager, State

\* Scheduling a restart arms the timer and counts, or does neither.
LEMMA ScheduleFields ==
  ASSUME NEW m \in Manager
  PROVE  /\ Alike(m, ScheduleRestart(m))
         /\ ScheduleRestart(m).readyReject = m.readyReject
         /\ ~m.ready => ~ScheduleRestart(m).ready
         /\ \/ NoRetry(m, ScheduleRestart(m))
            \/ WillRetry(m, ScheduleRestart(m)) /\ ~m.shuttingDown
<1> USE LimitsDefined DEF Manager, State, Alike, NoRetry, WillRetry
<1>1. CASE m.shuttingDown \/ ~m.restartEnabled
  BY <1>1 DEF ScheduleRestart
<1>2. CASE ~(m.shuttingDown \/ ~m.restartEnabled) /\ m.restartAttempt >= MaxAttempts
  BY <1>2 DEF ScheduleRestart
<1>3. CASE ~(m.shuttingDown \/ ~m.restartEnabled) /\ ~(m.restartAttempt >= MaxAttempts)
  <2>1. m.restartAttempt < MaxAttempts /\ m.restartAttempt + 1 \in 0..MaxAttempts
    BY <1>3
  <2>2. ScheduleRestart(m) = [m EXCEPT !.restartAttempt = m.restartAttempt + 1,
                                       !.state = "restarting", !.restartTimer = TRUE]
    BY <1>3 DEF ScheduleRestart
  <2> QED BY <1>3, <2>1, <2>2
<1> QED BY <1>1, <1>2, <1>3

\* A restart that failed is tried again only when its process has ended.
LEMMA RestartFailedFields ==
  ASSUME NEW m \in Manager, ~m.ready
  PROVE  /\ Alike(m, RestartFailed(m))
         /\ RestartFailed(m).readyReject = m.readyReject
         /\ ~RestartFailed(m).ready
         /\ \/ NoRetry(m, RestartFailed(m))
            \/ /\ WillRetry(m, RestartFailed(m))
               /\ m.process = None /\ ~m.shuttingDown
<1>1. CASE m.shuttingDown
  BY <1>1 DEF RestartFailed, Alike, NoRetry
<1>2. CASE ~m.shuttingDown /\ m.process # None
  BY <1>2 DEF RestartFailed, Alike, NoRetry, Manager, State
<1>3. CASE ~m.shuttingDown /\ m.process = None
  <2> DEFINE r == [m EXCEPT !.ready = FALSE, !.state = "restarting"]
  <2>1. /\ r \in Manager /\ Alike(m, r) /\ NoRetry(m, r)
        /\ ~r.ready /\ r.readyReject = m.readyReject
    BY DEF Alike, NoRetry, Manager, State
  <2>2. RestartFailed(m) = ScheduleRestart(r)
    BY <1>3 DEF RestartFailed
  <2> HIDE DEF r
  <2> QED BY <1>3, <2>1, <2>2, ScheduleFields DEF Alike, NoRetry, WillRetry
<1> QED BY <1>1, <1>2, <1>3

\* Cleaning up after a wait only forgets how to cancel it.
LEMMA CleanupFields ==
  ASSUME NEW m \in Manager, NEW s \in Slot
  PROVE  /\ Alike(m, Cleanup(m, s)) /\ NoRetry(m, Cleanup(m, s))
         /\ Cleanup(m, s).ready = m.ready
BY DEF Cleanup, Alike, NoRetry, Manager

\* After the process has closed there is none, and a restart may be pending if
\* it had been ready.
LEMMA ClosedFields ==
  ASSUME NEW m \in Manager
  PROVE  /\ Closed(m) \in Manager
         /\ Closed(m).process = None /\ Closed(m).generation = m.generation
         /\ Closed(m).shuttingDown = m.shuttingDown
         /\ Closed(m).readyReject = m.readyReject
         /\ ~m.shuttingDown => ~Closed(m).ready
         /\ \/ NoRetry(m, Closed(m))
            \/ WillRetry(m, Closed(m)) /\ m.ready /\ ~m.shuttingDown
<1> DEFINE gone == [m EXCEPT !.exited = TRUE, !.readyTimer = None, !.process = None]
           next == [gone EXCEPT !.ready = FALSE,
                       !.state = IF m.restartEnabled THEN "restarting" ELSE "fatal"]
<1>1. CASE m.shuttingDown
  BY <1>1 DEF Closed, NoRetry, Manager, State
<1>2. CASE ~m.shuttingDown /\ ~m.ready
  BY <1>2 DEF Closed, NoRetry, Manager, State
<1>3. CASE ~m.shuttingDown /\ m.ready
  <2>1. /\ next \in Manager /\ NoRetry(m, next)
        /\ next.process = None /\ next.generation = m.generation
        /\ next.shuttingDown = m.shuttingDown
        /\ ~next.ready /\ next.readyReject = m.readyReject
    BY DEF NoRetry, Manager, State
  <2>2. Closed(m) = ScheduleRestart(next)
    BY <1>3 DEF Closed
  <2> HIDE DEF next
  <2> QED BY <1>3, <2>1, <2>2, ScheduleFields DEF Alike, NoRetry, WillRetry
<1> QED BY <1>1, <1>2, <1>3

\* A start that rejects settles its slot; its manager may be restarting.
LEMMA RejectFields ==
  ASSUME NEW m \in Manager, NEW s \in Slot, Reject(m, s), ~m.ready
  PROVE  /\ Alike(m, manager') /\ ~manager'.ready
         /\ starts' = [starts EXCEPT ![s] = Settled]
         /\ \/ NoRetry(m, manager')
            \/ /\ WillRetry(m, manager') /\ starts[s].by = "timer"
               /\ m.process = None /\ ~m.shuttingDown
<1> DEFINE r == Cleanup(m, s)
<1>1. Alike(m, r) /\ NoRetry(m, r) /\ ~r.ready
  BY CleanupFields
<1>2. r \in Manager
  BY <1>1 DEF Alike
<1>3. /\ manager' = IF starts[s].by = "timer" THEN RestartFailed(r) ELSE r
      /\ starts' = [starts EXCEPT ![s] = Settled]
  BY DEF Reject
<1> HIDE DEF r
<1> QED BY <1>1, <1>2, <1>3, RestartFailedFields DEF Alike, NoRetry, WillRetry

-----------------------------------------------------------------------------

\* A free slot is an invocation.
LEMMA SettledTypes == Settled \in Invocation
<1>1. 0 \in 0..MaxStops /\ 0 \in 0..MaxRetries
  BY LimitsDefined
<1> QED BY <1>1 DEF Settled, Invocation

\* The initial states satisfy the invariant.
LEMMA InitHolds == Init => IInv
<1> SUFFICES ASSUME Init PROVE IInv
  OBVIOUS
<1> USE NoneIsNew, LimitsDefined DEF Init
<1>1. TypeOK
  <2>1. manager \in Manager
    <3>1. 0 \in 0..MaxAttempts /\ 0 \in 0..MaxStops
      OBVIOUS
    <3> QED BY <3>1 DEF Manager, State
  <2> QED BY <2>1, SettledTypes DEF TypeOK, ChildState
<1>2. ChildrenTracked /\ StopIsFinal
  BY DEF ChildrenTracked, StopIsFinal
<1>3. SettledClean /\ WaitsHold /\ SearchesHold
  BY DEF SettledClean, WaitsHold, SearchesHold, Waits, Settled
<1>4. ReadyHolds /\ TimerHolds /\ UnaskedHolds
  BY DEF ReadyHolds, TimerHolds, UnaskedHolds, Quiet
<1> QED BY <1>1, <1>2, <1>3, <1>4 DEF IInv

-----------------------------------------------------------------------------
(* Every action preserves the invariant *)

Live(c) == children[c] \in {"running", "broken", "exiting"}

\* While a start waits no other start is current.
LEMMA WaitsAlone ==
  ASSUME IInv, NEW s \in Slot, Waits(s)
  PROVE  \A t \in Slot : t # s => ~Waits(t) /\ (starts[t].at = "port" => Cancelled(t))
BY DEF IInv, WaitsHold, SearchesHold, Quiet

\* A waiting start that rejects while its process goes on.
LEMMA RejectPreserves ==
  ASSUME IInv, NEW s \in Slot, Waits(s), NEW m \in Manager,
         Alike(manager, m), NoRetry(manager, m), ~m.ready, Reject(m, s),
         children' \in [Child -> ChildState], \A c \in Child : Live(c)' => Live(c),
         UNCHANGED asked
  PROVE  IInv'
<1> USE NoneIsNew DEF IInv
<1>1. /\ manager.process # None /\ ~manager.shuttingDown /\ ~manager.restartTimer
      /\ asked
  BY DEF WaitsHold, Cancelled, UnaskedHolds, Quiet
<1>2. /\ Alike(manager, manager') /\ NoRetry(manager, manager') /\ ~manager'.ready
      /\ starts' = [starts EXCEPT ![s] = Settled]
  BY <1>1, RejectFields DEF Alike, NoRetry
<1>4. TypeOK'
  BY <1>2, SettledTypes DEF TypeOK, Alike
<1>5. \A t \in Slot : starts'[t] = IF t = s THEN Settled ELSE starts[t]
  BY <1>2 DEF TypeOK
<1>6. \A t \in Slot : ~Waits(t)' /\ (starts'[t].at = "port" => Cancelled(t)')
  BY <1>2, <1>5, WaitsAlone DEF Waits, Cancelled, Alike, Settled
<1>7. ChildrenTracked' /\ StopIsFinal'
  BY <1>1, <1>2 DEF ChildrenTracked, StopIsFinal, Live, Alike
<1>8. SettledClean' /\ WaitsHold'
  BY <1>5, <1>6 DEF SettledClean, WaitsHold
<1>9. SearchesHold'
  <2> SUFFICES ASSUME NEW t \in Slot, starts'[t].at = "port"
               PROVE  /\ starts'[t].child = None /\ starts'[t].by = "app"
                      /\ starts'[t].generation <= manager'.generation
                      /\ ~asked' => starts'[t].generation < manager'.generation
    BY <1>6 DEF SearchesHold
  <2>1. starts'[t] = starts[t]
    BY <1>5 DEF Settled
  <2> QED BY <1>1, <1>2, <2>1 DEF SearchesHold, Alike
<1>10. ReadyHolds' /\ TimerHolds' /\ UnaskedHolds'
  BY <1>1, <1>2 DEF ReadyHolds, TimerHolds, UnaskedHolds, NoRetry
<1> QED BY <1>4, <1>7, <1>8, <1>9, <1>10

\* Spawning a process for the only current start.
LEMMA SpawnPreserves ==
  ASSUME IInv, asked, UNCHANGED asked,
         NEW m \in Manager, NEW s \in Slot, NEW by \in {"app", "timer"},
         m.process = None, ~m.ready, ~m.restartTimer, ~m.exited, ~m.shuttingDown,
         manager.process = None, m.generation = manager.generation,
         by = "timer" => m.restartAttempt > 0,
         \A t \in Slot : t # s =>
           ~Waits(t) /\ (starts[t].at = "port" => starts[t].generation # m.generation),
         Spawn(m, s, by, m.generation)
  PROVE  /\ IInv' /\ ~manager'.ready /\ ~manager'.restartTimer
         /\ manager'.restartAttempt = m.restartAttempt
         /\ Current(s)'
<1> USE NoneIsNew DEF IInv
<1>1. PICK c \in Child, how \in {"running", "broken"} :
        /\ children[c] = "none" /\ children' = [children EXCEPT ![c] = how]
        /\ manager' = [m EXCEPT !.process = c, !.readyReject = s]
        /\ starts' = [starts EXCEPT ![s] =
             [at |-> "check", by |-> by, generation |-> m.generation,
              child |-> c, retries |-> 0]]
  BY DEF Spawn, Contaminated, Manager
<1>2. /\ manager' \in Manager /\ manager'.process = c /\ manager'.readyReject = s
      /\ ~manager'.ready /\ ~manager'.restartTimer /\ ~manager'.shuttingDown
      /\ manager'.generation = manager.generation
      /\ manager'.restartAttempt = m.restartAttempt
  BY <1>1 DEF Manager
<1>3. \A t \in Slot : starts'[t] =
        IF t = s THEN [at |-> "check", by |-> by, generation |-> m.generation,
                       child |-> c, retries |-> 0]
        ELSE starts[t]
  BY <1>1 DEF TypeOK
<1>4. TypeOK'
  <2>1. 0 \in 0..MaxRetries /\ m.generation \in 0..MaxStops
    BY LimitsDefined DEF Manager
  <2>2. starts'[s] \in Invocation
    BY <1>3, <2>1 DEF Invocation
  <2> QED BY <1>1, <1>2, <1>3, <2>2 DEF TypeOK, ChildState
<1>5. ChildrenTracked' /\ StopIsFinal'
  BY <1>1, <1>2 DEF ChildrenTracked, StopIsFinal, TypeOK
<1>6. \A t \in Slot : t # s => ~Waits(t)' /\ (starts'[t].at = "port" => Cancelled(t)')
  BY <1>2, <1>3 DEF Waits, Cancelled
<1>7. SettledClean' /\ WaitsHold' /\ Current(s)'
  BY <1>1, <1>2, <1>3, <1>6 DEF SettledClean, WaitsHold, Cancelled, Waits, Current
<1>8. SearchesHold'
  BY <1>2, <1>3, <1>6 DEF SearchesHold
<1>9. ReadyHolds' /\ TimerHolds' /\ UnaskedHolds'
  BY <1>2 DEF ReadyHolds, TimerHolds, UnaskedHolds
<1> QED BY <1>2, <1>4, <1>5, <1>7, <1>8, <1>9

\* The application's start finds the backend down.
LEMMA StartPreserves ==
  ASSUME IInv, NEW s \in Slot, Start(s)
  PROVE  IInv'
<1> USE NoneIsNew DEF IInv
<1>1. /\ ~asked /\ asked' /\ starts[s] = Settled /\ UNCHANGED children
      /\ manager' = Begun(manager)
      /\ starts' = [starts EXCEPT ![s] =
           [at |-> "port", by |-> "app", generation |-> manager.generation,
            child |-> None, retries |-> 0]]
  BY DEF Start
<1>2. Quiet /\ manager \in Manager
  BY <1>1 DEF UnaskedHolds, TypeOK
<1>3. /\ manager' \in Manager /\ manager'.process = None
      /\ manager'.generation = manager.generation /\ ~manager'.ready
      /\ ~manager'.restartTimer /\ ~manager'.exited /\ ~manager'.shuttingDown
  BY <1>1, <1>2, BegunFields DEF Quiet
<1>4. \A t \in Slot : starts'[t] =
        IF t = s THEN [at |-> "port", by |-> "app", generation |-> manager.generation,
                       child |-> None, retries |-> 0]
        ELSE starts[t]
  BY <1>1 DEF TypeOK
<1>5. TypeOK'
  <2>1. 0 \in 0..MaxRetries /\ manager.generation \in 0..MaxStops
    BY <1>2, LimitsDefined DEF Manager
  <2>2. starts'[s] \in Invocation
    BY <1>4, <2>1 DEF Invocation
  <2> QED BY <1>1, <1>3, <1>4, <2>2 DEF TypeOK
<1>6. \A t \in Slot : ~Waits(t)
  BY <1>2 DEF WaitsHold, Quiet
<1>7. ChildrenTracked' /\ StopIsFinal'
  BY <1>1, <1>2, <1>3 DEF ChildrenTracked, StopIsFinal, Quiet
<1>8. SettledClean' /\ WaitsHold'
  BY <1>4, <1>6 DEF SettledClean, WaitsHold, Waits
<1>9. SearchesHold'
  <2>1. \A t \in Slot : t # s => ~Current(t)'
    <3> SUFFICES ASSUME NEW t \in Slot, t # s, Current(t)' PROVE FALSE
      OBVIOUS
    <3>1. starts[t].at \in {"none", "port", "check", "interval"}
      BY DEF TypeOK, Invocation
    <3>2. starts[t].at = "port" /\ starts[t].generation = manager.generation
      BY <1>3, <1>4, <1>6, <3>1 DEF Current, Cancelled, Waits
    <3>3. starts[t].generation < manager.generation /\ manager.generation \in Nat
      BY <1>1, <1>2, <3>2 DEF SearchesHold, Manager
    <3> QED BY <3>2, <3>3
  <2>2. manager.generation \in Nat
    BY <1>2 DEF Manager
  <2> QED BY <1>1, <1>3, <1>4, <2>1, <2>2 DEF SearchesHold, Quiet, Current
<1>10. ReadyHolds' /\ TimerHolds' /\ UnaskedHolds'
  BY <1>1, <1>3 DEF ReadyHolds, TimerHolds, UnaskedHolds
<1> QED BY <1>5, <1>7, <1>8, <1>9, <1>10

\* A start that found its port is the only current one.
LEMMA PortFoundPreserves ==
  ASSUME IInv, NEW s \in Slot, PortFound(s)
  PROVE  /\ IInv' /\ Quiet /\ Current(s) /\ Current(s)'
         /\ ~manager'.ready /\ ~manager'.restartTimer
         /\ manager'.restartAttempt = manager.restartAttempt
<1> USE NoneIsNew DEF IInv
<1>1. /\ starts[s].at = "port" /\ ~Cancelled(s) /\ UNCHANGED asked
      /\ Spawn(manager, s, "app", starts[s].generation)
  BY DEF PortFound
<1>2. /\ Quiet /\ ~manager.exited /\ Current(s)
      /\ \A t \in Slot : Current(t) => t = s
  BY <1>1 DEF SearchesHold, Current
<1>3. ~manager.shuttingDown /\ starts[s].generation = manager.generation
  BY <1>1 DEF Cancelled
<1>4. asked
  BY <1>1, <1>3 DEF SearchesHold, TypeOK, Manager
<1>5. \A t \in Slot : t # s =>
        ~Waits(t) /\ (starts[t].at = "port" => starts[t].generation # manager.generation)
  BY <1>2, <1>3 DEF Waits, Current, Cancelled, WaitsHold, Quiet
<1>6. manager \in Manager
  BY DEF TypeOK
<1> QED BY <1>1, <1>2, <1>3, <1>4, <1>5, <1>6, SpawnPreserves DEF Quiet

\* A start that fails before it has a process leaves the backend down.
LEMMA PortFailsPreserves ==
  ASSUME IInv, NEW s \in Slot, PortFails(s)
  PROVE  IInv'
<1> USE NoneIsNew DEF IInv
<1>1. /\ starts[s].at = "port" /\ starts' = [starts EXCEPT ![s] = Settled]
      /\ UNCHANGED <<manager, children, asked>>
  BY DEF PortFails
<1>2. \A t \in Slot : starts'[t] = IF t = s THEN Settled ELSE starts[t]
  BY <1>1 DEF TypeOK
<1>3. TypeOK' /\ ChildrenTracked'
  BY <1>1, SettledTypes DEF TypeOK, ChildrenTracked
<1>4. StopIsFinal' /\ SettledClean' /\ WaitsHold'
  BY <1>1, <1>2 DEF StopIsFinal, SettledClean, WaitsHold, Waits, Settled, Cancelled
<1>5. SearchesHold'
  BY <1>1, <1>2 DEF SearchesHold, Settled, Cancelled, Current, Quiet
<1>6. ReadyHolds' /\ TimerHolds' /\ UnaskedHolds'
  BY <1>1 DEF ReadyHolds, TimerHolds, UnaskedHolds, Quiet
<1> QED BY <1>3, <1>4, <1>5, <1>6

\* The restart timer finds no process and no current start.
LEMMA RestartFiresPreserves ==
  ASSUME IInv, NEW s \in Slot, RestartFires(s)
  PROVE  /\ IInv' /\ Current(s)' /\ ~manager'.ready /\ ~manager'.restartTimer
         /\ manager'.restartAttempt = manager.restartAttempt
<1> USE NoneIsNew DEF IInv
<1>1. /\ manager.restartTimer /\ manager.process = None /\ ~manager.shuttingDown
      /\ manager.restartAttempt > 0 /\ asked
  BY DEF RestartFires, TimerHolds
<1>2. UNCHANGED asked /\ Spawn(Begun(manager), s, "timer", manager.generation)
  BY <1>1 DEF RestartFires
<1>3. manager \in Manager
  BY DEF TypeOK
<1>4. \A t \in Slot : t # s =>
        ~Waits(t) /\ (starts[t].at = "port" => starts[t].generation # manager.generation)
  BY <1>1 DEF WaitsHold, SearchesHold, Cancelled, Quiet
<1> DEFINE m == Begun(manager)
<1>5. /\ m \in Manager /\ m.process = None /\ m.generation = manager.generation
      /\ m.restartAttempt = manager.restartAttempt
      /\ ~m.shuttingDown /\ ~m.ready /\ ~m.exited /\ ~m.restartTimer
  BY <1>1, <1>3, BegunFields
<1> HIDE DEF m
<1>6. Spawn(m, s, "timer", m.generation)
  BY <1>2, <1>5 DEF m
<1> QED BY <1>1, <1>2, <1>4, <1>5, <1>6, SpawnPreserves

\* A restart that finds no binary leaves no start behind, and may schedule another.
LEMMA ThrowsPreserves ==
  ASSUME IInv, RestartThrows
  PROVE  /\ IInv' /\ ~manager.ready /\ manager.restartTimer /\ manager.restartAttempt > 0
         /\ ~manager'.ready
         /\ \/ ~manager'.restartTimer /\ manager'.restartAttempt = manager.restartAttempt
            \/ WillRetry(manager, manager')
         /\ \A t \in Slot : ~Waits(t) /\ ~Current(t)'
<1> USE NoneIsNew DEF IInv
<1>1. /\ manager.restartTimer /\ manager.process = None /\ ~manager.shuttingDown
      /\ ~manager.ready /\ manager.restartAttempt > 0 /\ asked /\ manager \in Manager
      /\ UNCHANGED <<starts, children, asked>>
  BY DEF RestartThrows, TimerHolds, ReadyHolds, TypeOK
<1>2. \A t \in Slot :
        ~Waits(t) /\ (starts[t].at = "port" => starts[t].generation # manager.generation)
  BY <1>1 DEF WaitsHold, SearchesHold, Cancelled, Quiet
<1> DEFINE m == Begun(manager)
<1>3. /\ m \in Manager /\ m.process = None /\ m.generation = manager.generation
      /\ m.restartAttempt = manager.restartAttempt
      /\ ~m.shuttingDown /\ ~m.ready /\ ~m.exited /\ ~m.restartTimer
  BY <1>1, BegunFields
<1>4. manager' = RestartFailed(m)
  BY DEF RestartThrows
<1> HIDE DEF m
<1>5. /\ Alike(m, manager') /\ ~manager'.ready
      /\ NoRetry(m, manager') \/ WillRetry(m, manager')
  BY <1>3, <1>4, RestartFailedFields
<1>6. /\ manager' \in Manager /\ manager'.process = None /\ ~manager'.shuttingDown
      /\ manager'.generation = manager.generation /\ ~manager'.ready /\ ~manager'.exited
  BY <1>3, <1>5 DEF Alike
<1>7. \/ ~manager'.restartTimer /\ manager'.restartAttempt = manager.restartAttempt
      \/ WillRetry(manager, manager')
  BY <1>3, <1>5 DEF NoRetry, WillRetry
<1>8. \A t \in Slot : ~Waits(t)' /\ ~Current(t)' /\ (starts'[t].at = "port" => Cancelled(t)')
  <2>1. \A t \in Slot : starts[t].at \in {"none", "port"}
    BY <1>2 DEF Waits, TypeOK, Invocation
  <2> QED BY <1>1, <1>2, <1>6, <2>1 DEF Waits, Current, Cancelled
<1>9. TypeOK' /\ ChildrenTracked' /\ StopIsFinal'
  BY <1>1, <1>6, <1>8 DEF TypeOK, ChildrenTracked, StopIsFinal, Waits
<1>10. SettledClean' /\ WaitsHold' /\ SearchesHold'
  BY <1>1, <1>6, <1>8 DEF SettledClean, WaitsHold, SearchesHold
<1>11. ReadyHolds' /\ UnaskedHolds'
  BY <1>1, <1>6 DEF ReadyHolds, UnaskedHolds
<1>12. TimerHolds'
  BY <1>1, <1>6, <1>7 DEF TimerHolds, WillRetry, Manager
<1> QED BY <1>1, <1>2, <1>6, <1>7, <1>8, <1>9, <1>10, <1>11, <1>12

\* An answer makes the backend ready.
LEMMA HealthOkPreserves ==
  ASSUME IInv, NEW s \in Slot, HealthOk(s)
  PROVE  IInv' /\ Waits(s) /\ manager'.ready /\ manager'.restartAttempt = 0
<1> USE NoneIsNew DEF IInv
<1>1. Waits(s) /\ UNCHANGED <<children, asked>>
  BY DEF HealthOk, Checking, Waits
<1>2. /\ manager.process # None /\ ~manager.restartTimer /\ ~Cancelled(s)
      /\ asked /\ manager \in Manager
  BY <1>1 DEF WaitsHold, UnaskedHolds, Quiet, TypeOK
<1> DEFINE r == Cleanup(manager, s)
<1>3. Alike(manager, r) /\ NoRetry(manager, r)
  BY <1>2, CleanupFields
<1>4. /\ manager' = [r EXCEPT !.ready = TRUE, !.state = "ready", !.restartAttempt = 0]
      /\ starts' = [starts EXCEPT ![s] = Settled]
  BY <1>2 DEF HealthOk
<1> HIDE DEF r
<1>5. /\ manager' \in Manager /\ manager'.process = manager.process /\ manager'.ready
      /\ manager'.restartAttempt = 0 /\ ~manager'.restartTimer
      /\ manager'.generation = manager.generation /\ ~manager'.shuttingDown
  <2>1. 0 \in 0..MaxAttempts
    BY LimitsDefined
  <2> QED BY <1>2, <1>3, <1>4, <2>1 DEF Alike, NoRetry, Manager, State, Cancelled
<1>6. \A t \in Slot : starts'[t] = IF t = s THEN Settled ELSE starts[t]
  BY <1>4 DEF TypeOK
<1>7. \A t \in Slot : ~Waits(t)' /\ (starts'[t].at = "port" => Cancelled(t)')
  BY <1>1, <1>2, <1>5, <1>6, WaitsAlone DEF Waits, Cancelled, Settled
<1>8. TypeOK' /\ ChildrenTracked' /\ StopIsFinal'
  BY <1>1, <1>4, <1>5, SettledTypes DEF TypeOK, ChildrenTracked, StopIsFinal
<1>9. SettledClean' /\ WaitsHold' /\ SearchesHold'
  BY <1>1, <1>2, <1>5, <1>6, <1>7 DEF SettledClean, WaitsHold, SearchesHold, Settled
<1>10. ReadyHolds' /\ TimerHolds' /\ UnaskedHolds'
  BY <1>1, <1>2, <1>5 DEF ReadyHolds, TimerHolds, UnaskedHolds
<1> QED BY <1>1, <1>5, <1>8, <1>9, <1>10

\* A waiting start that goes on waiting.
LEMMA WaitPreserves ==
  ASSUME IInv, NEW s \in Slot, Waits(s), NEW start \in Invocation,
         start.at \in {"check", "interval"}, start.child = starts[s].child,
         start.by = starts[s].by, start.generation = starts[s].generation,
         starts' = [starts EXCEPT ![s] = start],
         NEW timer \in Slot \cup {None},
         manager' = [manager EXCEPT !.readyTimer = timer],
         UNCHANGED <<children, asked>>
  PROVE  IInv' /\ UNCHANGED <<Phase, manager.restartAttempt>>
<1> USE NoneIsNew DEF IInv
<1>1. /\ manager' \in Manager /\ manager'.process = manager.process
      /\ manager'.readyReject = manager.readyReject
      /\ manager'.ready = manager.ready /\ manager'.restartTimer = manager.restartTimer
      /\ manager'.shuttingDown = manager.shuttingDown
      /\ manager'.generation = manager.generation /\ manager'.exited = manager.exited
      /\ manager'.restartAttempt = manager.restartAttempt
  BY DEF TypeOK, Manager
<1>2. \A t \in Slot : starts'[t] = IF t = s THEN start ELSE starts[t]
  BY DEF TypeOK
<1>3. TypeOK' /\ ChildrenTracked'
  BY <1>1 DEF TypeOK, ChildrenTracked
<1>4. \A t \in Slot : (Cancelled(t)' <=> Cancelled(t)) /\ (Waits(t)' <=> Waits(t))
                      /\ (Current(t)' <=> Current(t))
  BY <1>1, <1>2 DEF Cancelled, Waits, Current
<1>5. StopIsFinal' /\ SettledClean' /\ WaitsHold'
  BY <1>1, <1>2, <1>4 DEF StopIsFinal, SettledClean, WaitsHold, Waits
<1>6. SearchesHold'
  BY <1>1, <1>2, <1>4 DEF SearchesHold, Quiet
<1>7. ReadyHolds' /\ TimerHolds' /\ UnaskedHolds'
  BY <1>1 DEF ReadyHolds, TimerHolds, UnaskedHolds, Quiet
<1>8. UNCHANGED Phase
  BY <1>1, <1>4 DEF Phase
<1> QED BY <1>1, <1>3, <1>5, <1>6, <1>7, <1>8

\* The outcomes of a health check, or of an interval, that is not the answer.
LEMMA HealthFailsPreserves ==
  ASSUME IInv, NEW s \in Slot, HealthFails(s) \/ IntervalFires(s)
  PROVE  /\ IInv' /\ Waits(s)
         /\ \/ UNCHANGED <<Phase, manager.restartAttempt>>
            \/ Reject(manager, s)
<1> USE NoneIsNew DEF IInv
<1>1. Waits(s) /\ UNCHANGED <<children, asked>>
  BY DEF HealthFails, IntervalFires, Checking, Waits
<1>2. manager \in Manager /\ ~manager.ready
  BY <1>1 DEF WaitsHold, TypeOK
<1>3. CASE Reject(manager, s)
  <2>1. /\ Alike(manager, manager) /\ NoRetry(manager, manager)
        /\ children' \in [Child -> ChildState] /\ \A c \in Child : Live(c)' => Live(c)
    BY <1>1, <1>2 DEF Alike, NoRetry, TypeOK, Live
  <2> QED BY <1>1, <1>2, <1>3, <2>1, RejectPreserves
<1>4. CASE HealthFails(s) /\ ~Reject(manager, s)
  <2>1. /\ ~(starts[s].retries + 1 >= MaxRetries)
        /\ manager' = [manager EXCEPT !.readyTimer = s]
        /\ starts' = [starts EXCEPT ![s].at = "interval", ![s].retries = @ + 1]
    BY <1>4 DEF HealthFails
  <2> DEFINE start == [starts[s] EXCEPT !.at = "interval", !.retries = @ + 1]
  <2>2. starts[s] \in Invocation /\ starts' = [starts EXCEPT ![s] = start]
    BY <2>1 DEF TypeOK
  <2>3. starts[s].retries + 1 \in 0..MaxRetries
    BY <2>1, <2>2, LimitsDefined DEF Invocation
  <2>4. /\ start \in Invocation /\ start.at = "interval" /\ start.child = starts[s].child
        /\ start.by = starts[s].by /\ start.generation = starts[s].generation
    BY <2>2, <2>3 DEF Invocation
  <2> HIDE DEF start
  <2> QED BY <1>1, <2>1, <2>2, <2>4, WaitPreserves
<1>5. CASE IntervalFires(s) /\ ~Reject(manager, s)
  <2>1. /\ UNCHANGED manager
        /\ starts' = [starts EXCEPT ![s].at = "check"]
    BY <1>5 DEF IntervalFires
  <2> DEFINE start == [starts[s] EXCEPT !.at = "check"]
  <2>2. starts[s] \in Invocation /\ starts' = [starts EXCEPT ![s] = start]
    BY <2>1 DEF TypeOK
  <2>3. /\ start \in Invocation /\ start.at = "check" /\ start.child = starts[s].child
        /\ start.by = starts[s].by /\ start.generation = starts[s].generation
    BY <2>2 DEF Invocation
  <2>4. /\ manager.readyTimer \in Slot \cup {None}
        /\ manager' = [manager EXCEPT !.readyTimer = manager.readyTimer]
    BY <1>2, <2>1 DEF Manager
  <2> HIDE DEF start
  <2> QED BY <1>1, <2>2, <2>3, <2>4, WaitPreserves
<1> QED BY <1>3, <1>4, <1>5

\* A process that could not be spawned rejects its start, and is still tracked.
LEMMA SpawnErrorPreserves ==
  ASSUME IInv, NEW c \in Child, SpawnError(c)
  PROVE  /\ IInv'
         /\ \/ UNCHANGED <<Phase, manager.restartAttempt>>
            \/ \E s \in Slot, m \in Manager :
                 /\ Waits(s) /\ Alike(manager, m) /\ NoRetry(manager, m) /\ ~m.ready
                 /\ Reject(m, s)
<1> USE NoneIsNew DEF IInv
<1> DEFINE m == [manager EXCEPT !.state = "spawn_error"]
<1>1. /\ m \in Manager /\ Alike(manager, m) /\ NoRetry(manager, m)
      /\ m.ready = manager.ready /\ m.readyReject = manager.readyReject
  BY DEF TypeOK, Manager, State, Alike, NoRetry
<1>2. /\ children[c] = "broken" /\ children' = [children EXCEPT ![c] = "exiting"]
      /\ UNCHANGED asked /\ Notify(m, c)
  BY DEF SpawnError
<1>3. children' \in [Child -> ChildState] /\ \A d \in Child : Live(d)' <=> Live(d)
  BY <1>2 DEF TypeOK, ChildState, Live
<1> HIDE DEF m
<1>4. CASE \E s \in Slot : starts[s].child = c /\ Reject(m, s)
  <2>1. PICK s \in Slot : starts[s].child = c /\ Reject(m, s)
    BY <1>4
  <2>2. Waits(s)
    BY <2>1 DEF TypeOK, Invocation, SettledClean, SearchesHold, Settled, Waits
  <2>3. ~m.ready
    BY <1>1, <2>2 DEF WaitsHold
  <2> QED BY <1>1, <1>2, <1>3, <2>1, <2>2, <2>3, RejectPreserves
<1>5. CASE manager' = m /\ UNCHANGED starts
  <2>1. TypeOK' /\ ChildrenTracked'
    BY <1>1, <1>2, <1>3, <1>5 DEF TypeOK, ChildrenTracked, Live, Alike
  <2>2. \A t \in Slot : (Cancelled(t)' <=> Cancelled(t)) /\ (Waits(t)' <=> Waits(t))
                        /\ (Current(t)' <=> Current(t))
    BY <1>1, <1>5 DEF Cancelled, Waits, Current, Alike
  <2>3. StopIsFinal' /\ SettledClean' /\ WaitsHold' /\ SearchesHold'
    BY <1>1, <1>2, <1>5, <2>2
       DEF StopIsFinal, SettledClean, WaitsHold, SearchesHold, Alike, NoRetry, Quiet
  <2>4. ReadyHolds' /\ TimerHolds' /\ UnaskedHolds'
    BY <1>1, <1>2, <1>5 DEF ReadyHolds, TimerHolds, UnaskedHolds, Alike, NoRetry, Quiet
  <2>5. UNCHANGED <<Phase, manager.restartAttempt>>
    BY <1>1, <1>5, <2>2 DEF Phase, NoRetry
  <2> QED BY <2>1, <2>3, <2>4, <2>5
<1> QED BY <1>2, <1>4, <1>5 DEF Notify

\* After its process has closed the manager has none, and no start is current.
LEMMA ClosePreserves ==
  ASSUME IInv, NEW c \in Child, Close(c)
  PROVE  /\ IInv' /\ ~manager.restartTimer
         /\ ~manager'.ready /\ \A t \in Slot : ~Current(t)'
         /\ \/ NoRetry(manager, manager')
            \/ /\ WillRetry(manager, manager')
               /\ \/ manager.ready
                  \/ ~manager.ready /\ manager.restartAttempt > 0
                     /\ \E s \in Slot : Current(s)
<1> USE NoneIsNew DEF IInv
<1>1. /\ Live(c) /\ children' = [children EXCEPT ![c] = "none"] /\ UNCHANGED asked
      /\ Notify(Closed(manager), c) /\ manager \in Manager
  BY DEF Close, Live, TypeOK
<1>2. /\ c = manager.process /\ manager.process # None /\ ~manager.shuttingDown
      /\ ~manager.restartTimer /\ asked
  BY <1>1 DEF ChildrenTracked, StopIsFinal, TimerHolds, UnaskedHolds, Quiet, Live
<1>3. \A t \in Slot : starts[t].at = "port" => Cancelled(t)
  BY <1>2 DEF SearchesHold, Quiet
<1> DEFINE m == Closed(manager)
<1>4. /\ m \in Manager /\ m.process = None /\ m.generation = manager.generation
      /\ ~m.shuttingDown /\ ~m.ready
      /\ NoRetry(manager, m) \/ (WillRetry(manager, m) /\ manager.ready)
  BY <1>1, <1>2, ClosedFields
<1>5. Notify(m, c)
  BY <1>1
<1> HIDE DEF m
<1>6. children' \in [Child -> ChildState] /\ \A d \in Child : ~Live(d)'
  BY <1>1, <1>2 DEF TypeOK, ChildState, ChildrenTracked, Live
<1>7. /\ manager' \in Manager /\ manager'.process = None /\ ~manager'.ready
      /\ ~manager'.shuttingDown /\ manager'.generation = manager.generation
      /\ \A t \in Slot : starts'[t] = Settled \/ (starts'[t] = starts[t] /\ ~Waits(t))
      /\ starts' \in [Slot -> Invocation]
      /\ \/ NoRetry(manager, manager')
         \/ /\ WillRetry(manager, manager')
            /\ \/ manager.ready
               \/ ~manager.ready /\ manager.restartAttempt > 0
                  /\ \E s \in Slot : Current(s)
  <2>1. CASE manager' = m /\ UNCHANGED starts /\ \A s \in Slot : starts[s].child # c
    BY <1>2, <1>4, <2>1 DEF WaitsHold, TypeOK
  <2>2. CASE \E s \in Slot : starts[s].child = c /\ Reject(m, s)
    <3>1. PICK s \in Slot : starts[s].child = c /\ Reject(m, s)
      BY <2>2
    <3>2. Waits(s)
      BY <3>1 DEF TypeOK, Invocation, SettledClean, SearchesHold, Settled, Waits
    <3>3. /\ ~manager.ready /\ Current(s)
          /\ starts[s].by = "timer" => manager.restartAttempt > 0
      BY <3>2 DEF WaitsHold, Waits, Current
    <3>4. NoRetry(manager, m)
      BY <1>4, <3>3
    <3>5. /\ Alike(m, manager') /\ ~manager'.ready
          /\ starts' = [starts EXCEPT ![s] = Settled]
          /\ \/ NoRetry(m, manager')
             \/ WillRetry(m, manager') /\ starts[s].by = "timer"
      BY <1>4, <3>1, RejectFields
    <3>6. \A t \in Slot : starts'[t] = IF t = s THEN Settled ELSE starts[t]
      BY <3>5 DEF TypeOK
    <3>7. \A t \in Slot : starts'[t] = Settled \/ (starts'[t] = starts[t] /\ ~Waits(t))
      BY <3>2, <3>6, WaitsAlone
    <3>8. \/ NoRetry(manager, manager')
          \/ WillRetry(manager, manager') /\ manager.restartAttempt > 0
      BY <3>3, <3>4, <3>5 DEF NoRetry, WillRetry
    <3>9. starts' \in [Slot -> Invocation]
      BY <3>5, SettledTypes DEF TypeOK
    <3> QED BY <1>4, <3>3, <3>5, <3>7, <3>8, <3>9 DEF Alike
  <2> QED BY <1>5, <2>1, <2>2 DEF Notify
<1>8. TypeOK' /\ ChildrenTracked' /\ StopIsFinal'
  BY <1>1, <1>6, <1>7 DEF TypeOK, ChildrenTracked, StopIsFinal, Live
<1>9. \A t \in Slot : /\ ~Waits(t)' /\ ~Current(t)'
                      /\ starts'[t].at = "none" => starts'[t] = Settled
                      /\ starts'[t].at = "port" => starts'[t] = starts[t] /\ Cancelled(t)'
  <2> SUFFICES ASSUME NEW t \in Slot
               PROVE  /\ ~Waits(t)' /\ ~Current(t)'
                      /\ starts'[t].at = "none" => starts'[t] = Settled
                      /\ starts'[t].at = "port" => starts'[t] = starts[t] /\ Cancelled(t)'
    OBVIOUS
  <2>1. CASE starts'[t] = Settled
    BY <2>1 DEF Settled, Waits, Current
  <2>2. CASE starts'[t] = starts[t] /\ ~Waits(t)
    <3>1. starts[t].at \in {"none", "port"}
      BY <2>2 DEF Waits, TypeOK, Invocation
    <3> QED BY <1>2, <1>3, <1>7, <2>2, <3>1 DEF Waits, Current, Cancelled, SettledClean
  <2> QED BY <1>7, <2>1, <2>2
<1>10. SettledClean' /\ WaitsHold' /\ SearchesHold'
  BY <1>1, <1>2, <1>7, <1>9 DEF SettledClean, WaitsHold, SearchesHold
<1>11. ReadyHolds' /\ TimerHolds' /\ UnaskedHolds'
  BY <1>1, <1>2, <1>7 DEF ReadyHolds, TimerHolds, UnaskedHolds, NoRetry, WillRetry, Manager
<1> QED BY <1>2, <1>7, <1>8, <1>9, <1>10, <1>11

\* The end of a process that was stopped changes nothing else.
LEMMA ExitPreserves ==
  ASSUME IInv, NEW c \in Child, Exit(c)
  PROVE  IInv' /\ UNCHANGED <<Phase, manager.restartAttempt>>
<1> USE DEF IInv
<1>1. /\ children[c] = "stopped" /\ children' = [children EXCEPT ![c] = "none"]
      /\ UNCHANGED <<manager, starts, asked>>
  BY DEF Exit
<1>2. TypeOK' /\ ChildrenTracked'
  BY <1>1 DEF TypeOK, ChildState, ChildrenTracked
<1>3. StopIsFinal' /\ SettledClean' /\ WaitsHold' /\ SearchesHold'
  BY <1>1 DEF StopIsFinal, SettledClean, WaitsHold, SearchesHold, Waits, Cancelled,
              Current, Quiet
<1>4. ReadyHolds' /\ TimerHolds' /\ UnaskedHolds'
  BY <1>1 DEF ReadyHolds, TimerHolds, UnaskedHolds, Quiet
<1>5. UNCHANGED <<Phase, manager.restartAttempt>>
  BY <1>1 DEF Phase, Current, Cancelled
<1> QED BY <1>2, <1>3, <1>4, <1>5

\* A stop leaves nothing but searches of earlier generations.
LEMMA StopPreserves ==
  ASSUME IInv, Stop
  PROVE  /\ IInv' /\ ~manager'.ready /\ ~manager'.restartTimer
         /\ manager'.restartAttempt = 0
         /\ \A t \in Slot : ~Current(t)'
<1> USE NoneIsNew DEF IInv
<1>1. /\ manager.generation < MaxStops
      /\ manager' = [manager EXCEPT
           !.shuttingDown = TRUE, !.generation = @ + 1, !.ready = FALSE,
           !.state = "stopped", !.restartTimer = FALSE, !.restartAttempt = 0,
           !.readyTimer = None,
           !.readyReject = IF @ \in {manager.readyReject} THEN None ELSE @,
           !.process = None, !.exited = FALSE]
      /\ starts' = [s \in Slot |-> IF s = manager.readyReject THEN Settled ELSE starts[s]]
      /\ children' = [d \in Child |-> IF d = manager.process THEN "stopped" ELSE children[d]]
      /\ asked' = FALSE
  BY DEF Stop, StopRejecting
<1>2. manager \in Manager /\ manager.generation \in Nat
  BY DEF TypeOK, Manager
<1>3. /\ manager' \in Manager /\ manager'.process = None /\ manager'.shuttingDown
      /\ manager'.generation = manager.generation + 1
      /\ ~manager'.ready /\ ~manager'.restartTimer /\ manager'.restartAttempt = 0
  <2>1. 0 \in 0..MaxAttempts /\ manager.generation + 1 \in 0..MaxStops
    BY <1>1, <1>2, LimitsDefined
  <2> QED BY <1>1, <1>2, <2>1 DEF Manager, State
<1>4. TypeOK'
  <2>1. starts' \in [Slot -> Invocation]
    BY <1>1, SettledTypes DEF TypeOK
  <2>2. children' \in [Child -> ChildState]
    BY <1>1 DEF TypeOK, ChildState
  <2> QED BY <1>1, <1>3, <2>1, <2>2 DEF TypeOK
<1>5. \A t \in Slot : starts'[t] = IF t = manager.readyReject THEN Settled ELSE starts[t]
  BY <1>1
<1>6. \A t \in Slot : ~Waits(t)' /\ ~Current(t)' /\ Cancelled(t)'
  BY <1>3, <1>5 DEF WaitsHold, Waits, Settled, Current, Cancelled
<1>7. ChildrenTracked' /\ StopIsFinal'
  BY <1>1, <1>3, <1>6 DEF ChildrenTracked, StopIsFinal, Waits
<1>8. SettledClean' /\ WaitsHold'
  BY <1>5, <1>6 DEF SettledClean, WaitsHold
<1>9. SearchesHold'
  <2> SUFFICES ASSUME NEW t \in Slot, starts'[t].at = "port"
               PROVE  /\ starts'[t].child = None /\ starts'[t].by = "app"
                      /\ starts'[t].generation < manager'.generation
                      /\ starts'[t].generation <= manager'.generation
    BY <1>6 DEF SearchesHold
  <2>1. starts'[t] = starts[t] /\ starts[t].generation \in Nat
    BY <1>5 DEF Settled, TypeOK, Invocation
  <2>2. starts[t].generation <= manager.generation
    BY <2>1 DEF SearchesHold
  <2> QED BY <1>2, <1>3, <2>1, <2>2 DEF SearchesHold
<1>10. ReadyHolds' /\ TimerHolds' /\ UnaskedHolds'
  BY <1>3 DEF ReadyHolds, TimerHolds, UnaskedHolds, Quiet
<1> QED BY <1>3, <1>4, <1>6, <1>7, <1>8, <1>9, <1>10

\* Every step preserves the invariant.
LEMMA NextPreserves == IInv /\ [Next]_vars => IInv'
<1> SUFFICES ASSUME IInv, [Next]_vars PROVE IInv'
  OBVIOUS
<1>1. CASE \E s \in Slot : Start(s) \/ PortFound(s) \/ PortFails(s) \/ RestartFires(s)
  BY <1>1, StartPreserves, PortFoundPreserves, PortFailsPreserves, RestartFiresPreserves
<1>2. CASE \E s \in Slot : HealthOk(s) \/ HealthFails(s) \/ IntervalFires(s)
  BY <1>2, HealthOkPreserves, HealthFailsPreserves
<1>3. CASE \E c \in Child : SpawnError(c) \/ Close(c) \/ Exit(c)
  BY <1>3, SpawnErrorPreserves, ClosePreserves, ExitPreserves
<1>4. CASE RestartThrows \/ Stop
  BY <1>4, ThrowsPreserves, StopPreserves
<1>5. CASE UNCHANGED vars
  BY <1>5 DEF vars, IInv, TypeOK, ChildrenTracked, StopIsFinal, SettledClean, WaitsHold,
     SearchesHold, ReadyHolds, TimerHolds, UnaskedHolds, Waits, Cancelled, Current, Quiet
<1> QED BY <1>1, <1>2, <1>3, <1>4, <1>5 DEF Next

-----------------------------------------------------------------------------
(* Every step is one of the abstract specification *)

\* While a start waits the backend is being started, and once it is rejected the
\* backend is down.
LEMMA RejectGoesDown ==
  ASSUME IInv, IInv', NEW s \in Slot, Waits(s), NEW m \in Manager,
         Alike(manager, m), NoRetry(manager, m), ~m.ready, Reject(m, s)
  PROVE  Promise!Next
<1>1. /\ ~manager.ready /\ ~manager.restartTimer /\ Current(s)
      /\ manager.process # None
  BY DEF IInv, WaitsHold, Waits, Current
<1>2. /\ Alike(manager, manager') /\ NoRetry(manager, manager') /\ ~manager'.ready
      /\ starts' = [starts EXCEPT ![s] = Settled]
  BY <1>1, RejectFields DEF Alike, NoRetry
<1>3. \A t \in Slot : starts'[t] = IF t = s THEN Settled ELSE starts[t]
  BY <1>2 DEF IInv, TypeOK
<1>4. \A t \in Slot : ~Current(t)'
  <2> SUFFICES ASSUME NEW t \in Slot, Current(t)' PROVE FALSE
    OBVIOUS
  <2>1. t # s /\ Current(t)
    BY <1>2, <1>3 DEF Current, Cancelled, Settled, Alike
  <2>2. starts[t].at = "port" \/ Waits(t)
    BY <2>1 DEF IInv, TypeOK, Invocation, Current, Waits
  <2> QED BY <2>1, <2>2, WaitsAlone DEF Current
<1>5. Phase = "starting"
  BY <1>1 DEF Phase
<1>6. Phase' = "down"
  BY <1>1, <1>2, <1>4 DEF Phase, NoRetry
<1> QED BY <1>2, <1>5, <1>6 DEF NoRetry, Promise!Next, Promise!GoesDown

\* A backend that is not asked for is down.
LEMMA StartPromised ==
  ASSUME IInv, IInv', NEW s \in Slot, Start(s)
  PROVE  Promise!Next
<1>1. Quiet /\ manager.restartAttempt = 0 /\ manager \in Manager
  BY DEF IInv, Start, UnaskedHolds, TypeOK
<1>2. \A t \in Slot : ~Current(t)
  <2> SUFFICES ASSUME NEW t \in Slot, Current(t) PROVE FALSE
    OBVIOUS
  <2>1. starts[t].at = "port"
    BY <1>1 DEF IInv, TypeOK, Invocation, Current, WaitsHold, Waits, Quiet
  <2>2. starts[t].generation < manager.generation /\ manager.generation \in Nat
    BY <1>1, <2>1 DEF IInv, Start, SearchesHold, Manager
  <2> QED BY <2>2 DEF Current, Cancelled
<1>3. /\ ~manager'.ready /\ ~manager'.restartTimer /\ ~manager'.shuttingDown
      /\ manager'.generation = manager.generation /\ manager'.restartAttempt = 0
  BY <1>1, BegunFields DEF Start
<1>4. starts'[s].at = "port" /\ starts'[s].generation = manager.generation
  BY DEF Start, IInv, TypeOK
<1>5. Phase = "down"
  BY <1>1, <1>2 DEF Phase, Quiet
<1>6. Phase' = "starting"
  BY <1>3, <1>4 DEF Phase, Current, Cancelled
<1> QED BY <1>3, <1>5, <1>6 DEF Promise!Next, Promise!Start

\* A start that searched for its port goes on, or was the only current one.
LEMMA PortPromised ==
  ASSUME IInv, IInv', NEW s \in Slot, PortFound(s) \/ PortFails(s)
  PROVE  Promise!Next \/ UNCHANGED <<Phase, manager.restartAttempt>>
<1>1. CASE PortFound(s)
  <2>1. Phase = "starting"
    BY <1>1, PortFoundPreserves DEF Phase, Quiet
  <2>2. Phase' = "starting"
    BY <1>1, PortFoundPreserves DEF Phase
  <2> QED BY <1>1, <2>1, <2>2, PortFoundPreserves
<1>2. CASE PortFails(s)
  <2>1. /\ starts[s].at = "port" /\ UNCHANGED manager
        /\ \A t \in Slot : starts'[t] = IF t = s THEN Settled ELSE starts[t]
    BY <1>2 DEF PortFails, IInv, TypeOK
  <2>2. \A t \in Slot : Current(t)' <=> Current(t) /\ t # s
    BY <2>1 DEF Current, Cancelled, Settled
  <2>3. CASE Current(s)
    <3>1. Quiet /\ \A t \in Slot : Current(t) => t = s
      BY <2>1, <2>3 DEF IInv, SearchesHold, Current
    <3>2. Phase = "starting"
      BY <2>3, <3>1 DEF Phase, Quiet
    <3>3. Phase' = "down"
      BY <2>1, <2>2, <3>1 DEF Phase, Quiet
    <3> QED BY <2>1, <3>2, <3>3 DEF Promise!Next, Promise!GoesDown
  <2>4. CASE ~Current(s)
    BY <2>1, <2>2, <2>4 DEF Phase
  <2> QED BY <2>3, <2>4
<1> QED BY <1>1, <1>2

\* The timer's start is a retry.
LEMMA RestartPromised ==
  ASSUME IInv, NEW s \in Slot, RestartFires(s)
  PROVE  Promise!Next
<1>1. manager.restartTimer /\ ~manager.ready
  BY DEF RestartFires, IInv, ReadyHolds
<1>2. Phase = "waiting"
  BY <1>1 DEF Phase
<1>3. Phase' = "starting"
  BY RestartFiresPreserves DEF Phase
<1> QED BY <1>2, <1>3, RestartFiresPreserves DEF Promise!Next, Promise!Retry

\* A restart that finds no binary goes from one wait to the next, or down.
LEMMA ThrowsPromised ==
  ASSUME IInv, RestartThrows
  PROVE  Promise!Next
<1>1. Phase = "waiting" /\ manager.restartAttempt > 0
  BY ThrowsPreserves DEF Phase
<1>2. CASE ~manager'.restartTimer /\ manager'.restartAttempt = manager.restartAttempt
  <2>1. Phase' = "down"
    BY <1>2, ThrowsPreserves DEF Phase
  <2> QED BY <1>1, <1>2, <2>1 DEF Promise!Next, Promise!GoesDown
<1>3. CASE WillRetry(manager, manager')
  <2>1. Phase' = "waiting"
    BY <1>3, ThrowsPreserves DEF Phase, WillRetry
  <2> QED BY <1>1, <1>3, <2>1 DEF WillRetry, Promise!Next, Promise!WillRetry
<1> QED BY <1>2, <1>3, ThrowsPreserves

\* The answer ends the start that waits.
LEMMA HealthOkPromised ==
  ASSUME IInv, NEW s \in Slot, HealthOk(s)
  PROVE  Promise!Next
<1>1. Waits(s) /\ manager'.ready /\ manager'.restartAttempt = 0
  BY HealthOkPreserves
<1>2. ~manager.ready /\ ~manager.restartTimer /\ Current(s)
  BY <1>1 DEF IInv, WaitsHold, Waits, Current
<1>3. Phase = "starting" /\ Phase' = "up"
  BY <1>1, <1>2 DEF Phase
<1> QED BY <1>1, <1>3 DEF Promise!Next, Promise!ComesUp

\* When its process has closed the backend is down or waits for a restart.
LEMMA ClosePromised ==
  ASSUME IInv, NEW c \in Child, Close(c)
  PROVE  Promise!Next \/ UNCHANGED <<Phase, manager.restartAttempt>>
<1>1. /\ ~manager.restartTimer /\ ~manager'.ready /\ \A t \in Slot : ~Current(t)'
      /\ \/ NoRetry(manager, manager')
         \/ /\ WillRetry(manager, manager')
            /\ \/ manager.ready
               \/ /\ ~manager.ready /\ manager.restartAttempt > 0
                  /\ \E s \in Slot : Current(s)
  BY ClosePreserves
<1>2. Phase \in {"up", "starting", "down"}
  BY <1>1 DEF Phase
<1>3. CASE NoRetry(manager, manager')
  <2>1. Phase' = "down" /\ manager'.restartAttempt = manager.restartAttempt
    BY <1>1, <1>3 DEF Phase, NoRetry
  <2> QED BY <1>2, <2>1 DEF Promise!Next, Promise!GoesDown
<1>4. CASE WillRetry(manager, manager') /\ manager.ready
  <2>1. Phase = "up" /\ Phase' = "waiting"
    BY <1>1, <1>4 DEF Phase, WillRetry
  <2> QED BY <1>4, <2>1 DEF WillRetry, Promise!Next, Promise!WillRetry
<1>5. CASE /\ WillRetry(manager, manager') /\ ~manager.ready
           /\ manager.restartAttempt > 0 /\ \E s \in Slot : Current(s)
  <2>1. Phase = "starting" /\ Phase' = "waiting"
    BY <1>1, <1>5 DEF Phase, WillRetry
  <2> QED BY <1>5, <2>1 DEF WillRetry, Promise!Next, Promise!WillRetry
<1> QED BY <1>1, <1>3, <1>4, <1>5

\* A stop brings the backend down from wherever it is.
LEMMA StopPromised ==
  ASSUME IInv, Stop
  PROVE  Promise!Next
<1>1. Phase' = "down" /\ manager'.restartAttempt = 0
  BY StopPreserves DEF Phase
<1> QED BY <1>1 DEF Promise!Next, Promise!Stop

\* Every step of the supervisor is a step of BackendPromise, or none.
LEMMA NextPromised ==
  IInv /\ IInv' /\ [Next]_vars => [Promise!Next]_(Promise!vars)
<1> SUFFICES ASSUME IInv, IInv', [Next]_vars
             PROVE  Promise!Next \/ UNCHANGED <<Phase, manager.restartAttempt>>
  BY DEF Promise!vars
<1>1. CASE \E s \in Slot : Start(s) \/ PortFound(s) \/ PortFails(s) \/ RestartFires(s)
  BY <1>1, StartPromised, PortPromised, RestartPromised
<1>2. CASE \E s \in Slot : HealthOk(s) \/ HealthFails(s) \/ IntervalFires(s)
  <2>1. CASE \E s \in Slot : HealthOk(s)
    BY <2>1, HealthOkPromised
  <2>2. CASE \E s \in Slot : HealthFails(s) \/ IntervalFires(s)
    <3>1. PICK s \in Slot : HealthFails(s) \/ IntervalFires(s)
      BY <2>2
    <3>2. /\ Waits(s) /\ manager \in Manager /\ ~manager.ready
          /\ Alike(manager, manager) /\ NoRetry(manager, manager)
      BY <3>1, HealthFailsPreserves DEF IInv, TypeOK, WaitsHold, Alike, NoRetry
    <3> QED BY <3>1, <3>2, HealthFailsPreserves, RejectGoesDown
  <2> QED BY <1>2, <2>1, <2>2
<1>3. CASE \E c \in Child : SpawnError(c)
  BY <1>3, SpawnErrorPreserves, RejectGoesDown
<1>4. CASE \E c \in Child : Close(c) \/ Exit(c)
  BY <1>4, ClosePromised, ExitPreserves
<1>5. CASE RestartThrows \/ Stop
  BY <1>5, ThrowsPromised, StopPromised
<1>6. CASE UNCHANGED vars
  BY <1>6 DEF vars, Phase, Current, Cancelled
<1> QED BY <1>1, <1>2, <1>3, <1>4, <1>5, <1>6 DEF Next

\* The supervisor starts as BackendPromise does.
LEMMA InitPromised == Init => Promise!Init
<1> SUFFICES ASSUME Init PROVE Phase = "down" /\ manager.restartAttempt = 0
  BY DEF Promise!Init
<1> QED BY DEF Init, Phase, Current, Settled

-----------------------------------------------------------------------------
(* A process that runs is waited for *)

\* While a start waits, no exit status is there to be taken for that of its process,
\* and a health check is left.
TriesHold ==
  \A s \in Slot : Waits(s) => ~manager.exited /\ starts[s].retries < MaxRetries

\* What a step may do to a process: RunningChildGetsItsRetries, of one process.
GetsItsRetries(c) ==
  children'[c] = "running" /\ (\A s \in Slot : ~Waiting(s, c)')
    => /\ children[c] = "running"
       /\ \A s \in Slot :
            Waiting(s, c) => manager'.ready \/ starts[s].retries + 1 = MaxRetries

\* Only a start that waits has a process, and it is that of the manager.
LEMMA WaitingWaits ==
  ASSUME IInv, NEW s \in Slot, NEW c \in Child, Waiting(s, c)
  PROVE  Waits(s) /\ c = manager.process
<1>1. starts[s].child # None /\ starts[s] \in Invocation
  BY NoneIsNew DEF Waiting, IInv, TypeOK
<1>2. starts[s].at # "none" /\ starts[s].at # "port"
  BY <1>1 DEF IInv, SettledClean, SearchesHold, Settled
<1>3. Waits(s)
  BY <1>1, <1>2 DEF Waits, Invocation
<1> QED BY <1>3 DEF Waiting, IInv, WaitsHold

\* No other start waits for the process of the start that is rejected.
LEMMA RejectTries ==
  ASSUME IInv, NEW s \in Slot, Waits(s), NEW m, Reject(m, s)
  PROVE  TriesHold'
<1>1. \A t \in Slot : starts'[t] = IF t = s THEN Settled ELSE starts[t]
  BY DEF Reject, IInv, TypeOK
<1>2. \A t \in Slot : ~Waits(t)'
  BY <1>1, WaitsAlone DEF Waits, Settled
<1> QED BY <1>2 DEF TriesHold

\* A process that is spawned is waited for at once.
LEMMA SpawnTries ==
  ASSUME IInv, NEW s \in Slot, NEW m \in Manager, ~m.exited, NEW by, NEW generation,
         starts[s].child = None, \A t \in Slot : t # s => ~Waits(t),
         Spawn(m, s, by, generation)
  PROVE  TriesHold' /\ \A c \in Child : GetsItsRetries(c)
<1>1. PICK c \in Child, how \in {"running", "broken"} :
        /\ children[c] = "none" /\ children' = [children EXCEPT ![c] = how]
        /\ manager' = [m EXCEPT !.process = c, !.readyReject = s]
        /\ starts' = [starts EXCEPT ![s] =
             [at |-> "check", by |-> by, generation |-> generation,
              child |-> c, retries |-> 0]]
  BY DEF Spawn, Contaminated, Manager
<1>2. ~manager'.exited
  BY <1>1 DEF Manager
<1>3. /\ \A t \in Slot : t # s => starts'[t] = starts[t]
      /\ starts'[s].child = c /\ starts'[s].retries = 0
  BY <1>1 DEF IInv, TypeOK
<1>4. TriesHold'
  BY <1>2, <1>3, LimitsDefined DEF TriesHold, Waits
<1>5. \A d \in Child : d # c => children'[d] = children[d]
  BY <1>1 DEF IInv, TypeOK
<1>6. \A d \in Child, t \in Slot : Waiting(t, d) => Waiting(t, d)'
  BY <1>3, NoneIsNew DEF Waiting
<1>7. Waiting(s, c)'
  BY <1>3 DEF Waiting
<1> QED BY <1>4, <1>5, <1>6, <1>7 DEF GetsItsRetries

\* A step that spawns nothing and leaves everyone waiting takes no process away.
LEMMA NobodyLeaves ==
  ASSUME NEW c \in Child, children'[c] = "running" => children[c] = "running",
         \A s \in Slot : Waiting(s, c) => Waiting(s, c)'
  PROVE  GetsItsRetries(c)
BY DEF GetsItsRetries

\* A start that begins has no process, and forgets the exit status of an earlier one.
LEMMA StartTries ==
  ASSUME IInv, TriesHold, NEW s \in Slot, Start(s)
  PROVE  TriesHold' /\ \A c \in Child : GetsItsRetries(c)
<1>1. /\ starts[s] = Settled /\ UNCHANGED children /\ manager' = Begun(manager)
      /\ starts' = [starts EXCEPT ![s] =
           [at |-> "port", by |-> "app", generation |-> manager.generation,
            child |-> None, retries |-> 0]]
  BY DEF Start
<1>2. ~manager'.exited
  BY <1>1, BegunFields DEF IInv, TypeOK
<1>3. /\ \A t \in Slot : t # s => starts'[t] = starts[t]
      /\ starts'[s].at = "port" /\ starts[s].child = None
  BY <1>1 DEF IInv, TypeOK, Settled
<1>4. TriesHold'
  BY <1>2, <1>3 DEF TriesHold, Waits
<1>5. \A c \in Child, t \in Slot : Waiting(t, c) => Waiting(t, c)'
  BY <1>3, NoneIsNew DEF Waiting
<1> QED BY <1>1, <1>4, <1>5, NobodyLeaves

\* A port that is found is for the only start there is; one that is not found ends
\* a start without a process.
LEMMA PortTries ==
  ASSUME IInv, TriesHold, NEW s \in Slot, PortFound(s) \/ PortFails(s)
  PROVE  TriesHold' /\ \A c \in Child : GetsItsRetries(c)
<1>1. starts[s].at = "port" /\ starts[s].child = None
  BY DEF PortFound, PortFails, IInv, SearchesHold
<1>2. CASE PortFound(s)
  <2>1. ~Cancelled(s) /\ ~manager.exited /\ manager \in Manager
    BY <1>2, <1>1 DEF PortFound, IInv, SearchesHold, TypeOK
  <2>2. \A t \in Slot : t # s => ~Waits(t)
    BY <1>1, <2>1, WaitsAlone
  <2> QED BY <1>1, <1>2, <2>1, <2>2, SpawnTries DEF PortFound
<1>3. CASE PortFails(s)
  <2>1. /\ \A t \in Slot : t # s => starts'[t] = starts[t]
        /\ starts'[s] = Settled /\ UNCHANGED <<manager, children>>
    BY <1>3 DEF PortFails, IInv, TypeOK
  <2>2. TriesHold'
    BY <2>1 DEF TriesHold, Waits, Settled
  <2>3. \A c \in Child, t \in Slot : Waiting(t, c) => Waiting(t, c)'
    BY <1>1, <2>1, NoneIsNew DEF Waiting
  <2> QED BY <2>1, <2>2, <2>3, NobodyLeaves
<1> QED BY <1>2, <1>3

\* A restart comes when no start waits.
LEMMA RestartTries ==
  ASSUME IInv, TriesHold, NEW s \in Slot, RestartFires(s)
  PROVE  TriesHold' /\ \A c \in Child : GetsItsRetries(c)
<1>1. /\ manager.restartTimer /\ ~manager.shuttingDown /\ starts[s] = Settled
      /\ Spawn(Begun(manager), s, "timer", manager.generation)
  BY DEF RestartFires, IInv, TimerHolds
<1>2. Begun(manager) \in Manager /\ ~Begun(manager).exited
  BY BegunFields DEF IInv, TypeOK
<1>3. \A t \in Slot : ~Waits(t)
  BY <1>1 DEF IInv, WaitsHold
<1> QED BY <1>1, <1>2, <1>3, SpawnTries DEF Settled

\* A restart that finds no binary touches no process, and no start waits.
LEMMA ThrowsTries ==
  ASSUME IInv, TriesHold, RestartThrows
  PROVE  TriesHold' /\ \A c \in Child : GetsItsRetries(c)
<1>1. UNCHANGED <<starts, children>> /\ \A t \in Slot : ~Waits(t)
  BY ThrowsPreserves DEF RestartThrows
<1>2. TriesHold'
  BY <1>1 DEF TriesHold, Waits
<1>3. \A c \in Child, t \in Slot : Waiting(t, c) => Waiting(t, c)'
  BY <1>1 DEF Waiting
<1> QED BY <1>1, <1>2, <1>3, NobodyLeaves

\* A health check ends a wait by the answer or, when it was the last, without one; an
\* interval ends none.
LEMMA HealthTries ==
  ASSUME IInv, TriesHold, NEW s \in Slot, HealthOk(s) \/ HealthFails(s) \/ IntervalFires(s)
  PROVE  TriesHold' /\ \A c \in Child : GetsItsRetries(c)
<1>1. /\ Waits(s) /\ UNCHANGED children /\ manager \in Manager /\ starts[s] \in Invocation
      /\ starts \in [Slot -> Invocation]
  BY DEF HealthOk, HealthFails, IntervalFires, Checking, Waits, IInv, TypeOK
<1>2. ~Cancelled(s) /\ ~Contaminated(manager) /\ starts[s].retries < MaxRetries
  BY <1>1 DEF IInv, WaitsHold, TriesHold, Contaminated
<1>3. CASE HealthOk(s)
  <2>1. manager'.ready /\ starts' = [starts EXCEPT ![s] = Settled]
    BY <1>1, <1>2, <1>3 DEF HealthOk, Cleanup, Manager
  <2>2. \A t \in Slot : ~Waits(t)'
    BY <1>1, <2>1, WaitsAlone DEF Waits, Settled
  <2> QED BY <1>1, <2>1, <2>2 DEF TriesHold, GetsItsRetries
<1>4. CASE HealthFails(s) /\ starts[s].retries + 1 >= MaxRetries
  <2>1. Reject(manager, s)
    BY <1>4 DEF HealthFails
  <2>2. starts[s].retries + 1 = MaxRetries
    BY <1>1, <1>2, <1>4, LimitsDefined DEF Invocation
  <2>3. \A t \in Slot, c \in Child : Waiting(t, c) => t = s
    BY <1>1, WaitingWaits, WaitsAlone
  <2> QED BY <1>1, <2>1, <2>2, <2>3, RejectTries DEF GetsItsRetries
<1>5. CASE \/ HealthFails(s) /\ ~(starts[s].retries + 1 >= MaxRetries)
           \/ IntervalFires(s)
  <2>1. /\ manager'.exited = manager.exited
        /\ \A t \in Slot : /\ starts'[t].child = starts[t].child
                           /\ Waits(t)' => Waits(t)
                           /\ Waits(t)' => starts'[t].retries < MaxRetries
    <3>1. CASE HealthFails(s) /\ ~(starts[s].retries + 1 >= MaxRetries)
      <4>1. /\ manager' = [manager EXCEPT !.readyTimer = s]
            /\ starts' = [starts EXCEPT ![s].at = "interval", ![s].retries = @ + 1]
        BY <1>2, <3>1 DEF HealthFails
      <4>2. /\ starts'[s].retries = starts[s].retries + 1 /\ starts'[s].child = starts[s].child
            /\ \A t \in Slot : t # s => starts'[t] = starts[t]
        BY <1>1, <4>1 DEF Invocation
      <4>3. starts'[s].retries < MaxRetries
        BY <1>1, <3>1, <4>2, LimitsDefined DEF Invocation
      <4> QED BY <1>1, <4>1, <4>2, <4>3 DEF TriesHold, Waits, Manager
    <3>2. CASE IntervalFires(s)
      <4>1. starts' = [starts EXCEPT ![s].at = "check"] /\ UNCHANGED manager
        BY <1>2, <3>2 DEF IntervalFires
      <4>2. /\ starts'[s].retries = starts[s].retries /\ starts'[s].child = starts[s].child
            /\ \A t \in Slot : t # s => starts'[t] = starts[t]
        BY <1>1, <4>1 DEF Invocation
      <4> QED BY <1>1, <1>2, <4>1, <4>2 DEF TriesHold, Waits
    <3> QED BY <1>5, <3>1, <3>2
  <2>2. TriesHold'
    BY <2>1 DEF TriesHold
  <2>3. \A c \in Child, t \in Slot : Waiting(t, c) => Waiting(t, c)'
    BY <2>1 DEF Waiting
  <2> QED BY <1>1, <2>2, <2>3, NobodyLeaves
<1> QED BY <1>3, <1>4, <1>5

\* A start is told of the end of its own process only.
LEMMA NotifyTries ==
  ASSUME IInv, TriesHold, NEW c \in Child, NEW m \in Manager, Notify(m, c),
         m.exited = manager.exited \/ manager.process = c,
         \A d \in Child : d # c => children'[d] = children[d],
         children'[c] # "running"
  PROVE  TriesHold' /\ \A d \in Child : GetsItsRetries(d)
<1>1. CASE (\A s \in Slot : starts[s].child # c) /\ manager' = m /\ UNCHANGED starts
  <2>1. \A s \in Slot : Waits(s) => manager.process # c
    BY <1>1 DEF IInv, WaitsHold
  <2>2. TriesHold'
    BY <1>1, <2>1 DEF TriesHold, Waits
  <2>3. \A d \in Child, t \in Slot : Waiting(t, d) => Waiting(t, d)'
    BY <1>1 DEF Waiting
  <2> QED BY <2>2, <2>3, NobodyLeaves DEF GetsItsRetries
<1>2. ASSUME NEW s \in Slot, starts[s].child = c, Reject(m, s)
      PROVE  TriesHold' /\ \A d \in Child : GetsItsRetries(d)
  <2>1. Waits(s)
    BY <1>2, WaitingWaits DEF Waiting
  <2>2. TriesHold'
    BY <1>2, <2>1, RejectTries
  <2>3. \A t \in Slot : t # s => starts'[t] = starts[t]
    BY <1>2 DEF Reject, IInv, TypeOK
  <2>4. \A d \in Child, t \in Slot : d # c /\ Waiting(t, d) => Waiting(t, d)'
    BY <1>2, <2>3 DEF Waiting
  <2> QED BY <2>2, <2>4, NobodyLeaves DEF GetsItsRetries
<1> QED BY <1>1, <1>2 DEF Notify

\* A process that could not be spawned, has closed, or had been stopped.
LEMMA ChildTries ==
  ASSUME IInv, TriesHold, NEW c \in Child, SpawnError(c) \/ Close(c) \/ Exit(c)
  PROVE  TriesHold' /\ \A d \in Child : GetsItsRetries(d)
<1>1. /\ \A d \in Child : d # c => children'[d] = children[d]
      /\ children'[c] # "running" /\ manager \in Manager
  BY DEF SpawnError, Close, Exit, IInv, TypeOK
<1>2. CASE SpawnError(c)
  <2> DEFINE m == [manager EXCEPT !.state = "spawn_error"]
  <2>1. m \in Manager /\ m.exited = manager.exited /\ Notify(m, c)
    BY <1>1, <1>2 DEF SpawnError, Manager, State
  <2> HIDE DEF m
  <2> QED BY <1>1, <2>1, NotifyTries
<1>3. CASE Close(c)
  <2>1. manager.process = c /\ Notify(Closed(manager), c)
    BY <1>3 DEF Close, IInv, ChildrenTracked
  <2>2. Closed(manager) \in Manager
    BY <1>1, ClosedFields
  <2> QED BY <1>1, <2>1, <2>2, NotifyTries
<1>4. CASE Exit(c)
  <2>1. UNCHANGED <<manager, starts>>
    BY <1>4 DEF Exit
  <2>2. TriesHold'
    BY <2>1 DEF TriesHold, Waits
  <2> QED BY <1>1, <2>1, <2>2 DEF GetsItsRetries, Waiting
<1> QED BY <1>2, <1>3, <1>4

\* A stop rejects the start that waits, and stops its process.
LEMMA StopTries ==
  ASSUME IInv, TriesHold, Stop
  PROVE  TriesHold' /\ \A c \in Child : GetsItsRetries(c)
<1>1. /\ ~manager'.exited
      /\ starts' = [s \in Slot |-> IF s \in {manager.readyReject} THEN Settled ELSE starts[s]]
      /\ children' = [c \in Child |-> IF c = manager.process THEN "stopped" ELSE children[c]]
  BY DEF Stop, StopRejecting, IInv, TypeOK, Manager
<1>2. TriesHold'
  BY <1>1 DEF TriesHold, Waits, Settled
<1>3. \A c \in Child, s \in Slot : ~(Waiting(s, c) /\ children'[c] = "running")
  BY <1>1, WaitingWaits
<1>4. \A c \in Child : children'[c] = "running" => children[c] = "running"
  BY <1>1
<1> QED BY <1>2, <1>3, <1>4 DEF GetsItsRetries

\* Every step keeps what waits, and lets no process go before its time.
LEMMA NextTries ==
  ASSUME IInv, TriesHold, [Next]_vars
  PROVE  TriesHold' /\ \A c \in Child : GetsItsRetries(c)
<1>1. CASE UNCHANGED vars
  BY <1>1, NobodyLeaves DEF vars, TriesHold, Waits, Waiting
<1> QED BY <1>1, StartTries, PortTries, RestartTries, ThrowsTries, HealthTries, ChildTries, StopTries
   DEF Next

-----------------------------------------------------------------------------
(* Theorems *)

\* The invariant holds of every behaviour.
THEOREM Inductive == Spec => []IInv
BY InitHolds, NextPreserves, PTL DEF Spec

\* Every field, every start and every process keeps its type.
THEOREM TypeCorrect == Spec => []TypeOK
<1>1. IInv => TypeOK
  BY DEF IInv
<1> QED BY <1>1, Inductive, PTL

\* A process that was spawned and not stopped is the one the manager would stop.
THEOREM NoProcessIsLost == Spec => []ChildrenTracked
<1>1. IInv => ChildrenTracked
  BY DEF IInv
<1> QED BY <1>1, Inductive, PTL

\* After a stop there is no process, no restart and no wait, and the start whose
\* port is found late spawns nothing.
THEOREM NothingAfterStop == Spec => []StopIsFinal
<1>1. IInv => StopIsFinal
  BY DEF IInv
<1> QED BY <1>1, Inductive, PTL

\* A process that runs is waited for until it answers or all the health checks of its
\* start have failed, whatever starts, restarts and stops overlap.
THEOREM RetriesAreGiven == Spec => RunningChildGetsItsRetries
<1>1. Init => TriesHold
  BY DEF Init, TriesHold, Waits, Settled
<1>2. IInv /\ TriesHold /\ [Next]_vars => TriesHold'
  BY NextTries
<1>3. IInv /\ TriesHold /\ [Next]_vars =>
        [\A c \in Child :
           children'[c] = "running" /\ (\A s \in Slot : ~Waiting(s, c)')
             => /\ children[c] = "running"
                /\ \A s \in Slot :
                     Waiting(s, c) => manager'.ready \/ starts[s].retries + 1 = MaxRetries]_vars
  BY NextTries DEF GetsItsRetries
<1> QED BY <1>1, <1>2, <1>3, Inductive, PTL DEF Spec, RunningChildGetsItsRetries

\* The supervisor implements BackendPromise.
THEOREM Implements == Spec => KeepsPromise
<1>1. IInv /\ [Next]_vars => [Promise!Next]_(Promise!vars)
  BY NextPreserves, NextPromised
<1> QED BY <1>1, InitPromised, Inductive, PTL DEF Spec, KeepsPromise, Promise!Spec

=============================================================================
