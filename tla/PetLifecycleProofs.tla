------------------------- MODULE PetLifecycleProofs -------------------------
(***************************************************************************)
(* The windows, timers and backend pets of PetLifecycle, for every number of *)
(* calls, crashes and failures.  The synchronous effects are functions on    *)
(* the record app, so what they keep is stated of any record: Good.  What is *)
(* true only while no backend has crashed is a layer of its own: Calm.       *)
(***************************************************************************)
EXTENDS PetLifecycle, FiniteSetTheorems, TLAPS

App == [pets : IdMap(PetEntry), windows : IdMap(Call), open : SUBSET Call,
        timers : IdMap(Call), loop : [Call -> LoopState],
        seen : [Call -> 0..FailureLimit], removing : SUBSET PetId]

\* The window manager names a window by the pet of the call that opened it; p is petOf.
Named(a, p) == \A id \in DOMAIN a.windows : p[a.windows[id]] = id

Registered(a, p) ==
  \A c \in a.open : p[c] \in DOMAIN a.windows /\ a.windows[p[c]] = c

Cancellable(a, p) ==
  \A c \in Call : a.loop[c] = "timer" => p[c] \in DOMAIN a.timers /\ a.timers[p[c]] = c

\* A pet that is not stopped has failures left, and so has every loop that read them.
Counted(a) ==
  /\ \A id \in DOMAIN a.pets : a.pets[id].stopped \/ a.pets[id].failures < FailureLimit
  /\ \A c \in Call : a.seen[c] < FailureLimit

Good(a, p) ==
  /\ a \in App /\ p \in [Call -> PetId \cup {0}]
  /\ Named(a, p) /\ Registered(a, p) /\ Cancellable(a, p) /\ Counted(a)

\* g is f, or f without id.
Part(f, g, id) ==
  /\ DOMAIN f \ {id} \subseteq DOMAIN g /\ DOMAIN g \subseteq DOMAIN f
  /\ \A i \in DOMAIN g : g[i] = f[i]

\* What is left of a when the window of pet id is gone, and maybe the pet.
Left(a, b, id) ==
  /\ Part(a.pets, b.pets, id) /\ Part(a.windows, b.windows, id)
  /\ b.open = {c \in a.open : petOf[c] # id}
  /\ a.removing \subseteq b.removing /\ b.removing \subseteq a.removing \cup {id}

\* A pet that leaves the store is being removed from the backend.
Owning(a, b) == DOMAIN a.pets \cup a.removing \subseteq DOMAIN b.pets \cup b.removing

\* The same pets, windows and removals; timers and loops may differ.
Same(a, b) ==
  /\ b.pets = a.pets /\ b.windows = a.windows /\ b.open = a.open
  /\ b.seen = a.seen /\ b.removing = a.removing

-----------------------------------------------------------------------------
\* Maps from ids

\* A map of ids is a function from some ids.
LEMMA IdMapFunctions ==
  ASSUME NEW V, NEW f
  PROVE  f \in IdMap(V) <=> DOMAIN f \subseteq PetId /\ f \in [DOMAIN f -> V]
BY DEF IdMap

\* delete, of a Map.
LEMMA DropDoes ==
  ASSUME NEW f, NEW key
  PROVE  /\ DOMAIN Drop(f, key) = DOMAIN f \ {key}
         /\ \A k \in DOMAIN f \ {key} : Drop(f, key)[k] = f[k]
         /\ Part(f, Drop(f, key), key)
BY DEF Drop, Restrict, Part

\* What remains of a map is one.
LEMMA DropType ==
  ASSUME NEW V, NEW f \in IdMap(V), NEW key
  PROVE  Drop(f, key) \in IdMap(V)
<1>1. DOMAIN f \subseteq PetId /\ f \in [DOMAIN f -> V]
  BY IdMapFunctions
<1>2. Drop(f, key) \in [DOMAIN f \ {key} -> V]
  BY <1>1 DEF Drop, Restrict
<1> QED
  BY <1>1, <1>2, DropDoes, IdMapFunctions

\* set, of a Map.
LEMMA PutDoes ==
  ASSUME NEW f, NEW key, NEW v
  PROVE  /\ DOMAIN Put(f, key, v) = DOMAIN f \cup {key}
         /\ Put(f, key, v)[key] = v
         /\ \A k \in DOMAIN f \ {key} : Put(f, key, v)[k] = f[k]
BY DEF Put

\* A map with an entry more is one.
LEMMA PutType ==
  ASSUME NEW V, NEW f \in IdMap(V), NEW key \in PetId, NEW v \in V
  PROVE  Put(f, key, v) \in IdMap(V)
<1>1. DOMAIN f \subseteq PetId /\ f \in [DOMAIN f -> V]
  BY IdMapFunctions
<1>2. Put(f, key, v) \in [DOMAIN f \cup {key} -> V]
  BY <1>1 DEF Put
<1> QED
  BY <1>1, <1>2, PutDoes, IdMapFunctions

\* A map of some of the ids.
LEMMA RestrictDoes ==
  ASSUME NEW f, NEW S, S \subseteq DOMAIN f
  PROVE  DOMAIN Restrict(f, S) = S /\ \A k \in S : Restrict(f, S)[k] = f[k]
BY DEF Restrict

\* A map restricted to some of its ids is one.
LEMMA RestrictType ==
  ASSUME NEW V, NEW f \in IdMap(V), NEW S, S \subseteq DOMAIN f
  PROVE  Restrict(f, S) \in IdMap(V)
<1>1. DOMAIN f \subseteq PetId /\ f \in [DOMAIN f -> V]
  BY IdMapFunctions
<1>2. Restrict(f, S) \in [S -> V]
  BY <1>1 DEF Restrict
<1> QED
  BY <1>1, <1>2, RestrictDoes, IdMapFunctions

\* The fields of the record app.
LEMMA AppFields ==
  ASSUME NEW a \in App
  PROVE  /\ a.pets \in IdMap(PetEntry) /\ a.windows \in IdMap(Call) /\ a.open \subseteq Call
         /\ a.timers \in IdMap(Call) /\ a.loop \in [Call -> LoopState]
         /\ a.seen \in [Call -> 0..FailureLimit] /\ a.removing \subseteq PetId
         /\ \A id \in DOMAIN a.pets : id \in PetId /\ a.pets[id] \in PetEntry
         /\ \A id \in DOMAIN a.windows : id \in PetId /\ a.windows[id] \in Call
         /\ \A id \in DOMAIN a.timers : id \in PetId /\ a.timers[id] \in Call
<1>1. /\ a.pets \in IdMap(PetEntry) /\ a.windows \in IdMap(Call) /\ a.open \subseteq Call
      /\ a.timers \in IdMap(Call) /\ a.loop \in [Call -> LoopState]
      /\ a.seen \in [Call -> 0..FailureLimit] /\ a.removing \subseteq PetId
  BY DEF App
<1> QED
  BY <1>1, IdMapFunctions

-----------------------------------------------------------------------------
\* Timers

\* Clearing the timer of a pet ends the loop that waits for it, and no other.
LEMMA ClearDoes ==
  ASSUME NEW a \in App, NEW id
  PROVE  LET b == ClearPetTimer(a, id)
         IN  /\ b \in App /\ Same(a, b)
             /\ DOMAIN b.timers = DOMAIN a.timers \ {id}
             /\ \A i \in DOMAIN b.timers : b.timers[i] = a.timers[i]
             /\ \A c \in Call : b.loop[c] =
                  IF id \in DOMAIN a.timers /\ c = a.timers[id] /\ a.loop[c] = "timer"
                  THEN "ended" ELSE a.loop[c]
<1> DEFINE b == ClearPetTimer(a, id)
<1>1. CASE id \notin DOMAIN a.timers
  BY <1>1 DEF ClearPetTimer, Same
<1>2. CASE id \in DOMAIN a.timers
  <2> DEFINE c == a.timers[id]
             timers == Drop(a.timers, id)
             loop == [a.loop EXCEPT ![c] = IF @ = "timer" THEN "ended" ELSE @]
  <2>1. b = [a EXCEPT !.timers = timers, !.loop = loop]
    BY <1>2 DEF ClearPetTimer
  <2>2. c \in Call /\ a.loop \in [Call -> LoopState]
    BY <1>2, AppFields
  <2>3. loop \in [Call -> LoopState]
    BY <2>2 DEF LoopState
  <2>4. \A d \in Call : loop[d] = IF d = c /\ a.loop[d] = "timer" THEN "ended" ELSE a.loop[d]
    BY <2>2
  <2>5. timers \in IdMap(Call)
    BY AppFields, DropType
  <2>6. DOMAIN timers = DOMAIN a.timers \ {id} /\ \A i \in DOMAIN timers : timers[i] = a.timers[i]
    BY DropDoes
  <2> HIDE DEF b, timers, loop
  <2>7. b \in App /\ Same(a, b) /\ b.timers = timers /\ b.loop = loop
    BY <2>1, <2>3, <2>5 DEF App, Same
  <2> QED
    BY <1>2, <2>4, <2>6, <2>7 DEF b
<1> QED
  BY <1>1, <1>2

\* Where the same windows are there, and the timers left are those of other pets.
LEMMA ClearGood ==
  ASSUME NEW a, Good(a, petOf), NEW id
  PROVE  Good(ClearPetTimer(a, id), petOf)
<1> DEFINE b == ClearPetTimer(a, id)
<1>1. /\ b \in App /\ Same(a, b)
      /\ DOMAIN b.timers = DOMAIN a.timers \ {id}
      /\ \A i \in DOMAIN b.timers : b.timers[i] = a.timers[i]
      /\ \A c \in Call : b.loop[c] =
           IF id \in DOMAIN a.timers /\ c = a.timers[id] /\ a.loop[c] = "timer"
           THEN "ended" ELSE a.loop[c]
  BY ClearDoes DEF Good
<1> HIDE DEF b
<1>2. Named(b, petOf) /\ Registered(b, petOf) /\ Counted(b)
  BY <1>1 DEF Same, Good, Named, Registered, Counted
<1>3. Cancellable(b, petOf)
  <2>1. SUFFICES ASSUME NEW c \in Call, b.loop[c] = "timer"
                 PROVE  petOf[c] \in DOMAIN b.timers /\ b.timers[petOf[c]] = c
    BY DEF Cancellable
  <2>2. a.loop[c] = "timer" /\ ~(id \in DOMAIN a.timers /\ c = a.timers[id])
    BY <1>1, <2>1
  <2>3. petOf[c] \in DOMAIN a.timers /\ a.timers[petOf[c]] = c
    BY <2>2 DEF Good, Cancellable
  <2> QED
    BY <1>1, <2>2, <2>3
<1>4. Good(b, petOf)
  BY <1>1, <1>2, <1>3 DEF Good
<1> QED
  BY <1>4 DEF b

-----------------------------------------------------------------------------
\* Windows

\* The record after the "closed" handler of call c: nothing of its pet is left, and
\* the pet is being removed from the backend.
LEMMA ClosedDoes ==
  ASSUME NEW a \in App, NEW c \in Call, petOf \in [Call -> PetId \cup {0}],
         NEW quits \in BOOLEAN
  PROVE  LET b       == Closed(a, c, quits)
             cleared == ClearPetTimer(a, petOf[c])
         IN  /\ b \in App /\ b.timers = cleared.timers /\ b.loop = cleared.loop
             /\ b.open = a.open /\ b.seen = a.seen
             /\ IF Stored(a, petOf[c])
                THEN /\ b.pets = Drop(a.pets, petOf[c]) /\ b.windows = Drop(a.windows, petOf[c])
                     /\ b.removing = IF quits THEN a.removing ELSE a.removing \cup {petOf[c]}
                ELSE b.pets = a.pets /\ b.windows = a.windows /\ b.removing = a.removing
<1> DEFINE id == petOf[c]
           b == Closed(a, c, quits)
           cleared == ClearPetTimer(a, id)
<1>1. cleared \in App /\ Same(a, cleared)
  BY ClearDoes
<1>2. CASE ~Stored(a, id)
  <2>1. b = cleared
    BY <1>2 DEF Closed
  <2> QED
    BY <1>1, <1>2, <2>1 DEF Same
<1>3. CASE Stored(a, id)
  <2> DEFINE removing == IF quits THEN cleared.removing ELSE cleared.removing \cup {id}
             pets == Drop(cleared.pets, id)
             windows == Drop(cleared.windows, id)
  <2>1. b = [cleared EXCEPT !.removing = removing, !.pets = pets, !.windows = windows]
    BY <1>3 DEF Closed
  <2>2. id \in PetId
    BY <1>1, <1>3, AppFields DEF Stored
  <2>3. removing \subseteq PetId
    BY <1>1, <2>2, AppFields
  <2>4. pets \in IdMap(PetEntry) /\ windows \in IdMap(Call)
    BY <1>1, AppFields, DropType
  <2>5. /\ pets = Drop(a.pets, id) /\ windows = Drop(a.windows, id)
        /\ removing = IF quits THEN a.removing ELSE a.removing \cup {id}
    BY <1>1 DEF Same
  <2> HIDE DEF b, cleared, removing, pets, windows
  <2>6. /\ b \in App /\ b.timers = cleared.timers /\ b.loop = cleared.loop
        /\ b.open = cleared.open /\ b.seen = cleared.seen
        /\ b.pets = pets /\ b.windows = windows /\ b.removing = removing
    BY <1>1, <2>1, <2>3, <2>4 DEF App
  <2>7. b.open = a.open /\ b.seen = a.seen
    BY <1>1, <2>6 DEF Same
  <2> QED
    BY <1>3, <2>5, <2>6, <2>7 DEF b, cleared
<1> QED
  BY <1>2, <1>3

\* A window that the window manager knows is destroyed: no window of its pet is open,
\* and what the record promises still holds.
LEMMA DestroyLeaves ==
  ASSUME NEW a, Good(a, petOf), NEW id \in DOMAIN a.windows, NEW quits \in BOOLEAN
  PROVE  LET b == Destroy(a, a.windows[id], quits)
         IN  Good(b, petOf) /\ Left(a, b, id) /\ (~quits => Owning(a, b))
<1> DEFINE c == a.windows[id]
           d == [a EXCEPT !.open = @ \ {c}]
           b == Destroy(a, c, quits)
<1>1. a \in App /\ petOf \in [Call -> PetId \cup {0}]
  BY DEF Good
<1>2. c \in Call /\ petOf[c] = id /\ id \in PetId
  BY <1>1, AppFields DEF Good, Named
<1>3. \A e \in a.open : petOf[e] = id => e = c
  BY DEF Good, Registered
<1>4. a.open \ {c} = {e \in a.open : petOf[e] # id}
  BY <1>2, <1>3
<1>5. CASE c \notin a.open
  <2>1. b = a
    BY <1>5 DEF Destroy
  <2> QED
    BY <1>4, <1>5, <2>1 DEF Left, Part, Owning
<1>6. CASE c \in a.open
  <2>1. /\ d \in App /\ d.open = a.open \ {c} /\ d.pets = a.pets /\ d.windows = a.windows
        /\ d.timers = a.timers /\ d.loop = a.loop /\ d.seen = a.seen /\ d.removing = a.removing
    BY <1>1 DEF App
  <2> HIDE DEF d
  <2>2. Good(d, petOf)
    BY <2>1 DEF Good, Named, Registered, Cancellable, Counted
  <2>3. CASE c \notin page.hooked
    <3>1. b = d
      BY <1>6, <2>3 DEF Destroy, d
    <3> QED
      BY <1>4, <2>1, <2>2, <3>1 DEF Left, Part, Owning
  <2>4. CASE c \in page.hooked
    <3> DEFINE cleared == ClearPetTimer(d, petOf[c])
    <3>1. b = Closed(d, c, quits)
      BY <1>6, <2>4 DEF Destroy, d
    <3> HIDE DEF b, c
    <3>11. /\ b \in App /\ b.timers = cleared.timers /\ b.loop = cleared.loop
          /\ b.open = d.open /\ b.seen = d.seen
          /\ IF Stored(d, petOf[c])
             THEN /\ b.pets = Drop(d.pets, petOf[c]) /\ b.windows = Drop(d.windows, petOf[c])
                  /\ b.removing = IF quits THEN d.removing ELSE d.removing \cup {petOf[c]}
             ELSE b.pets = d.pets /\ b.windows = d.windows /\ b.removing = d.removing
      BY <1>1, <1>2, <2>1, <3>1, ClosedDoes
    <3> HIDE DEF cleared
    <3>2. /\ b \in App /\ b.timers = cleared.timers /\ b.loop = cleared.loop
          /\ b.open = d.open /\ b.seen = d.seen
          /\ IF Stored(d, id)
             THEN /\ b.pets = Drop(d.pets, id) /\ b.windows = Drop(d.windows, id)
                  /\ b.removing = IF quits THEN d.removing ELSE d.removing \cup {id}
             ELSE b.pets = d.pets /\ b.windows = d.windows /\ b.removing = d.removing
      BY <1>2, <3>11
    <3>3. Good(cleared, petOf)
      BY <2>2, ClearGood DEF cleared
    <3>4. /\ Part(a.pets, b.pets, id) /\ Part(a.windows, b.windows, id)
          /\ a.removing \subseteq b.removing /\ b.removing \subseteq a.removing \cup {id}
          /\ ~quits => Owning(a, b)
      <4>1. CASE Stored(d, id)
        <5>1. b.pets = Drop(a.pets, id) /\ b.windows = Drop(a.windows, id)
          BY <2>1, <3>2, <4>1
        <5>2. b.removing = IF quits THEN a.removing ELSE a.removing \cup {id}
          BY <2>1, <3>2, <4>1
        <5>3. DOMAIN b.pets = DOMAIN a.pets \ {id}
          BY <5>1, DropDoes
        <5>4. Part(a.pets, b.pets, id) /\ Part(a.windows, b.windows, id)
          <6>1. Part(a.pets, Drop(a.pets, id), id) /\ Part(a.windows, Drop(a.windows, id), id)
            BY DropDoes
          <6> QED
            BY <5>1, <6>1
        <5>5. ~quits => Owning(a, b)
          BY <5>2, <5>3 DEF Owning
        <5> QED
          BY <5>2, <5>4, <5>5
      <4>2. CASE ~Stored(d, id)
        BY <2>1, <3>2, <4>2 DEF Part, Owning
      <4> QED
        BY <4>1, <4>2
    <3>5. Named(b, petOf)
      BY <3>4 DEF Part, Good, Named
    <3>6. Registered(b, petOf)
      <4>1. \A e \in b.open : e \in a.open /\ petOf[e] # id
        BY <1>4, <2>1, <3>2
      <4> QED
        BY <3>4, <4>1 DEF Part, Good, Registered
    <3>7. Cancellable(b, petOf)
      BY <3>2, <3>3 DEF Good, Cancellable
    <3>8. Counted(b)
      BY <2>1, <3>2, <3>4 DEF Part, Good, Counted
    <3>9. Good(b, petOf)
      BY <1>1, <3>2, <3>5, <3>6, <3>7, <3>8 DEF Good
    <3>10. Left(a, b, id)
      BY <1>4, <2>1, <3>2, <3>4 DEF Left
    <3> QED
      BY <3>4, <3>9, <3>10 DEF b, c
  <2> QED
    BY <2>3, <2>4
<1> QED
  BY <1>5, <1>6

\* The window manager lets go of the window of a pet.
LEMMA RemoveWindowLeaves ==
  ASSUME NEW a, Good(a, petOf), NEW id, NEW quits \in BOOLEAN
  PROVE  LET b == RemovePetWindow(a, id, quits)
         IN  /\ Good(b, petOf) /\ Left(a, b, id) /\ (~quits => Owning(a, b))
             /\ id \notin DOMAIN b.windows
<1> DEFINE b == RemovePetWindow(a, id, quits)
<1>1. CASE id \notin DOMAIN a.windows
  <2>1. b = a
    BY <1>1 DEF RemovePetWindow
  <2>2. \A c \in a.open : petOf[c] # id
    BY <1>1 DEF Good, Registered
  <2> QED
    BY <1>1, <2>1, <2>2 DEF Left, Part, Owning
<1>2. CASE id \in DOMAIN a.windows
  <2> DEFINE d == Destroy(a, a.windows[id], quits)
  <2>1. Good(d, petOf) /\ Left(a, d, id) /\ (~quits => Owning(a, d))
    BY <1>2, DestroyLeaves
  <2>2. b = [d EXCEPT !.windows = Drop(@, id)]
    BY <1>2 DEF RemovePetWindow
  <2> HIDE DEF b, d
  <2>3. d \in App /\ Drop(d.windows, id) \in IdMap(Call)
    BY <2>1, AppFields, DropType DEF Good
  <2> DEFINE windows == Drop(d.windows, id)
  <2>4. /\ DOMAIN windows = DOMAIN d.windows \ {id}
        /\ \A i \in DOMAIN windows : windows[i] = d.windows[i]
    BY DropDoes
  <2> HIDE DEF windows
  <2>5. /\ b \in App /\ b.windows = windows /\ b.pets = d.pets /\ b.open = d.open
        /\ b.timers = d.timers /\ b.loop = d.loop /\ b.seen = d.seen /\ b.removing = d.removing
    BY <2>2, <2>3 DEF App, windows
  <2>6. Left(a, b, id)
    BY <2>1, <2>4, <2>5 DEF Left, Part
  <2>7. Named(b, petOf) /\ Cancellable(b, petOf) /\ Counted(b)
    BY <2>1, <2>4, <2>5 DEF Good, Named, Cancellable, Counted
  <2>8. Registered(b, petOf)
    <3>1. \A c \in b.open : c \in d.open /\ petOf[c] # id
      BY <2>1, <2>5 DEF Left
    <3> QED
      BY <2>1, <2>4, <2>5, <3>1 DEF Good, Registered
  <2>9. Good(b, petOf)
    BY <2>1, <2>5, <2>7, <2>8 DEF Good
  <2> QED
    BY <2>1, <2>4, <2>5, <2>6, <2>9 DEF Owning, b
<1> QED
  BY <1>1, <1>2

\* Taking a pet out of the store takes its window down; doing so again does nothing.
LEMMA RemovalLeaves ==
  ASSUME NEW a, Good(a, petOf), NEW id, NEW quits \in BOOLEAN
  PROVE  LET b == RemovePetWindow(RemoveFromStore(a, id, quits), id, quits)
         IN  Good(b, petOf) /\ Left(a, b, id)
<1> DEFINE m == RemoveFromStore(a, id, quits)
           b == RemovePetWindow(m, id, quits)
<1>1. CASE ~Stored(a, id)
  <2>1. m = a
    BY <1>1 DEF RemoveFromStore
  <2> QED
    BY <2>1, RemoveWindowLeaves
<1>2. CASE Stored(a, id)
  <2> DEFINE d == [a EXCEPT !.pets = Drop(@, id)]
             pets == Drop(a.pets, id)
  <2>1. m = RemovePetWindow(d, id, quits)
    BY <1>2 DEF RemoveFromStore
  <2>2. pets \in IdMap(PetEntry)
    BY AppFields, DropType DEF Good
  <2>3. DOMAIN pets = DOMAIN a.pets \ {id} /\ \A i \in DOMAIN pets : pets[i] = a.pets[i]
    BY DropDoes
  <2>4. d = [a EXCEPT !.pets = pets]
    OBVIOUS
  <2> HIDE DEF d, pets
  <2>5. /\ d \in App /\ d.pets = pets /\ d.windows = a.windows /\ d.open = a.open
        /\ d.timers = a.timers /\ d.loop = a.loop /\ d.seen = a.seen /\ d.removing = a.removing
    BY <2>2, <2>4 DEF App, Good
  <2>6. Good(d, petOf)
    BY <2>3, <2>5 DEF Good, Named, Registered, Cancellable, Counted
  <2> HIDE DEF m
  <2>7. Good(m, petOf) /\ Left(d, m, id) /\ id \notin DOMAIN m.windows
    BY <2>1, <2>6, RemoveWindowLeaves
  <2>8. b = m
    BY <2>7 DEF RemovePetWindow
  <2>9. Left(a, m, id)
    BY <2>3, <2>5, <2>7 DEF Left, Part
  <2> QED
    BY <2>7, <2>8, <2>9 DEF m
<1> QED
  BY <1>1, <1>2

-----------------------------------------------------------------------------
\* Loops

\* A loop that arms its timer, or ends.
LEMMA ScheduleGood ==
  ASSUME NEW a, Good(a, petOf), NEW c \in Call
  PROVE  Good(Schedule(a, c), petOf) /\ Same(a, Schedule(a, c))
<1> DEFINE id == petOf[c]
           b == Schedule(a, c)
<1>1. a \in App /\ a.loop \in [Call -> LoopState] /\ petOf \in [Call -> PetId \cup {0}]
  BY AppFields DEF Good
<1>2. CASE ~Stored(a, id) \/ ~HasWindow(a, id) \/ a.pets[id].stopped
  <2> DEFINE loop == [a.loop EXCEPT ![c] = "ended"]
  <2>1. b = [a EXCEPT !.loop = loop]
    BY <1>2 DEF Schedule
  <2>2. loop \in [Call -> LoopState] /\ \A e \in Call : loop[e] \in {a.loop[e], "ended"}
    BY <1>1 DEF LoopState
  <2> HIDE DEF b, loop
  <2>3. b \in App /\ Same(a, b) /\ b.timers = a.timers /\ b.loop = loop
    BY <1>1, <2>1, <2>2 DEF App, Same
  <2>4. Named(b, petOf) /\ Registered(b, petOf) /\ Counted(b)
    BY <2>3 DEF Same, Good, Named, Registered, Counted
  <2>5. Cancellable(b, petOf)
    BY <2>2, <2>3 DEF Good, Cancellable
  <2> QED
    BY <1>1, <2>3, <2>4, <2>5 DEF Good, b
<1>3. CASE ~(~Stored(a, id) \/ ~HasWindow(a, id) \/ a.pets[id].stopped)
  <2> DEFINE d == ClearPetTimer(a, id)
             timers == Put(d.timers, id, c)
             loop == [d.loop EXCEPT ![c] = "timer"]
  <2>1. b = [d EXCEPT !.timers = timers, !.loop = loop]
    BY <1>3 DEF Schedule
  <2>2. Good(d, petOf)
    BY ClearGood
  <2>3. /\ d \in App /\ Same(a, d)
        /\ DOMAIN d.timers = DOMAIN a.timers \ {id}
    BY <1>1, ClearDoes
  <2> HIDE DEF b, d
  <2>4. id \in PetId
    BY <1>1, <1>3, AppFields DEF Stored
  <2>5. timers \in IdMap(Call)
    BY <2>3, <2>4, AppFields, PutType
  <2>6. /\ DOMAIN timers = DOMAIN d.timers \cup {id} /\ timers[id] = c
        /\ \A i \in DOMAIN d.timers \ {id} : timers[i] = d.timers[i]
    BY DEF Put
  <2>7. d.loop \in [Call -> LoopState]
    BY <2>3, AppFields
  <2>8. loop \in [Call -> LoopState] /\ \A e \in Call : e # c => loop[e] = d.loop[e]
    BY <2>7 DEF LoopState
  <2> HIDE DEF timers, loop
  <2>9. /\ b \in App /\ Same(d, b) /\ b.timers = timers /\ b.loop = loop
    BY <2>1, <2>3, <2>5, <2>8 DEF App, Same
  <2>10. Named(b, petOf) /\ Registered(b, petOf) /\ Counted(b)
    BY <2>2, <2>9 DEF Same, Good, Named, Registered, Counted
  <2>11. Cancellable(b, petOf)
    <3>1. SUFFICES ASSUME NEW e \in Call, loop[e] = "timer"
                   PROVE  petOf[e] \in DOMAIN timers /\ timers[petOf[e]] = e
      BY <2>9 DEF Cancellable
    <3>2. CASE e = c
      BY <2>6, <3>2
    <3>3. CASE e # c
      <4>1. petOf[e] \in DOMAIN d.timers /\ d.timers[petOf[e]] = e
        BY <2>2, <2>8, <3>1, <3>3 DEF Good, Cancellable
      <4> QED
        BY <2>3, <2>6, <4>1
    <3> QED
      BY <3>2, <3>3
  <2>12. Same(a, b)
    BY <2>3, <2>9 DEF Same
  <2> QED
    BY <1>1, <2>9, <2>10, <2>11, <2>12 DEF Good, b
<1> QED
  BY <1>2, <1>3

\* A pet's entry is updated: what is counted is still below the limit, or it is stopped.
LEMMA UpdateGood ==
  ASSUME NEW a, Good(a, petOf), NEW id \in DOMAIN a.pets, NEW entry \in PetEntry,
         entry.stopped \/ entry.failures < FailureLimit
  PROVE  LET b == [a EXCEPT !.pets = [@ EXCEPT ![id] = entry]]
         IN  /\ Good(b, petOf) /\ b.windows = a.windows /\ b.open = a.open
             /\ b.removing = a.removing /\ DOMAIN b.pets = DOMAIN a.pets
             /\ b.loop = a.loop /\ b.seen = a.seen
<1> DEFINE pets == [a.pets EXCEPT ![id] = entry]
           b == [a EXCEPT !.pets = pets]
<1>1. /\ a \in App /\ DOMAIN a.pets \subseteq PetId /\ a.pets \in [DOMAIN a.pets -> PetEntry]
  BY AppFields, IdMapFunctions DEF Good
<1>2. /\ DOMAIN pets = DOMAIN a.pets /\ pets[id] = entry
      /\ \A i \in DOMAIN a.pets : i # id => pets[i] = a.pets[i]
      /\ pets \in [DOMAIN pets -> PetEntry]
  BY <1>1
<1>3. pets \in IdMap(PetEntry)
  BY <1>1, <1>2, IdMapFunctions
<1> HIDE DEF pets
<1>4. /\ b \in App /\ b.pets = pets /\ b.windows = a.windows /\ b.open = a.open
      /\ b.timers = a.timers /\ b.loop = a.loop /\ b.seen = a.seen /\ b.removing = a.removing
  BY <1>1, <1>3 DEF App
<1> HIDE DEF b
<1>5. Good(b, petOf)
  BY <1>2, <1>4 DEF Good, Named, Registered, Cancellable, Counted
<1> QED
  BY <1>2, <1>4, <1>5 DEF b, pets

\* The entry of a pet whose page has loaded.
LEMMA EntryLoads ==
  ASSUME NEW e \in PetEntry
  PROVE  LET d == [e EXCEPT !.loaded = TRUE]
         IN  d \in PetEntry /\ d.failures = e.failures /\ d.stopped = e.stopped
BY DEF PetEntry

\* Pets, windows and removals are as they were; entries, timers and loops may differ.
Kept(a, b) ==
  /\ DOMAIN b.pets = DOMAIN a.pets /\ b.windows = a.windows /\ b.open = a.open
  /\ a.removing \subseteq b.removing

\* The loop of a window that is shown starts, unless the pet has a timer.
LEMMA StartGood ==
  ASSUME Good(app, petOf), NEW c \in Call
  PROVE  Good(StartPetLoop(app, c), petOf) /\ Kept(app, StartPetLoop(app, c))
<1>1. CASE ~Stored(app, petOf[c]) \/ petOf[c] \in DOMAIN app.timers
  BY <1>1 DEF StartPetLoop, Kept
<1>2. CASE ~(~Stored(app, petOf[c]) \/ petOf[c] \in DOMAIN app.timers)
  <2>1. StartPetLoop(app, c) = Schedule(app, c)
    BY <1>2 DEF StartPetLoop
  <2> QED
    BY <2>1, ScheduleGood DEF Same, Kept
<1> QED
  BY <1>1, <1>2

\* A timer fires: its loop steps its pet, or ends.
LEMMA FireGood ==
  ASSUME Good(app, petOf), NEW c \in Call, LoopFires(c)
  PROVE  Good(app', petOf) /\ Kept(app, app')
<1> DEFINE id == petOf[c]
<1>1. app \in App /\ app.loop \in [Call -> LoopState] /\ app.seen \in [Call -> 0..FailureLimit]
  BY AppFields DEF Good
<1>2. CASE ~Stored(app, id) \/ ~HasWindow(app, id) \/ app.pets[id].stopped \/ ~app.pets[id].loaded
  <2> DEFINE loop == [app.loop EXCEPT ![c] = "ended"]
  <2>1. app' = [app EXCEPT !.loop = loop]
    BY <1>2 DEF LoopFires
  <2>2. loop \in [Call -> LoopState] /\ \A e \in Call : loop[e] \in {app.loop[e], "ended"}
    BY <1>1 DEF LoopState
  <2> HIDE DEF loop
  <2>3. app' \in App /\ Same(app, app') /\ app'.timers = app.timers /\ app'.loop = loop
    BY <1>1, <2>1, <2>2 DEF App, Same
  <2>4. Named(app', petOf) /\ Registered(app', petOf) /\ Counted(app')
    BY <2>3 DEF Same, Good, Named, Registered, Counted
  <2>5. Cancellable(app', petOf)
    BY <2>2, <2>3 DEF Good, Cancellable
  <2> QED
    BY <2>3, <2>4, <2>5 DEF Good, Same, Kept
<1>3. CASE ~(~Stored(app, id) \/ ~HasWindow(app, id) \/ app.pets[id].stopped \/ ~app.pets[id].loaded)
  <2> DEFINE loop == [app.loop EXCEPT ![c] = "step"]
             timers == Drop(app.timers, id)
             seen == [app.seen EXCEPT ![c] = app.pets[id].failures]
  <2>1. app' = [app EXCEPT !.loop = loop, !.timers = timers, !.seen = seen]
    BY <1>3 DEF LoopFires
  <2>2. loop \in [Call -> LoopState] /\ \A e \in Call : loop[e] = IF e = c THEN "step" ELSE app.loop[e]
    BY <1>1 DEF LoopState
  <2>3. timers \in IdMap(Call)
    BY <1>1, AppFields, DropType
  <2>4. DOMAIN timers = DOMAIN app.timers \ {id} /\ \A i \in DOMAIN timers : timers[i] = app.timers[i]
    BY DropDoes
  <2>5. app.pets[id].failures \in 0..FailureLimit /\ app.pets[id].failures < FailureLimit
    BY <1>1, <1>3, AppFields DEF Good, Counted, Stored, PetEntry
  <2>6. seen \in [Call -> 0..FailureLimit] /\ \A e \in Call : seen[e] < FailureLimit
    BY <1>1, <2>5 DEF Good, Counted
  <2> HIDE DEF loop, timers, seen
  <2>7. /\ app' \in App /\ app'.pets = app.pets /\ app'.windows = app.windows
        /\ app'.open = app.open /\ app'.removing = app.removing
        /\ app'.timers = timers /\ app'.loop = loop /\ app'.seen = seen
    BY <1>1, <2>1, <2>2, <2>3, <2>6 DEF App
  <2>8. Named(app', petOf) /\ Registered(app', petOf) /\ Counted(app')
    BY <2>6, <2>7 DEF Good, Named, Registered, Counted
  <2>9. Cancellable(app', petOf)
    <3>1. SUFFICES ASSUME NEW e \in Call, loop[e] = "timer"
                   PROVE  petOf[e] \in DOMAIN timers /\ timers[petOf[e]] = e
      BY <2>7 DEF Cancellable
    <3>2. e # c /\ app.loop[e] = "timer" /\ app.loop[c] = "timer"
      BY <2>2, <3>1 DEF LoopFires
    <3>3. /\ petOf[e] \in DOMAIN app.timers /\ app.timers[petOf[e]] = e
          /\ app.timers[id] = c
      BY <3>2 DEF Good, Cancellable
    <3> QED
      BY <2>4, <3>2, <3>3
  <2> QED
    BY <2>7, <2>8, <2>9 DEF Good, Kept
<1> QED
  BY <1>2, <1>3

\* A step is answered: the failures of the pet may be forgotten.
LEMMA AnswerGood ==
  ASSUME Good(app, petOf), BoundsDefined, NEW c \in Call, StepAnswer(c)
  PROVE  Good(app', petOf) /\ Kept(app, app')
<1> DEFINE id == petOf[c]
           entry == [app.pets[id] EXCEPT !.failures = 0]
           b == [app EXCEPT !.pets = [@ EXCEPT ![id] = entry]]
<1>1. app \in App
  BY DEF Good
<1>2. CASE app' = Schedule(app, c)
  BY <1>2, ScheduleGood DEF Same, Kept
<1>3. CASE Stored(app, id) /\ app' = Schedule([app EXCEPT !.pets[id].failures = 0], c)
  <2>1. id \in DOMAIN app.pets /\ app.pets[id] \in PetEntry
    BY <1>1, <1>3, AppFields DEF Stored
  <2>2. entry \in PetEntry /\ entry.failures < FailureLimit
    BY <2>1 DEF PetEntry, BoundsDefined
  <2>3. [app EXCEPT !.pets[id].failures = 0] = b
    OBVIOUS
  <2> HIDE DEF entry
  <2>4. Good(b, petOf) /\ Kept(app, b)
    BY <2>1, <2>2, UpdateGood DEF Kept
  <2> HIDE DEF b
  <2>5. Good(app', petOf) /\ Same(b, app')
    BY <1>3, <2>3, <2>4, ScheduleGood
  <2> QED
    BY <2>4, <2>5 DEF Same, Kept
<1> QED
  BY <1>2, <1>3 DEF StepAnswer

\* A step fails: the failure is counted, and the last one stops the pet.
LEMMA FailGood ==
  ASSUME Good(app, petOf), BoundsDefined, NEW c \in Call, StepFails(c)
  PROVE  Good(app', petOf) /\ Kept(app, app')
<1> DEFINE id == petOf[c]
           failed == app.seen[c] + 1
           entry == [app.pets[id] EXCEPT !.failures = failed,
                                         !.stopped = @ \/ failed >= FailureLimit]
           b == [app EXCEPT !.pets = [@ EXCEPT ![id] = entry]]
           counted == IF ~Stored(app, id) THEN app
                      ELSE [app EXCEPT !.pets[id].failures = failed,
                                       !.pets[id].stopped = @ \/ failed >= FailureLimit]
<1>1. app \in App /\ app.seen \in [Call -> 0..FailureLimit] /\ app.seen[c] < FailureLimit
  BY AppFields DEF Good, Counted
<1>2. failed \in 0..FailureLimit
  BY <1>1 DEF BoundsDefined
<1>3. Good(counted, petOf) /\ Kept(app, counted)
  <2>1. CASE ~Stored(app, id)
    BY <2>1 DEF Kept
  <2>2. CASE Stored(app, id)
    <3>1. id \in DOMAIN app.pets /\ app.pets[id] \in PetEntry
      BY <1>1, <2>2, AppFields DEF Stored
    <3> DEFINE halted == app.pets[id].stopped \/ failed >= FailureLimit
    <3> HIDE DEF failed
    <3>2. entry = [app.pets[id] EXCEPT !.failures = failed, !.stopped = halted]
      OBVIOUS
    <3>3. entry \in PetEntry /\ (entry.stopped \/ entry.failures < FailureLimit)
      <4>1. halted \in BOOLEAN
        OBVIOUS
      <4> HIDE DEF halted, entry, b, counted, id
      <4>2. entry \in PetEntry /\ entry.failures = failed /\ entry.stopped = halted
        <5>1. PICK e \in PetEntry : e = app.pets[id]
          BY <3>1
        <5>2. PICK s \in BOOLEAN : s = halted
          BY <4>1
        <5>3. entry = [e EXCEPT !.failures = failed, !.stopped = s]
          BY <3>2, <5>1, <5>2
        <5>4. entry \in PetEntry /\ entry.failures = failed /\ entry.stopped = s
          BY <1>2, <5>3 DEF PetEntry
        <5> QED
          BY <5>2, <5>4
      <4>3. halted \/ failed < FailureLimit
        BY <1>2 DEF halted, BoundsDefined
      <4> QED
        BY <4>2, <4>3
    <3>4. [app EXCEPT !.pets[id].failures = failed,
                      !.pets[id].stopped = @ \/ failed >= FailureLimit] = b
      BY <1>1, <3>1, AppFields DEF App, PetEntry
    <3> HIDE DEF entry
    <3>5. Good(b, petOf) /\ Kept(app, b)
      BY <3>1, <3>3, UpdateGood DEF Kept
    <3> QED
      BY <2>2, <3>4, <3>5
  <2> QED
    BY <2>1, <2>2
<1>4. app' = IF failed >= FailureLimit THEN [counted EXCEPT !.loop[c] = "ended"]
             ELSE Schedule(counted, c)
  BY DEF StepFails
<1> HIDE DEF counted, failed
<1>5. CASE failed >= FailureLimit
  <2> DEFINE loop == [counted.loop EXCEPT ![c] = "ended"]
  <2>1. app' = [counted EXCEPT !.loop = loop]
    BY <1>4, <1>5
  <2>2. counted \in App /\ counted.loop \in [Call -> LoopState]
    BY <1>3, AppFields DEF Good
  <2>3. loop \in [Call -> LoopState] /\ \A e \in Call : loop[e] \in {counted.loop[e], "ended"}
    BY <2>2 DEF LoopState
  <2> HIDE DEF loop
  <2>4. app' \in App /\ Same(counted, app') /\ app'.timers = counted.timers /\ app'.loop = loop
    BY <2>1, <2>2, <2>3 DEF App, Same
  <2>5. Named(app', petOf) /\ Registered(app', petOf) /\ Counted(app')
    BY <1>3, <2>4 DEF Same, Good, Named, Registered, Counted
  <2>6. Cancellable(app', petOf)
    BY <1>3, <2>3, <2>4 DEF Good, Cancellable
  <2>7. Kept(app, app')
    BY <1>3, <2>4 DEF Same, Kept
  <2> QED
    BY <1>3, <2>4, <2>5, <2>6, <2>7 DEF Good
<1>6. CASE ~(failed >= FailureLimit)
  <2>1. app' = Schedule(counted, c)
    BY <1>4, <1>6
  <2>2. Good(app', petOf) /\ Same(counted, app')
    BY <1>3, <2>1, ScheduleGood
  <2> QED
    BY <1>3, <2>2 DEF Same, Kept
<1> QED
  BY <1>5, <1>6

\* A page has loaded.
LEMMA LoadGood ==
  ASSUME Good(app, petOf), NEW c \in Call, DidFinishLoad(c)
  PROVE  Good(app', petOf) /\ Kept(app, app')
<1> DEFINE id == petOf[c]
           entry == [app.pets[id] EXCEPT !.loaded = TRUE]
           b == [app EXCEPT !.pets = [@ EXCEPT ![id] = entry]]
<1>1. CASE ~Stored(app, id)
  BY <1>1 DEF DidFinishLoad, Kept
<1>2. CASE Stored(app, id)
  <2>1. id \in DOMAIN app.pets /\ app.pets[id] \in PetEntry
    BY <1>2, AppFields DEF Good, Stored
  <2>2. app.pets[id].stopped \/ app.pets[id].failures < FailureLimit
    BY <2>1 DEF Good, Counted
  <2>3. /\ entry \in PetEntry /\ entry.failures = app.pets[id].failures
        /\ entry.stopped = app.pets[id].stopped
    BY <2>1, EntryLoads
  <2>4. entry.stopped \/ entry.failures < FailureLimit
    BY <2>2, <2>3
  <2>5. app' = b
    BY <1>2 DEF DidFinishLoad
  <2> HIDE DEF entry
  <2> QED
    BY <2>1, <2>3, <2>4, <2>5, UpdateGood DEF Kept
<1> QED
  BY <1>1, <1>2

-----------------------------------------------------------------------------
\* Removals

\* A window that stays open shows a pet that is stored if it did before.
Showing(a, b) ==
  \A c \in b.open : c \in a.open /\ (Stored(a, petOf[c]) => Stored(b, petOf[c]))

\* Where only entries, timers and loops change, windows show and pets are owned as before.
LEMMA KeptShows ==
  ASSUME NEW a, NEW b, Kept(a, b)
  PROVE  Showing(a, b) /\ Owning(a, b)
BY DEF Kept, Showing, Owning, Stored

\* Where a pet is gone no window shows it.
LEMMA LeftShows ==
  ASSUME NEW a, NEW b, NEW id, Left(a, b, id)
  PROVE  Showing(a, b)
BY DEF Left, Part, Showing, Stored

\* A removal is put down before anything else.
LEMMA FenceGood ==
  ASSUME NEW a, Good(a, petOf), NEW b, NEW removing \in SUBSET PetId,
         b = [a EXCEPT !.removing = removing]
  PROVE  /\ Good(b, petOf) /\ b.pets = a.pets /\ b.windows = a.windows
         /\ b.open = a.open /\ b.removing = removing
<1>1. a \in App
  BY DEF Good
<1>2. /\ b \in App /\ b.pets = a.pets /\ b.windows = a.windows /\ b.open = a.open
      /\ b.timers = a.timers /\ b.loop = a.loop /\ b.seen = a.seen /\ b.removing = removing
  BY <1>1 DEF App
<1> QED
  BY <1>2 DEF Good, Named, Registered, Cancellable, Counted

\* The user's removal of a pet clears its timer and is put down.
LEMMA RemoveGood ==
  ASSUME Good(app, petOf), NEW id \in PetId, RemovePet(id)
  PROVE  Good(app', petOf) /\ Kept(app, app')
<1> DEFINE cleared == ClearPetTimer(app, id)
           removing == cleared.removing \cup {id}
<1>1. app' = [cleared EXCEPT !.removing = removing]
  BY DEF RemovePet
<1>2. Good(cleared, petOf) /\ Same(app, cleared)
  BY ClearGood, ClearDoes DEF Good
<1> HIDE DEF cleared
<1>3. removing \in SUBSET PetId
  BY <1>2, AppFields DEF Good
<1> HIDE DEF removing
<1>4. /\ Good(app', petOf) /\ app'.pets = cleared.pets /\ app'.windows = cleared.windows
      /\ app'.open = cleared.open /\ app'.removing = removing
  BY <1>1, <1>2, <1>3, FenceGood
<1> QED
  BY <1>2, <1>4 DEF Same, Kept, removing

\* Rolling back leaves nothing of the pet, whose removal from the backend is under way.
LEMMA RolledBackGood ==
  ASSUME NEW a, Good(a, petOf), NEW id \in PetId, quitting \in BOOLEAN,
         NEW b, b = RolledBack(a, id, quitting)
  PROVE  Good(b, petOf) /\ Left(a, b, id) /\ id \in b.removing
<1> DEFINE removing == a.removing \cup {id}
           noted == [a EXCEPT !.removing = removing]
           fenced == ClearPetTimer(noted, id)
<1>1. b = RemovePetWindow(RemoveFromStore(fenced, id, quitting), id, quitting)
  BY DEF RolledBack
<1>2. removing \in SUBSET PetId
  BY AppFields DEF Good
<1>3. /\ Good(noted, petOf) /\ noted.pets = a.pets /\ noted.windows = a.windows
      /\ noted.open = a.open /\ noted.removing = removing
  <2> DEFINE n == noted
  <2>1. n = [a EXCEPT !.removing = removing]
    OBVIOUS
  <2> HIDE DEF n, removing
  <2>2. /\ Good(n, petOf) /\ n.pets = a.pets /\ n.windows = a.windows
        /\ n.open = a.open /\ n.removing = removing
    BY <1>2, <2>1, FenceGood
  <2> QED
    BY <2>2 DEF n
<1> HIDE DEF noted
<1>4. Good(fenced, petOf) /\ Same(noted, fenced)
  BY <1>3, ClearGood, ClearDoes DEF Good
<1> HIDE DEF fenced
<1>5. Good(b, petOf) /\ Left(fenced, b, id)
  BY <1>1, <1>4, RemovalLeaves
<1> QED
  BY <1>3, <1>4, <1>5 DEF Left, Part, Same

\* So it is for the call whose page was loading.
LEMMA RollbackGood ==
  ASSUME Good(app, petOf), NEW c \in Call, petOf[c] \in PetId, quitting \in BOOLEAN, Rollback(c)
  PROVE  Good(app', petOf) /\ Left(app, app', petOf[c]) /\ petOf[c] \in app'.removing
BY RolledBackGood DEF Rollback

\* A removal that has settled: the pet that the user removed is gone.
LEMMA SettleGood ==
  ASSUME Good(app, petOf), NEW id \in PetId, quitting \in BOOLEAN, RemovalSettles(id)
  PROVE  /\ Good(app', petOf) /\ Showing(app, app')
         /\ (DOMAIN app.pets \cup app.removing) \ {id} \subseteq DOMAIN app'.pets \cup app'.removing
<1> DEFINE removing == app.removing \ {id}
           done == [app EXCEPT !.removing = removing]
<1>1. removing \in SUBSET PetId
  BY AppFields DEF Good
<1>2. /\ Good(done, petOf) /\ done.pets = app.pets /\ done.windows = app.windows
      /\ done.open = app.open /\ done.removing = removing
  <2> DEFINE b == done
  <2>1. b = [app EXCEPT !.removing = removing]
    OBVIOUS
  <2> HIDE DEF b, removing
  <2>2. /\ Good(b, petOf) /\ b.pets = app.pets /\ b.windows = app.windows
        /\ b.open = app.open /\ b.removing = removing
    BY <1>1, <2>1, FenceGood
  <2> QED
    BY <2>2 DEF b
<1>3. app' = IF id \notin userRemovals THEN done
             ELSE RemovePetWindow(RemoveFromStore(done, id, quitting), id, quitting)
  BY DEF RemovalSettles
<1> HIDE DEF done
<1>4. CASE id \notin userRemovals
  <2>1. app' = done
    BY <1>3, <1>4
  <2> QED
    BY <1>2, <2>1 DEF Showing, Stored
<1>5. CASE id \in userRemovals
  <2>1. app' = RemovePetWindow(RemoveFromStore(done, id, quitting), id, quitting)
    BY <1>3, <1>5
  <2>2. Good(app', petOf) /\ Left(done, app', id)
    BY <1>2, <2>1, RemovalLeaves
  <2>3. Showing(done, app')
    BY <2>2, LeftShows
  <2> QED
    BY <1>2, <2>2, <2>3 DEF Showing, Stored, Left, Part
<1> QED
  BY <1>4, <1>5

\* The user closes a window.
LEMMA CloseGood ==
  ASSUME Good(app, petOf), NEW c \in Call, quitting \in BOOLEAN, CloseWindow(c)
  PROVE  Good(app', petOf) /\ Left(app, app', petOf[c]) /\ (~quitting => Owning(app, app'))
<1>1. petOf[c] \in DOMAIN app.windows /\ app.windows[petOf[c]] = c
  BY DEF CloseWindow, Good, Registered
<1>2. app' = Destroy(app, app.windows[petOf[c]], quitting)
  BY <1>1 DEF CloseWindow
<1> QED
  BY <1>1, <1>2, DestroyLeaves

-----------------------------------------------------------------------------
\* Creations and the end

\* A call without a pet has no window and no timer, and may be given any id.
LEMMA NameGood ==
  ASSUME NEW a, Good(a, petOf), NEW c \in Call, petOf[c] = 0, NEW id \in PetId
  PROVE  /\ Good(a, [petOf EXCEPT ![c] = id])
         /\ c \notin a.open /\ (\A i \in DOMAIN a.windows : a.windows[i] # c)
<1> DEFINE p == [petOf EXCEPT ![c] = id]
<1>1. a \in App /\ petOf \in [Call -> PetId \cup {0}] /\ 0 \notin PetId
  BY DEF Good, PetId
<1>2. \A i \in DOMAIN a.windows : a.windows[i] \in Call /\ a.windows[i] # c
  BY <1>1, AppFields DEF Good, Named
<1>3. c \notin a.open
  BY <1>1, AppFields DEF Good, Registered
<1>4. a.loop[c] # "timer"
  BY <1>1, AppFields DEF Good, Cancellable
<1>5. p \in [Call -> PetId \cup {0}] /\ \A e \in Call : e # c => p[e] = petOf[e]
  BY <1>1
<1> HIDE DEF p
<1>6. Named(a, p)
  BY <1>2, <1>5 DEF Good, Named
<1>7. Registered(a, p)
  BY <1>1, <1>3, <1>5, AppFields DEF Good, Registered
<1>8. Cancellable(a, p)
  BY <1>4, <1>5 DEF Good, Cancellable
<1>9. Good(a, p)
  BY <1>1, <1>5, <1>6, <1>7, <1>8 DEF Good
<1> QED
  BY <1>2, <1>3, <1>9 DEF p

\* A pet is put in the store.
LEMMA StoreGood ==
  ASSUME Good(app, petOf), BoundsDefined, NEW id \in PetId,
         NEW b, b = PutInStore(app, id)
  PROVE  /\ Good(b, petOf) /\ DOMAIN b.pets = DOMAIN app.pets \cup {id}
         /\ b.windows = app.windows /\ b.open = app.open /\ b.removing = app.removing
<1> DEFINE new == [loaded |-> FALSE, stopped |-> FALSE, failures |-> 0]
           pets == Put(app.pets, id, new)
<1>1. b = [app EXCEPT !.pets = pets] /\ app \in App
  BY DEF PutInStore, Good
<1>2. new \in PetEntry /\ new.failures < FailureLimit
  BY DEF PetEntry, BoundsDefined
<1>3. pets \in IdMap(PetEntry)
  <2> HIDE DEF new
  <2> QED
    BY <1>1, <1>2, AppFields, PutType
<1>4. /\ DOMAIN pets = DOMAIN app.pets \cup {id} /\ pets[id] = new
      /\ \A i \in DOMAIN app.pets \ {id} : pets[i] = app.pets[i]
  BY DEF Put
<1> HIDE DEF new, pets
<1>5. /\ b \in App /\ b.pets = pets /\ b.windows = app.windows
      /\ b.open = app.open /\ b.timers = app.timers /\ b.loop = app.loop
      /\ b.seen = app.seen /\ b.removing = app.removing
  BY <1>1, <1>3 DEF App
<1>6. Counted(b)
  BY <1>2, <1>4, <1>5 DEF Good, Counted
<1> QED
  BY <1>4, <1>5, <1>6 DEF Good, Named, Registered, Cancellable

\* The window an id had is gone.
LEMMA ExistingGood ==
  ASSUME NEW a, Good(a, petOf), NEW id, quitting \in BOOLEAN,
         NEW b, b = DestroyExisting(a, id, quitting)
  PROVE  /\ Good(b, petOf) /\ Left(a, b, id) /\ (~quitting => Owning(a, b))
         /\ id \notin DOMAIN a.windows => b = a
<1>1. CASE id \in DOMAIN a.windows
  <2>1. b = Destroy(a, a.windows[id], quitting)
    BY <1>1 DEF DestroyExisting
  <2> QED
    BY <1>1, <2>1, DestroyLeaves
<1>2. CASE id \notin DOMAIN a.windows
  <2>1. b = a
    BY <1>2 DEF DestroyExisting
  <2>2. \A c \in a.open : petOf[c] # id
    BY <1>2 DEF Good, Registered
  <2> QED
    BY <2>1, <2>2 DEF Left, Part, Owning
<1> QED
  BY <1>1, <1>2

\* The window of a new pet is registered, and one that its id had is gone.
LEMMA AddGood ==
  ASSUME Good(app, petOf), BoundsDefined, quitting \in BOOLEAN, NEW c \in Call, petOf[c] = 0,
         NEW id \in PetId, id = idCounter + 1, AddAnswer(c)
  PROVE  /\ Good(app', petOf')
         /\ ~quitting =>
              DOMAIN app.pets \cup {id} \cup app.removing \subseteq DOMAIN app'.pets \cup app'.removing
         /\ id \notin DOMAIN app.windows =>
              /\ DOMAIN app'.pets = DOMAIN app.pets \cup {id}
              /\ app'.open = app.open \cup {c}
<1> DEFINE stored == PutInStore(app, id)
           d == DestroyExisting(stored, id, quitting)
           p == [petOf EXCEPT ![c] = id]
<1>1. app \in App /\ petOf \in [Call -> PetId \cup {0}]
  BY DEF Good
<1>2. petOf' = p /\ app' = CreatePetWindow(stored, c, id, quitting)
  BY DEF AddAnswer
<1>3. app' = [d EXCEPT !.windows = Put(@, id, c), !.open = @ \cup {c}]
  BY <1>2 DEF CreatePetWindow
<1> HIDE DEF stored
<1>4. /\ Good(stored, petOf) /\ DOMAIN stored.pets = DOMAIN app.pets \cup {id}
      /\ stored.windows = app.windows /\ stored.open = app.open
      /\ stored.removing = app.removing
  BY StoreGood DEF stored
<1> HIDE DEF d
<1>5. /\ Good(d, petOf) /\ Left(stored, d, id) /\ (~quitting => Owning(stored, d))
      /\ id \notin DOMAIN stored.windows => d = stored
  BY <1>4, ExistingGood DEF d
<1>6. \A e \in d.open : e \in app.open /\ petOf[e] # id
  BY <1>4, <1>5 DEF Left
<1>7. Good(d, p) /\ c \notin d.open /\ (\A i \in DOMAIN d.windows : d.windows[i] # c)
  BY <1>5, NameGood
<1>8. p[c] = id /\ \A e \in Call : e # c => p[e] = petOf[e]
  BY <1>1
<1> HIDE DEF p
<1> DEFINE windows == Put(d.windows, id, c)
           open == d.open \cup {c}
<1>9. app' = [d EXCEPT !.windows = windows, !.open = open]
  BY <1>3
<1>10. d \in App /\ windows \in IdMap(Call) /\ open \subseteq Call
  BY <1>5, AppFields, PutType DEF Good
<1>11. /\ DOMAIN windows = DOMAIN d.windows \cup {id} /\ windows[id] = c
       /\ \A i \in DOMAIN d.windows \ {id} : windows[i] = d.windows[i]
  BY DEF Put
<1> HIDE DEF windows, open
<1>12. /\ app' \in App /\ app'.windows = windows /\ app'.open = open /\ app'.pets = d.pets
       /\ app'.timers = d.timers /\ app'.loop = d.loop /\ app'.seen = d.seen
       /\ app'.removing = d.removing
  BY <1>9, <1>10 DEF App
<1>13. Named(app', p)
  BY <1>7, <1>8, <1>11, <1>12 DEF Good, Named
<1>14. Registered(app', p)
  <2>1. \A e \in d.open : p[e] \in DOMAIN windows /\ windows[p[e]] = e
    <3>1. \A e \in d.open : p[e] # id
      BY <1>6, <1>7, <1>8, <1>10, AppFields
    <3> QED
      BY <1>7, <1>11, <3>1 DEF Good, Registered
  <2> QED
    BY <1>8, <1>11, <1>12, <2>1 DEF Registered, open
<1>15. Cancellable(app', p) /\ Counted(app') /\ p \in [Call -> PetId \cup {0}]
  BY <1>7, <1>12 DEF Good, Cancellable, Counted
<1>16. Good(app', petOf')
  BY <1>2, <1>12, <1>13, <1>14, <1>15 DEF Good
<1> QED
  BY <1>4, <1>5, <1>12, <1>16 DEF Owning, open

\* Where the window cannot be opened, the pet is handed over to its removal, with the
\* window that its id had.
LEMMA UnopenedGood ==
  ASSUME Good(app, petOf), BoundsDefined, quitting \in BOOLEAN, NEW c \in Call, petOf[c] = 0,
         NEW id \in PetId, id = idCounter + 1, WindowFails(c)
  PROVE  /\ Good(app', petOf') /\ Showing(app, app') /\ c \notin app'.open
         /\ DOMAIN app.pets \cup {id} \cup app.removing \subseteq DOMAIN app'.pets \cup app'.removing
<1> DEFINE stored == PutInStore(app, id)
           d == DestroyExisting(stored, id, quitting)
<1>1. petOf' = [petOf EXCEPT ![c] = id] /\ app' = RolledBack(d, id, quitting)
  BY DEF WindowFails
<1> HIDE DEF stored
<1>2. /\ Good(stored, petOf) /\ DOMAIN stored.pets = DOMAIN app.pets \cup {id}
      /\ stored.windows = app.windows /\ stored.open = app.open
      /\ stored.removing = app.removing
  BY StoreGood DEF stored
<1> HIDE DEF d
<1>3. Good(d, petOf) /\ Left(stored, d, id)
  BY <1>2, ExistingGood DEF d
<1>4. Good(app', petOf) /\ Left(d, app', id) /\ id \in app'.removing
  BY <1>1, <1>3, RolledBackGood
<1>5. Good(app', petOf') /\ c \notin app'.open
  BY <1>1, <1>4, NameGood
<1>6. Showing(app, app')
  BY <1>2, <1>3, <1>4 DEF Left, Part, Showing, Stored
<1>7. DOMAIN app.pets \cup {id} \cup app.removing \subseteq DOMAIN app'.pets \cup app'.removing
  BY <1>2, <1>3, <1>4 DEF Left, Part
<1> QED
  BY <1>5, <1>6, <1>7

\* Shutting down: what is left of the maps is left as it was, and a timer that is
\* forgotten is cleared.
LEMMA ShutdownGood ==
  ASSUME Good(app, petOf), Shutdown
  PROVE  /\ Good(app', petOf)
         /\ (\A c \in app.open : Stored(app, petOf[c])) => app'.open = {}
<1> DEFINE gone    == {c \in app.open : \E id \in DOMAIN app.pets :
                                           HasWindow(app, id) /\ app.windows[id] = c}
           cleared == {app.timers[id] : id \in DOMAIN app.timers \cap DOMAIN app.pets}
           windows == Restrict(app.windows, DOMAIN app.windows \ DOMAIN app.pets)
           open    == app.open \ gone
           timers  == Restrict(app.timers, DOMAIN app.timers \ DOMAIN app.pets)
           loop    == [c \in Call |-> IF c \in cleared /\ app.loop[c] = "timer"
                                      THEN "ended" ELSE app.loop[c]]
<1>1. app' = [app EXCEPT !.pets = << >>, !.windows = windows, !.open = open,
                         !.timers = timers, !.loop = loop]
  BY DEF Shutdown
<1>2. app \in App /\ app.loop \in [Call -> LoopState] /\ open \subseteq Call
  BY AppFields DEF Good
<1>3. DOMAIN << >> = {} /\ << >> \in IdMap(PetEntry)
  <2>1. DOMAIN << >> = {} /\ << >> \in [{} -> PetEntry]
    OBVIOUS
  <2> QED
    BY <2>1, IdMapFunctions
<1>4. windows \in IdMap(Call) /\ timers \in IdMap(Call)
  BY <1>2, AppFields, RestrictType
<1>5. /\ DOMAIN windows = DOMAIN app.windows \ DOMAIN app.pets
      /\ \A i \in DOMAIN windows : windows[i] = app.windows[i]
      /\ DOMAIN timers = DOMAIN app.timers \ DOMAIN app.pets
      /\ \A i \in DOMAIN timers : timers[i] = app.timers[i]
  BY RestrictDoes
<1>6. loop \in [Call -> LoopState]
  BY <1>2 DEF LoopState
<1>7. \A c \in Call : loop[c] = "timer" => app.loop[c] = "timer" /\ c \notin cleared
  OBVIOUS
<1>8. \A c \in open : petOf[c] \notin DOMAIN app.pets
  BY DEF Good, Registered, HasWindow
<1> HIDE DEF windows, timers, loop, open
<1>9. /\ app' \in App /\ app'.pets = << >> /\ app'.windows = windows /\ app'.open = open
      /\ app'.timers = timers /\ app'.loop = loop /\ app'.seen = app.seen
  BY <1>1, <1>2, <1>3, <1>4, <1>6 DEF App
<1>10. Named(app', petOf)
  BY <1>5, <1>9 DEF Good, Named
<1>11. Registered(app', petOf)
  BY <1>5, <1>8, <1>9 DEF Good, Registered, open
<1>12. Cancellable(app', petOf)
  <2>1. SUFFICES ASSUME NEW c \in Call, loop[c] = "timer"
                 PROVE  petOf[c] \in DOMAIN timers /\ timers[petOf[c]] = c
    BY <1>9 DEF Cancellable
  <2>2. app.loop[c] = "timer" /\ c \notin cleared
    BY <1>7, <2>1
  <2>3. petOf[c] \in DOMAIN app.timers /\ app.timers[petOf[c]] = c
    BY <2>2 DEF Good, Cancellable
  <2> QED
    BY <1>5, <2>2, <2>3
<1>13. Counted(app')
  BY <1>3, <1>9 DEF Good, Counted
<1>14. (\A c \in app.open : Stored(app, petOf[c])) => open = {}
  BY <1>8 DEF Stored, open
<1> QED
  BY <1>9, <1>10, <1>11, <1>12, <1>13, <1>14 DEF Good

-----------------------------------------------------------------------------
\* The invariant, whatever crashes

\* A call has no pet before the backend has answered, and one while its page loads.
Early(c) == pc[c] \in {"idle", "load", "add"}

Numbered ==
  \A c \in Call : /\ Early(c) => petOf[c] = 0
                  /\ pc[c] \in {"position", "navigate"} => petOf[c] \in PetId

\* The backend has given out no more ids than there are calls it has answered.
Begun == {c \in Call : ~Early(c)}
Few == idCounter <= Cardinality(Begun)

LostType == [create : SUBSET Call, step : SUBSET Call, remove : SUBSET PetId]
PageType == [hooked : SUBSET Call, loaded : SUBSET Call,
             showDue : SUBSET Call, shown : SUBSET Call]

\* What is around the record app.
Around ==
  /\ up \in BOOLEAN /\ quitting \in BOOLEAN
  /\ backend \subseteq 1..idCounter /\ idCounter \in 0..Cardinality(Call)
  /\ crashes \in 0..MaxCrashes
  /\ lost \in LostType /\ pc \in [Call -> Awaiting] /\ page \in PageType
  /\ userRemovals \subseteq PetId

LifeInv == Around /\ Good(app, petOf) /\ Numbered /\ Few

\* The parts of the invariant make the type invariant.
LEMMA LifeIsTyped == LifeInv => TypeOK
BY DEF LifeInv, Around, Good, TypeOK, App, LostType, PageType

\* Calls only move on, so the ids given out are still few.
LEMMA FewStay ==
  ASSUME BoundsDefined, Around, Few, \A d \in Call : Early(d)' => Early(d), idCounter' \in Nat,
         \/ idCounter' <= idCounter
         \/ idCounter' = idCounter + 1 /\ \E c \in Call : Early(c) /\ ~Early(c)'
  PROVE  Few' /\ idCounter' \in 0..Cardinality(Call)
<1>1. IsFiniteSet(Call) /\ idCounter \in Nat
  BY DEF BoundsDefined, Around
<1>2. Begun \subseteq Begun' /\ Begun' \subseteq Call
  BY DEF Begun
<1>3. /\ IsFiniteSet(Begun) /\ IsFiniteSet(Begun') /\ Cardinality(Begun) <= Cardinality(Begun')
      /\ Cardinality(Begun') <= Cardinality(Call)
  <2>1. IsFiniteSet(Begun') /\ Cardinality(Begun') <= Cardinality(Call)
    BY <1>1, <1>2, FS_Subset
  <2> QED
    BY <1>2, <2>1, FS_Subset
<1>4. /\ Cardinality(Begun) \in Nat /\ Cardinality(Begun') \in Nat
      /\ Cardinality(Call) \in Nat
  BY <1>1, <1>3, FS_CardinalityType
<1>5. CASE idCounter' <= idCounter
  BY <1>1, <1>3, <1>4, <1>5 DEF Few
<1>6. CASE idCounter' = idCounter + 1 /\ \E c \in Call : Early(c) /\ ~Early(c)'
  <2>1. PICK c \in Call : Early(c) /\ ~Early(c)'
    BY <1>6
  <2>2. c \notin Begun /\ Begun \cup {c} \subseteq Begun'
    BY <1>2, <2>1 DEF Begun
  <2>3. Cardinality(Begun \cup {c}) = Cardinality(Begun) + 1
    BY <1>3, <2>2, FS_AddElement
  <2>4. Cardinality(Begun \cup {c}) <= Cardinality(Begun')
    BY <1>3, <2>2, FS_Subset
  <2> QED
    BY <1>1, <1>3, <1>4, <1>6, <2>3, <2>4 DEF Few
<1> QED
  BY <1>5, <1>6

\* A step that gives no call a pet and only moves calls on.
LEMMA NumbersStay ==
  ASSUME Numbered, petOf' = petOf, \A d \in Call : Early(d)' => Early(d),
         \A d \in Call : pc'[d] \in {"position", "navigate"} => pc[d] \in {"position", "navigate"}
  PROVE  Numbered'
BY DEF Numbered

\* The initial states.
LEMMA LifeStarts == BoundsDefined /\ Init => LifeInv
<1> SUFFICES ASSUME BoundsDefined, Init PROVE LifeInv
  OBVIOUS
<1>1. Cardinality(Call) \in Nat /\ {} \in SUBSET Call
  BY FS_CardinalityType DEF BoundsDefined
<1>2. DOMAIN << >> = {} /\ \A V : << >> \in IdMap(V)
  <2>1. DOMAIN << >> = {} /\ \A V : << >> \in [{} -> V]
    OBVIOUS
  <2> QED
    BY <2>1, IdMapFunctions
<1>3. petOf \in [Call -> PetId \cup {0}] /\ \A c \in Call : petOf[c] = 0
  BY DEF Init, NoPet
<1>4. /\ app.pets = << >> /\ app.windows = << >> /\ app.open = {} /\ app.timers = << >>
      /\ app.loop = [c \in Call |-> "none"] /\ app.seen = NoPet
  BY DEF Init, EmptyApp
<1>5. app \in App
  <2>1. [c \in Call |-> "none"] \in [Call -> LoopState]
    BY DEF LoopState
  <2>2. NoPet \in [Call -> 0..FailureLimit]
    BY DEF NoPet, BoundsDefined
  <2> QED
    BY <1>2, <2>1, <2>2 DEF Init, EmptyApp, App
<1>6. Named(app, petOf) /\ Registered(app, petOf)
  BY <1>2, <1>4 DEF Named, Registered
<1>7. Cancellable(app, petOf)
  BY <1>4 DEF Cancellable
<1>8. Counted(app)
  BY <1>2, <1>4 DEF Counted, NoPet, BoundsDefined
<1>9. pc \in [Call -> Awaiting] /\ \A c \in Call : pc[c] = "idle"
  BY DEF Init, Awaiting
<1>10. Numbered
  BY <1>3, <1>9 DEF Numbered
<1>11. Few
  <2>1. Begun = {}
    BY <1>9 DEF Begun, Early
  <2> QED
    BY <2>1, FS_EmptySet DEF Init, Few
<1>12. Around
  <2>1. lost \in LostType /\ page \in PageType
    BY DEF Init, LostType, PageType
  <2>2. up \in BOOLEAN /\ quitting \in BOOLEAN
    BY DEF Init
  <2>3. /\ backend \subseteq 1..idCounter /\ idCounter \in 0..Cardinality(Call)
        /\ crashes \in 0..MaxCrashes /\ userRemovals \subseteq PetId
    BY <1>1 DEF Init, BoundsDefined
  <2> QED
    BY <1>9, <2>1, <2>2, <2>3 DEF Around
<1> QED
  BY <1>3, <1>5, <1>6, <1>7, <1>8, <1>10, <1>11, <1>12 DEF LifeInv, Good

\* Where only the window, the pet or the loop of a call changes, and the page with it.
LEMMA AppStep ==
  ASSUME LifeInv, UNCHANGED <<process, calls, userRemovals, quitting>>,
         Good(app', petOf), page' \in PageType
  PROVE  LifeInv'
<1>1. Around'
  BY DEF LifeInv, Around, process, calls
<1>2. Numbered' /\ Few'
  BY DEF LifeInv, Numbered, Few, Begun, Early, process, calls
<1> QED
  BY <1>1, <1>2 DEF LifeInv, calls

\* A call goes on, and so may its page.
LEMMA CallStep ==
  ASSUME LifeInv, NEW c \in Call, NEW to \in Awaiting, Become(c, to),
         to \in {"idle", "load", "add"} => Early(c),
         to \in {"position", "navigate"} => pc[c] \in {"position", "navigate"},
         UNCHANGED <<process, petOf, userRemovals, quitting>>,
         Good(app', petOf), page' \in PageType, BoundsDefined
  PROVE  LifeInv'
<1>1. pc' \in [Call -> Awaiting] /\ pc'[c] = to /\ \A d \in Call : d # c => pc'[d] = pc[d]
  BY DEF LifeInv, Around, Become
<1>2. Around'
  BY <1>1 DEF LifeInv, Around, process
<1>3. \A d \in Call : Early(d)' => Early(d)
  BY <1>1 DEF Early
<1>4. Numbered'
  <2>1. \A d \in Call :
          pc'[d] \in {"position", "navigate"} => pc[d] \in {"position", "navigate"}
    BY <1>1
  <2> QED
    BY <1>3, <2>1, NumbersStay DEF LifeInv
<1>5. Few'
  <2>1. idCounter' \in Nat /\ idCounter' <= idCounter
    BY DEF LifeInv, Around, process
  <2> QED
    BY <1>3, <2>1, FewStay DEF LifeInv
<1> QED
  BY <1>2, <1>4, <1>5 DEF LifeInv

\* A rollback, of a call whose page was loading.
LEMMA RollbackStep ==
  ASSUME LifeInv, BoundsDefined, NEW c \in Call, pc[c] \in {"position", "navigate"}, Rollback(c),
         UNCHANGED <<process, petOf, page, userRemovals, quitting>>
  PROVE  LifeInv'
<1>1. petOf[c] \in PetId /\ quitting \in BOOLEAN /\ page' \in PageType
  BY DEF LifeInv, Numbered, Around
<1>2. Good(app', petOf)
  BY <1>1, RollbackGood DEF LifeInv
<1>3. Become(c, "rollback") /\ "rollback" \in Awaiting
  BY DEF Rollback, Awaiting
<1> QED
  BY <1>1, <1>2, <1>3, CallStep

\* The type of the requests whose connection is broken.
LEMMA LostStays ==
  ASSUME lost \in LostType, NEW c
  PROVE  /\ [lost EXCEPT !.create = @ \ {c}] \in LostType
         /\ [lost EXCEPT !.step = @ \ {c}] \in LostType
         /\ [lost EXCEPT !.remove = @ \ {c}] \in LostType
BY DEF LostType

\* The backend answers load_pet, or it fails.
LEMMA LoadStep ==
  ASSUME LifeInv, BoundsDefined, NEW c \in Call, LoadAnswer(c)
  PROVE  LifeInv'
<1>1. PICK to \in {"add", "failed"} : Become(c, to)
  BY DEF LoadAnswer
<1>2. pc' \in [Call -> Awaiting] /\ pc'[c] = to /\ \A d \in Call : d # c => pc'[d] = pc[d]
  BY <1>1 DEF LifeInv, Around, Become, Awaiting
<1>3. lost' \in LostType
  BY LostStays DEF LoadAnswer, LifeInv, Around
<1>4. Around'
  BY <1>2, <1>3 DEF LoadAnswer, LifeInv, Around
<1>5. \A d \in Call : Early(d)' => Early(d)
  BY <1>2 DEF Early, LoadAnswer
<1>6. Numbered'
  <2>1. \A d \in Call :
          pc'[d] \in {"position", "navigate"} => pc[d] \in {"position", "navigate"}
    BY <1>2
  <2> QED
    BY <1>5, <2>1, NumbersStay DEF LifeInv, LoadAnswer
<1>7. Few'
  <2>1. idCounter' \in Nat /\ idCounter' <= idCounter
    BY DEF LoadAnswer, LifeInv, Around
  <2> QED
    BY <1>5, <2>1, FewStay DEF LifeInv
<1> QED
  BY <1>4, <1>6, <1>7 DEF LifeInv, LoadAnswer

\* add_pet fails, and the backend may have carried it out.
LEMMA AddFailsStep ==
  ASSUME LifeInv, BoundsDefined, NEW c \in Call, AddFails(c)
  PROVE  LifeInv'
<1>1. /\ pc' \in [Call -> Awaiting] /\ pc'[c] = "failed"
      /\ \A d \in Call : d # c => pc'[d] = pc[d]
  BY DEF LifeInv, Around, AddFails, Become, Awaiting
<1>2. lost' \in LostType
  BY LostStays DEF AddFails, LifeInv, Around
<1>3. \A d \in Call : Early(d)' => Early(d)
  BY <1>1 DEF Early
<1>4. Numbered'
  <2>1. \A d \in Call :
          pc'[d] \in {"position", "navigate"} => pc[d] \in {"position", "navigate"}
    BY <1>1
  <2> QED
    BY <1>3, <2>1, NumbersStay DEF LifeInv, AddFails
<1>5. \/ idCounter' = idCounter /\ backend' = backend
      \/ idCounter' = idCounter + 1 /\ backend' = backend \cup {idCounter'}
  BY DEF AddFails, BackendAdds
<1>6. Early(c) /\ ~Early(c)'
  BY <1>1 DEF AddFails, Early
<1>7. idCounter \in Nat /\ idCounter' \in Nat
  BY <1>5 DEF LifeInv, Around
<1>8. Few' /\ idCounter' \in 0..Cardinality(Call)
  BY <1>3, <1>5, <1>6, <1>7, FewStay DEF LifeInv
<1>9. backend' \subseteq 1..idCounter'
  <2>1. backend \subseteq 1..idCounter
    BY DEF LifeInv, Around
  <2>2. CASE idCounter' = idCounter /\ backend' = backend
    BY <2>1, <2>2
  <2>3. CASE idCounter' = idCounter + 1 /\ backend' = backend \cup {idCounter'}
    BY <1>7, <2>1, <2>3
  <2> QED
    BY <1>5, <2>2, <2>3
<1>10. Around'
  BY <1>1, <1>2, <1>8, <1>9 DEF AddFails, LifeInv, Around
<1> QED
  BY <1>4, <1>8, <1>10 DEF LifeInv, AddFails

\* The id of a new pet is one of those the calls may be given.
LEMMA AddCounts ==
  ASSUME LifeInv, BoundsDefined, NEW c \in Call, AddAnswer(c) \/ WindowFails(c)
  PROVE  /\ petOf[c] = 0 /\ idCounter + 1 \in PetId /\ idCounter \in Nat
         /\ Few' /\ \A d \in Call : Early(d)' => Early(d)
<1>1. idCounter \in Nat /\ idCounter' = idCounter + 1
  BY DEF AddAnswer, WindowFails, BackendAdds, LifeInv, Around
<1>2. /\ pc' \in [Call -> Awaiting] /\ pc'[c] \in {"position", "navigate", "rollback"}
      /\ \A d \in Call : d # c => pc'[d] = pc[d]
  BY DEF LifeInv, Around, AddAnswer, WindowFails, Become, Awaiting
<1>3. \A d \in Call : Early(d)' => Early(d)
  BY <1>2 DEF Early
<1>4. Early(c) /\ ~Early(c)'
  BY <1>2 DEF AddAnswer, WindowFails, Early
<1>5. Few' /\ idCounter' \in 0..Cardinality(Call)
  BY <1>1, <1>3, <1>4, FewStay DEF LifeInv
<1>6. idCounter + 1 \in PetId
  BY <1>1, <1>5 DEF PetId
<1> QED
  BY <1>1, <1>3, <1>4, <1>5, <1>6 DEF LifeInv, Numbered

\* The backend adds a pet, and the call opens its window or fails to.
LEMMA AddStep ==
  ASSUME LifeInv, BoundsDefined, NEW c \in Call, AddAnswer(c) \/ WindowFails(c)
  PROVE  LifeInv'
<1> DEFINE id == idCounter + 1
<1>1. /\ petOf[c] = 0 /\ id \in PetId /\ idCounter \in Nat
      /\ Few' /\ \A d \in Call : Early(d)' => Early(d)
  BY AddCounts
<1>2. idCounter' = id /\ backend' = backend \cup {id} /\ petOf' = [petOf EXCEPT ![c] = id]
  BY DEF AddAnswer, WindowFails, BackendAdds
<1>3. Good(app', petOf')
  <2>1. quitting \in BOOLEAN /\ Good(app, petOf)
    BY DEF LifeInv, Around
  <2> QED
    BY <1>1, <2>1, AddGood, UnopenedGood
<1>4. /\ pc' \in [Call -> Awaiting] /\ pc'[c] \in {"position", "navigate", "rollback"}
      /\ \A d \in Call : d # c => pc'[d] = pc[d]
  BY DEF LifeInv, Around, AddAnswer, WindowFails, Become, Awaiting
<1>5. page' \in PageType
  BY DEF AddAnswer, WindowFails, LifeInv, Around, PageType
<1>6. backend' \subseteq 1..idCounter' /\ idCounter' \in 0..Cardinality(Call)
  BY <1>1, <1>2 DEF LifeInv, Around, PetId
<1>7. Around'
  BY <1>4, <1>5, <1>6 DEF AddAnswer, WindowFails, LifeInv, Around
<1>8. Numbered'
  <2>1. petOf'[c] = id /\ \A d \in Call : d # c => petOf'[d] = petOf[d]
    BY <1>2 DEF LifeInv, Good
  <2>2. SUFFICES ASSUME NEW d \in Call
                 PROVE  /\ Early(d)' => petOf'[d] = 0
                        /\ pc'[d] \in {"position", "navigate"} => petOf'[d] \in PetId
    BY DEF Numbered
  <2>3. CASE d = c
    BY <1>1, <1>4, <2>1, <2>3 DEF Early
  <2>4. CASE d # c
    BY <1>1, <1>4, <2>1, <2>4 DEF LifeInv, Numbered
  <2> QED
    BY <2>3, <2>4
<1> QED
  BY <1>1, <1>3, <1>7, <1>8 DEF LifeInv

\* A removal settles, and the calls that await it have failed.
LEMMA SettleStep ==
  ASSUME LifeInv, BoundsDefined, NEW id \in PetId, RemovalSettles(id)
  PROVE  LifeInv'
<1>1. Good(app', petOf')
  BY SettleGood DEF LifeInv, Around, RemovalSettles
<1>2. /\ pc' \in [Call -> Awaiting]
      /\ \A d \in Call : pc'[d] \in {pc[d], "failed"}
  BY DEF LifeInv, Around, RemovalSettles, Awaiting
<1>3. lost' \in LostType
  BY LostStays DEF RemovalSettles, LifeInv, Around
<1>4. backend' \subseteq backend
  BY DEF RemovalSettles
<1>5. Around'
  BY <1>2, <1>3, <1>4 DEF RemovalSettles, LifeInv, Around
<1>6. \A d \in Call : Early(d)' => Early(d)
  BY <1>2 DEF Early
<1>7. Numbered'
  <2>1. \A d \in Call :
          pc'[d] \in {"position", "navigate"} => pc[d] \in {"position", "navigate"}
    BY <1>2
  <2> QED
    BY <1>6, <2>1, NumbersStay DEF LifeInv, RemovalSettles
<1>8. Few'
  <2>1. idCounter' \in Nat /\ idCounter' <= idCounter
    BY DEF RemovalSettles, LifeInv, Around
  <2> QED
    BY <1>6, <2>1, FewStay DEF LifeInv
<1> QED
  BY <1>1, <1>5, <1>7, <1>8 DEF LifeInv

\* The page, and the loop its window starts.
LEMMA PageStep ==
  ASSUME LifeInv, NEW c \in Call, ReadyToShow(c) \/ DidFinishLoad(c) \/ ShowTimer(c)
  PROVE  LifeInv' /\ Kept(app, app')
<1>1. Good(app, petOf) /\ page \in PageType
  BY DEF LifeInv, Around
<1>2. UNCHANGED <<process, calls, userRemovals, quitting>>
  BY DEF ReadyToShow, DidFinishLoad, ShowTimer
<1>3. page' \in PageType
  <2>1. CASE DidFinishLoad(c)
    <3>1. page' = [page EXCEPT !.loaded = @ \cup {c}, !.showDue = @ \cup {c}]
      BY <2>1 DEF DidFinishLoad
    <3> QED
      BY <1>1, <3>1 DEF PageType
  <2>2. CASE ReadyToShow(c) \/ ShowTimer(c)
    <3>1. \/ page' = page
          \/ page' = [page EXCEPT !.shown = @ \cup {c}, !.showDue = @ \ {c}]
          \/ page' = [page EXCEPT !.showDue = @ \ {c}]
      BY <2>2 DEF ReadyToShow, ShowTimer, ShowPetWindow
    <3> QED
      BY <1>1, <3>1 DEF PageType
  <2> QED
    BY <2>1, <2>2
<1>4. Good(app', petOf) /\ Kept(app, app')
  <2>1. CASE DidFinishLoad(c)
    BY <1>1, <2>1, LoadGood
  <2>2. CASE ReadyToShow(c) \/ ShowTimer(c)
    <3>1. app' = app \/ app' = StartPetLoop(app, c)
      BY <2>2 DEF ReadyToShow, ShowTimer, ShowPetWindow
    <3> QED
      BY <1>1, <3>1, StartGood DEF Kept
  <2> QED
    BY <2>1, <2>2
<1> QED
  BY <1>2, <1>3, <1>4, AppStep

\* The loop of a window: its timer, and the answers to its steps.
LEMMA TurnStep ==
  ASSUME LifeInv, BoundsDefined, NEW c \in Call, Turn(c)
  PROVE  LifeInv' /\ Kept(app, app')
<1>1. Good(app, petOf) /\ page \in PageType
  BY DEF LifeInv, Around
<1>2. Good(app', petOf) /\ Kept(app, app')
  BY <1>1, FireGood, AnswerGood, FailGood DEF Turn
<1>3. CASE LoopFires(c) \/ StepAnswer(c)
  <2>1. UNCHANGED <<process, calls, page, userRemovals, quitting>>
    BY <1>3 DEF LoopFires, StepAnswer
  <2> QED
    BY <1>1, <1>2, <2>1, AppStep
<1>4. CASE StepFails(c)
  <2>1. lost' \in LostType
    BY <1>4, LostStays DEF StepFails, LifeInv, Around
  <2>2. UNCHANGED <<up, backend, idCounter, crashes, calls, page, userRemovals, quitting>>
    BY <1>4 DEF StepFails
  <2>3. Around'
    BY <2>1, <2>2 DEF LifeInv, Around, calls
  <2>4. Numbered' /\ Few'
    BY <2>2 DEF LifeInv, Numbered, Few, Begun, Early, calls
  <2> QED
    BY <1>2, <2>2, <2>3, <2>4 DEF LifeInv, calls
<1> QED
  BY <1>2, <1>3, <1>4 DEF Turn

\* A crash leaves the main process as it is and breaks the connections.
LEMMA CrashStep ==
  ASSUME LifeInv, BoundsDefined, Crash
  PROVE  LifeInv'
<1>1. Cardinality(Call) \in Nat /\ Cardinality(Begun) \in Nat
  <2>1. Begun \subseteq Call
    BY DEF Begun
  <2> QED
    BY <2>1, FS_Subset, FS_CardinalityType DEF BoundsDefined
<1>2. lost' \in LostType
  <2>1. app.removing \subseteq PetId
    BY AppFields DEF LifeInv, Good
  <2> QED
    BY <2>1 DEF Crash, LostType
<1>3. Around'
  <2>1. up' \in BOOLEAN /\ quitting' \in BOOLEAN /\ pc' = pc /\ page' = page
    BY DEF Crash, calls, LifeInv, Around
  <2>2. /\ backend' \subseteq 1..idCounter' /\ idCounter' \in 0..Cardinality(Call)
        /\ crashes' \in 0..MaxCrashes /\ userRemovals' \subseteq PetId
    BY <1>1 DEF Crash, LifeInv, Around, BoundsDefined
  <2> QED
    BY <1>2, <2>1, <2>2 DEF LifeInv, Around
<1>4. Begun' = Begun /\ Numbered'
  BY DEF Crash, calls, LifeInv, Begun, Early, Numbered
<1>5. Few'
  BY <1>1, <1>4 DEF Crash, Few
<1> QED
  BY <1>3, <1>4, <1>5 DEF LifeInv, Crash, calls

\* Loading goes on: the call whose window is ready navigates, commits, or rolls back.
LEMMA LoadingStep ==
  ASSUME LifeInv, BoundsDefined, NEW c \in Call,
         LoadAndCreatePet(c) \/ PositionAnswer(c) \/ Commit(c) \/ GiveUp(c)
  PROVE  LifeInv'
<1>1. Good(app, petOf) /\ page \in PageType
  BY DEF LifeInv, Around
<1>2. CASE LoadAndCreatePet(c)
  <2>1. Become(c, "load") /\ "load" \in Awaiting /\ Early(c) /\ app' = app /\ page' = page
    BY <1>2 DEF LoadAndCreatePet, Awaiting, Early
  <2>2. UNCHANGED <<process, petOf, userRemovals, quitting>>
    BY <1>2 DEF LoadAndCreatePet
  <2> QED
    BY <1>1, <2>1, <2>2, CallStep
<1>3. CASE Commit(c)
  <2>1. Become(c, "committed") /\ "committed" \in Awaiting /\ app' = app /\ page' = page
    BY <1>3 DEF Commit, Awaiting
  <2>2. UNCHANGED <<process, petOf, userRemovals, quitting>>
    BY <1>3 DEF Commit
  <2> QED
    BY <1>1, <2>1, <2>2, CallStep
<1>4. CASE GiveUp(c)
  BY <1>4, RollbackStep DEF GiveUp
<1>5. CASE PositionAnswer(c) /\ c \in app.open
  <2>1. /\ Become(c, "navigate") /\ "navigate" \in Awaiting /\ app' = app
        /\ pc[c] = "position"
    BY <1>5 DEF PositionAnswer, Awaiting
  <2>2. page' = [page EXCEPT !.hooked = @ \cup {c}]
    BY <1>5 DEF PositionAnswer
  <2>3. page' \in PageType
    BY <1>1, <2>2 DEF PageType
  <2>4. UNCHANGED <<process, petOf, userRemovals, quitting>>
    BY <1>5 DEF PositionAnswer
  <2> QED
    BY <1>1, <2>1, <2>3, <2>4, CallStep
<1>6. CASE PositionAnswer(c) /\ c \notin app.open
  BY <1>6, RollbackStep DEF PositionAnswer
<1> QED
  BY <1>2, <1>3, <1>4, <1>5, <1>6

\* Removing a pet, closing a window, and the end.
LEMMA EndStep ==
  ASSUME LifeInv,
         \/ \E id \in PetId : RemovePet(id)
         \/ \E c \in Call : CloseWindow(c)
         \/ Restart \/ Shutdown
  PROVE  LifeInv'
<1>1. Good(app, petOf) /\ page \in PageType /\ quitting \in BOOLEAN
  BY DEF LifeInv, Around
<1>2. ASSUME NEW id \in PetId, RemovePet(id)
      PROVE  LifeInv'
  <2>1. Good(app', petOf)
    BY <1>1, <1>2, RemoveGood
  <2>2. UNCHANGED <<process, calls, page, quitting>> /\ userRemovals' \subseteq PetId
    BY <1>2 DEF RemovePet, LifeInv, Around
  <2>3. Around' /\ Numbered' /\ Few'
    BY <2>2 DEF LifeInv, Around, Numbered, Few, Begun, Early, process, calls
  <2> QED
    BY <2>1, <2>2, <2>3 DEF LifeInv, calls
<1>3. ASSUME NEW c \in Call, CloseWindow(c)
      PROVE  LifeInv'
  <2>1. Good(app', petOf)
    BY <1>1, <1>3, CloseGood
  <2>2. UNCHANGED <<process, calls, page, userRemovals, quitting>>
    BY <1>3 DEF CloseWindow
  <2> QED
    BY <1>1, <2>1, <2>2, AppStep
<1>4. CASE Restart
  <2>1. /\ UNCHANGED <<backend, idCounter, crashes, lost, calls, app, page, userRemovals, quitting>>
        /\ up' \in BOOLEAN
    BY <1>4 DEF Restart
  <2>2. Around' /\ Numbered' /\ Few'
    BY <2>1 DEF LifeInv, Around, Numbered, Few, Begun, Early, calls
  <2> QED
    BY <1>1, <2>1, <2>2 DEF LifeInv, calls
<1>5. CASE Shutdown
  <2>1. Good(app', petOf)
    BY <1>1, <1>5, ShutdownGood
  <2>2. /\ UNCHANGED <<idCounter, crashes, lost, calls, page, userRemovals>>
        /\ up' \in BOOLEAN /\ quitting' \in BOOLEAN /\ backend' = {}
    BY <1>5 DEF Shutdown
  <2>3. Around' /\ Numbered' /\ Few'
    BY <2>2 DEF LifeInv, Around, Numbered, Few, Begun, Early, calls
  <2> QED
    BY <2>1, <2>2, <2>3 DEF LifeInv, calls
<1> QED
  BY <1>2, <1>3, <1>4, <1>5

\* Every step keeps the invariant.
LEMMA LifeStays == BoundsDefined /\ LifeInv /\ [Next]_vars => LifeInv'
<1> SUFFICES ASSUME BoundsDefined, LifeInv, [Next]_vars PROVE LifeInv'
  OBVIOUS
<1>1. ASSUME NEW c \in Call, Continue(c) \/ LoadAndCreatePet(c)
      PROVE  LifeInv'
  BY <1>1, LoadStep, AddStep, AddFailsStep, LoadingStep DEF Continue
<1>2. ASSUME NEW c \in Call, Turn(c)
      PROVE  LifeInv'
  BY <1>2, TurnStep
<1>3. ASSUME NEW c \in Call, ReadyToShow(c) \/ DidFinishLoad(c) \/ ShowTimer(c)
      PROVE  LifeInv'
  BY <1>3, PageStep
<1>4. ASSUME NEW c \in Call, CloseWindow(c)
      PROVE  LifeInv'
  BY <1>4, EndStep
<1>5. ASSUME NEW id \in PetId, RemovePet(id)
      PROVE  LifeInv'
  BY <1>5, EndStep
<1>6. ASSUME NEW id \in PetId, RemovalSettles(id)
      PROVE  LifeInv'
  BY <1>6, SettleStep
<1>7. CASE Crash
  BY <1>7, CrashStep
<1>8. CASE Restart \/ Shutdown
  BY <1>8, EndStep
<1>9. CASE UNCHANGED vars
  BY <1>9 DEF vars, process, calls, LifeInv, Around, Numbered, Few, Begun, Early
<1> QED
  BY <1>1, <1>2, <1>3, <1>4, <1>5, <1>6, <1>7, <1>8, <1>9 DEF Next

\* The invariant of every run of the main process.
LEMMA LifeAlways == Spec => []LifeInv
<1>1. Init => LifeInv
  BY LifeStarts, BoundsDefined
<1>2. LifeInv /\ [Next]_vars => LifeInv'
  BY LifeStays, BoundsDefined
<1> QED
  BY <1>1, <1>2, PTL DEF Spec

\* The variables keep the types that the model gives them, however often the backend
\* crashes and whatever fails.
THEOREM TypeCorrect == Spec => []TypeOK
BY LifeAlways, LifeIsTyped, PTL

\* No window leaks: an open window is the one the window manager knows under the id of
\* its pet, also when a restarted backend gives an id out again.
THEOREM NoWindowLeaks == Spec => []OpenWindowsRegistered
<1>1. LifeInv => OpenWindowsRegistered
  BY DEF LifeInv, Good, Registered, OpenWindowsRegistered
<1> QED
  BY <1>1, LifeAlways, PTL

\* No timer leaks: a timer that has not fired is the one petTimers holds for its pet,
\* although a step in flight arms one after its pet was removed.
THEOREM NoTimerLeaks == Spec => []TimersCancellable
<1>1. LifeInv => TimersCancellable
  BY DEF LifeInv, Good, Cancellable, TimersCancellable
<1> QED
  BY <1>1, LifeAlways, PTL

-----------------------------------------------------------------------------
\* While no backend has crashed

\* No id is given out twice, no connection is broken, and windows show stored pets.
Calm ==
  crashes = 0 =>
    /\ \A c \in Call : petOf[c] <= idCounter
    /\ lost.remove = {} /\ (up \/ quitting)
    /\ \A c \in app.open : Stored(app, petOf[c])

\* A rollback hands the pet over to its removal.
LEMMA RollbackKeeps ==
  ASSUME LifeInv, NEW c \in Call, pc[c] \in {"position", "navigate"}, Rollback(c)
  PROVE  Showing(app, app') /\ Owning(app, app')
<1>1. Good(app, petOf) /\ petOf[c] \in PetId /\ quitting \in BOOLEAN
  BY DEF LifeInv, Numbered, Around
<1>2. Left(app, app', petOf[c]) /\ petOf[c] \in app'.removing
  BY <1>1, RollbackGood
<1>3. Owning(app, app')
  BY <1>2 DEF Left, Part, Owning
<1> QED
  BY <1>2, <1>3, LeftShows

\* In every other step that is not a creation, a settled removal or the end, windows
\* show what they showed, and a pet that leaves the store is being removed.
LEMMA StepKeeps ==
  ASSUME LifeInv, BoundsDefined,
         \/ \E c \in Call : \/ LoadAndCreatePet(c) \/ LoadAnswer(c) \/ AddFails(c)
                            \/ PositionAnswer(c) \/ Commit(c) \/ GiveUp(c) \/ Turn(c)
                            \/ ReadyToShow(c) \/ DidFinishLoad(c) \/ ShowTimer(c)
                            \/ CloseWindow(c)
         \/ \E id \in PetId : RemovePet(id)
         \/ Restart \/ Crash \/ UNCHANGED vars
  PROVE  petOf' = petOf /\ Showing(app, app') /\ (~quitting => Owning(app, app'))
<1>1. Good(app, petOf) /\ quitting \in BOOLEAN
  BY DEF LifeInv, Around
<1>2. app' = app => Showing(app, app') /\ Owning(app, app')
  BY DEF Showing, Owning, Stored
<1>3. ASSUME NEW c \in Call, LoadAndCreatePet(c) \/ LoadAnswer(c) \/ AddFails(c) \/ Commit(c)
      PROVE  petOf' = petOf /\ app' = app
  BY <1>3 DEF LoadAndCreatePet, LoadAnswer, AddFails, Commit
<1>4. ASSUME NEW c \in Call, PositionAnswer(c) \/ GiveUp(c)
      PROVE  petOf' = petOf /\ Showing(app, app') /\ Owning(app, app')
  <2>1. petOf' = petOf
    BY <1>4 DEF PositionAnswer, GiveUp
  <2>2. app' = app \/ (pc[c] \in {"position", "navigate"} /\ Rollback(c))
    BY <1>4 DEF PositionAnswer, GiveUp
  <2> QED
    BY <1>2, <2>1, <2>2, RollbackKeeps
<1>5. ASSUME NEW c \in Call, Turn(c) \/ ReadyToShow(c) \/ DidFinishLoad(c) \/ ShowTimer(c)
      PROVE  petOf' = petOf /\ Kept(app, app')
  <2>1. petOf' = petOf
    BY <1>5 DEF Turn, LoopFires, StepAnswer, StepFails, ReadyToShow, DidFinishLoad, ShowTimer,
                calls
  <2> QED
    BY <1>5, <2>1, TurnStep, PageStep
<1>6. ASSUME NEW c \in Call, CloseWindow(c)
      PROVE  petOf' = petOf /\ Showing(app, app') /\ (~quitting => Owning(app, app'))
  <2>1. petOf' = petOf
    BY <1>6 DEF CloseWindow, calls
  <2> QED
    BY <1>1, <1>6, <2>1, CloseGood, LeftShows
<1>7. ASSUME NEW id \in PetId, RemovePet(id)
      PROVE  petOf' = petOf /\ Kept(app, app')
  <2>1. petOf' = petOf
    BY <1>7 DEF RemovePet, calls
  <2> QED
    BY <1>1, <1>7, <2>1, RemoveGood
<1>8. CASE Restart \/ Crash \/ UNCHANGED vars
  BY <1>2, <1>8 DEF Restart, Crash, vars, calls
<1> QED
  BY <1>2, <1>3, <1>4, <1>5, <1>6, <1>7, <1>8, KeptShows

\* A new pet, while no backend has crashed, has no window yet.
LEMMA AddShows ==
  ASSUME LifeInv, BoundsDefined, Calm, crashes = 0, NEW c \in Call,
         AddAnswer(c) \/ WindowFails(c)
  PROVE  /\ \A d \in Call : petOf'[d] <= idCounter'
         /\ \A d \in app'.open : Stored(app', petOf'[d])
<1> DEFINE id == idCounter + 1
<1>1. petOf[c] = 0 /\ id \in PetId /\ idCounter \in Nat /\ Good(app, petOf) /\ quitting \in BOOLEAN
  BY AddCounts DEF LifeInv, Around
<1>2. \A d \in Call : petOf[d] \in Nat /\ petOf[d] <= idCounter
  BY DEF Calm, LifeInv, Good, PetId
<1>3. id \notin DOMAIN app.windows
  <2>1. \A i \in DOMAIN app.windows : app.windows[i] \in Call /\ petOf[app.windows[i]] = i
    BY <1>1, AppFields DEF Good, Named
  <2> QED
    BY <1>1, <1>2, <2>1
<1>4. \/ DOMAIN app'.pets = DOMAIN app.pets \cup {id} /\ app'.open = app.open \cup {c}
      \/ Showing(app, app') /\ c \notin app'.open
  BY <1>1, <1>3, AddGood, UnopenedGood
<1>5. idCounter' = id /\ petOf'[c] = id /\ \A d \in Call : d # c => petOf'[d] = petOf[d]
  BY <1>1 DEF AddAnswer, WindowFails, BackendAdds, Good
<1>6. \A d \in Call : petOf'[d] <= idCounter'
  BY <1>1, <1>2, <1>5
<1>7. app.open \subseteq Call
  BY <1>1, AppFields DEF Good
<1> QED
  BY <1>4, <1>5, <1>6, <1>7 DEF Calm, Stored, Showing

\* A step without a crash: no connection breaks, and the backend stops only at the end.
LEMMA QuietSteps ==
  ASSUME [Next]_vars, ~Crash
  PROVE  /\ crashes' = crashes /\ (quitting => quitting')
         /\ up \/ quitting => up' \/ quitting'
         /\ \/ UNCHANGED lost
            \/ \E c : \/ lost' = [lost EXCEPT !.create = @ \ {c}]
                     \/ lost' = [lost EXCEPT !.step = @ \ {c}]
                     \/ lost' = [lost EXCEPT !.remove = @ \ {c}]
<1>1. crashes' = crashes
  BY DEF Next, Continue, Turn, LoadAndCreatePet, LoadAnswer, AddAnswer, WindowFails, AddFails,
         PositionAnswer, Commit, GiveUp, LoopFires, StepAnswer, StepFails, ReadyToShow,
         DidFinishLoad, ShowTimer, CloseWindow, RemovePet, RemovalSettles, Restart,
         Shutdown, process, vars
<1>2. quitting' = quitting \/ Shutdown
  BY DEF Next, Continue, Turn, LoadAndCreatePet, LoadAnswer, AddAnswer, WindowFails, AddFails,
         PositionAnswer, Commit, GiveUp, LoopFires, StepAnswer, StepFails, ReadyToShow,
         DidFinishLoad, ShowTimer, CloseWindow, RemovePet, RemovalSettles, Restart,
         process, vars
<1>3. up' = up \/ Restart \/ Shutdown
  BY DEF Next, Continue, Turn, LoadAndCreatePet, LoadAnswer, AddAnswer, WindowFails, AddFails,
         PositionAnswer, Commit, GiveUp, LoopFires, StepAnswer, StepFails, ReadyToShow,
         DidFinishLoad, ShowTimer, CloseWindow, RemovePet, RemovalSettles,
         process, vars
<1>4. (Restart => up') /\ (Shutdown => ~quitting /\ quitting')
  BY DEF Restart, Shutdown
<1>5. \/ UNCHANGED lost
      \/ \E c : \/ lost' = [lost EXCEPT !.create = @ \ {c}]
               \/ lost' = [lost EXCEPT !.step = @ \ {c}]
               \/ lost' = [lost EXCEPT !.remove = @ \ {c}]
  BY DEF Next, Continue, Turn, LoadAndCreatePet, LoadAnswer, AddAnswer, WindowFails, AddFails,
         PositionAnswer, Commit, GiveUp, LoopFires, StepAnswer, StepFails, ReadyToShow,
         DidFinishLoad, ShowTimer, CloseWindow, RemovePet, RemovalSettles, Restart,
         Shutdown, process, vars
<1> QED
  <2>1. quitting => quitting'
    BY <1>2, <1>4
  <2>2. up \/ quitting => up' \/ quitting'
    BY <1>3, <1>4, <2>1
  <2> QED
    BY <1>1, <1>5, <2>1, <2>2

\* The end of the application.
LEMMA ShutdownQuits ==
  ASSUME Shutdown
  PROVE  ~quitting /\ quitting'
BY DEF Shutdown

\* What the steps below need of the invariant.
LEMMA CalmParts ==
  ASSUME LifeInv
  PROVE  crashes \in Nat /\ quitting \in BOOLEAN /\ Good(app, petOf)
BY DEF LifeInv, Around

\* A crash is counted.
LEMMA CrashCounts ==
  ASSUME LifeInv, Crash
  PROVE  crashes' # 0 /\ UNCHANGED quitting
BY DEF Crash, LifeInv, Around

\* Only a creation counts the ids, and only it and a settled removal change the backend's pets.
LEMMA BackendSteps ==
  ASSUME [Next]_vars, ~Crash, ~Shutdown, ~\E c \in Call : AddAnswer(c) \/ WindowFails(c)
  PROVE  /\ UNCHANGED quitting
         /\ \/ idCounter' = idCounter
            \/ idCounter' = idCounter + 1 /\ "add_pet timeout" \in Faults
         /\ \/ \E id \in PetId : RemovalSettles(id)
            \/ backend' = backend
            \/ "add_pet timeout" \in Faults
BY DEF Next, Continue, Turn, LoadAndCreatePet, LoadAnswer, AddFails, BackendAdds,
       PositionAnswer, Commit, GiveUp, LoopFires, StepAnswer, StepFails, ReadyToShow,
       DidFinishLoad, ShowTimer, CloseWindow, RemovePet, RemovalSettles, Restart,
       process, vars

\* Every step keeps it.
LEMMA CalmStays == BoundsDefined /\ LifeInv /\ Calm /\ [Next]_vars => Calm'
<1> SUFFICES ASSUME BoundsDefined, LifeInv, Calm, [Next]_vars, crashes' = 0
             PROVE  /\ \A c \in Call : petOf'[c] <= idCounter'
                    /\ lost'.remove = {} /\ (up' \/ quitting')
                    /\ \A c \in app'.open : Stored(app', petOf'[c])
  BY DEF Calm
<1>1. crashes \in Nat /\ quitting \in BOOLEAN /\ Good(app, petOf) /\ lost \in LostType
  BY DEF LifeInv, Around
<1>2. /\ \A c \in Call : petOf[c] <= idCounter
      /\ lost.remove = {} /\ (up \/ quitting)
      /\ \A c \in app.open : Stored(app, petOf[c])
      /\ crashes = 0 /\ ~Crash
  <2>1. ~Crash
    BY <1>1 DEF Crash
  <2>2. crashes' = crashes
    BY <2>1, QuietSteps
  <2> QED
    BY <2>1, <2>2 DEF Calm
<1>3. lost'.remove = {}
  BY <1>1, <1>2, QuietSteps DEF LostType
<1>4. up' \/ quitting'
  BY <1>2, QuietSteps
<1>5. CASE \E c \in Call : AddAnswer(c) \/ WindowFails(c)
  BY <1>2, <1>3, <1>4, <1>5, AddShows
<1>6. CASE Shutdown
  <2>1. app'.open = {} /\ UNCHANGED <<petOf, idCounter>>
    BY <1>1, <1>2, <1>6, ShutdownGood DEF Shutdown, calls
  <2> QED
    BY <1>2, <1>3, <1>4, <2>1
<1>7. CASE ~Shutdown /\ ~\E c \in Call : AddAnswer(c) \/ WindowFails(c)
  <2>1. petOf' = petOf /\ Showing(app, app')
    <3>1. CASE \E id \in PetId : RemovalSettles(id)
      BY <1>1, <3>1, SettleGood DEF RemovalSettles
    <3>2. CASE ~\E id \in PetId : RemovalSettles(id)
      BY <1>7, <3>2, StepKeeps DEF Next, Continue
    <3> QED
      BY <3>1, <3>2
  <2>2. idCounter' = idCounter \/ idCounter' = idCounter + 1
    BY <1>2, <1>7, BackendSteps
  <2>3. \A c \in Call : petOf[c] <= idCounter'
    <3>1. idCounter \in Nat /\ \A c \in Call : petOf[c] \in Nat
      BY DEF LifeInv, Around, Good, PetId
    <3> QED
      BY <1>2, <2>2, <3>1
  <2> QED
    BY <1>2, <1>3, <1>4, <2>1, <2>3 DEF Showing
<1> QED
  BY <1>5, <1>6, <1>7

\* What the backend has is owned, as long as removals are answered and a pet is not added
\* behind a request that timed out.
LEMMA OwnedStays ==
  ASSUME BoundsDefined, LifeInv, Calm, BackendPetsOwned, [Next]_vars,
         Faults \cap {"remove_pet", "add_pet timeout"} = {}
  PROVE  BackendPetsOwned'
<1> SUFFICES ASSUME crashes' = 0, ~quitting'
             PROVE  backend' \subseteq DOMAIN app'.pets \cup app'.removing
  BY DEF BackendPetsOwned
<1>1. crashes \in Nat /\ quitting \in BOOLEAN /\ Good(app, petOf)
  BY CalmParts
<1>2. ~Crash /\ ~Shutdown
  BY CrashCounts, ShutdownQuits
<1>3. crashes = 0 /\ ~quitting
  BY <1>2, QuietSteps
<1>4. backend \subseteq DOMAIN app.pets \cup app.removing
  BY <1>3 DEF BackendPetsOwned
<1>5. ASSUME NEW c \in Call, AddAnswer(c) \/ WindowFails(c)
      PROVE  backend' \subseteq DOMAIN app'.pets \cup app'.removing
  <2> DEFINE id == idCounter + 1
  <2>1. petOf[c] = 0 /\ id \in PetId
    BY <1>5, AddCounts
  <2>2. DOMAIN app.pets \cup {id} \cup app.removing \subseteq DOMAIN app'.pets \cup app'.removing
    BY <1>1, <1>3, <1>5, <2>1, AddGood, UnopenedGood
  <2>3. backend' = backend \cup {id}
    BY <1>5 DEF AddAnswer, WindowFails, BackendAdds
  <2> QED
    BY <1>4, <2>2, <2>3
<1>6. ASSUME NEW id \in PetId, RemovalSettles(id)
      PROVE  backend' \subseteq DOMAIN app'.pets \cup app'.removing
  <2>1. backend' = backend \ {id}
    BY <1>3, <1>6 DEF RemovalSettles, Calm
  <2>2. (DOMAIN app.pets \cup app.removing) \ {id} \subseteq DOMAIN app'.pets \cup app'.removing
    BY <1>1, <1>6, SettleGood
  <2> QED
    BY <1>4, <2>1, <2>2
<1>7. CASE ~(\E c \in Call : AddAnswer(c) \/ WindowFails(c)) /\ ~(\E id \in PetId : RemovalSettles(id))
  <2>1. backend' = backend
    BY <1>2, <1>7, BackendSteps
  <2>2. Owning(app, app')
    BY <1>2, <1>3, <1>7, StepKeeps DEF Next, Continue
  <2> QED
    BY <1>4, <2>1, <2>2 DEF Owning
<1> QED
  BY <1>5, <1>6, <1>7

\* What holds while no backend has crashed.
LEMMA CalmAlways == Spec => []Calm
<1>1. Init => Calm
  BY DEF Init, Calm, NoPet, EmptyApp
<1>2. LifeInv /\ Calm /\ [Next]_vars => Calm'
  BY CalmStays, BoundsDefined
<1> QED
  BY <1>1, <1>2, LifeAlways, PTL DEF Spec

\* No window shows a pet that is gone, until a backend crashes.
THEOREM WindowsShowPets == Spec => []WindowsShowStoredPets
<1>1. Calm => WindowsShowStoredPets
  BY DEF Calm, WindowsShowStoredPets
<1> QED
  BY <1>1, CalmAlways, PTL

\* No pet is orphaned, until a backend crashes, where every removal is answered with
\* success and no add_pet is carried out whose request has timed out: closing, removing,
\* rolling back and creating may interleave as they like.
THEOREM NoPetIsOrphaned ==
  ASSUME Faults \cap {"remove_pet", "add_pet timeout"} = {}
  PROVE  Spec => []BackendPetsOwned
<1>1. Init => BackendPetsOwned
  BY DEF Init, BackendPetsOwned
<1>2. LifeInv /\ Calm /\ BackendPetsOwned /\ [Next]_vars => BackendPetsOwned'
  BY OwnedStays, BoundsDefined
<1> QED
  BY <1>1, <1>2, LifeAlways, CalmAlways, PTL DEF Spec

\* Shutting down leaves no window open, until a backend crashes: every open window is the
\* registered one of a pet in the store, and those are destroyed.
THEOREM ShutdownCloses == Spec => ShutdownClosesWindows
<1>1. LifeInv /\ Calm /\ [Next]_vars =>
        [crashes = 0 /\ ~quitting /\ quitting' => app'.open = {}]_vars
  <2> SUFFICES ASSUME LifeInv, Calm, [Next]_vars, crashes = 0, ~quitting, quitting'
               PROVE  app'.open = {}
    OBVIOUS
  <2>1. Shutdown
    <3>1. \/ Shutdown \/ Crash \/ quitting' = quitting
          \/ \E c \in Call : AddAnswer(c) \/ WindowFails(c)
      BY BackendSteps
    <3> QED
      BY <3>1 DEF Crash, AddAnswer, WindowFails
  <2>2. Good(app, petOf) /\ \A c \in app.open : Stored(app, petOf[c])
    BY DEF LifeInv, Calm
  <2> QED
    BY <2>1, <2>2, ShutdownGood
<1> QED
  BY <1>1, LifeAlways, CalmAlways, PTL DEF Spec, ShutdownClosesWindows

\* A creation whose page has loaded in a window that is still open is committed, until a
\* backend crashes: the pet of an open window is in the store, so it is not rolled back.
THEOREM LoadedPagesCommit == Spec => LoadedPageCommits
<1>1. LifeInv /\ Calm /\ [Next]_vars =>
        [\A c \in Call :
           crashes = 0 /\ pc[c] = "navigate" /\ pc'[c] # "navigate"
             /\ c \in page.loaded \cap app.open /\ petOf[c] \in backend
             => pc'[c] = "committed"]_vars
  <2> SUFFICES ASSUME LifeInv, Calm, [Next]_vars, NEW c \in Call, crashes = 0,
                      pc[c] = "navigate", pc'[c] # "navigate", c \in page.loaded \cap app.open
               PROVE  pc'[c] = "committed"
    OBVIOUS
  <2>1. pc \in [Call -> Awaiting] /\ Survives(c)
    BY DEF LifeInv, Around, Calm, Survives
  <2>2. ASSUME NEW d \in Call, d # c, Continue(d) \/ LoadAndCreatePet(d)
        PROVE  pc'[c] = pc[c]
    BY <2>1, <2>2 DEF Continue, LoadAndCreatePet, LoadAnswer, AddAnswer, WindowFails, AddFails,
                      PositionAnswer, Commit, GiveUp, Rollback, Become
  <2>3. Continue(c) \/ LoadAndCreatePet(c) => Commit(c)
    BY <2>1 DEF Continue, LoadAndCreatePet, LoadAnswer, AddAnswer, WindowFails, AddFails, PositionAnswer,
                GiveUp
  <2>4. ASSUME NEW d \in Call,
               Turn(d) \/ ReadyToShow(d) \/ DidFinishLoad(d) \/ ShowTimer(d) \/ CloseWindow(d)
        PROVE  pc'[c] = pc[c]
    BY <2>4 DEF Turn, LoopFires, StepAnswer, StepFails, ReadyToShow, DidFinishLoad, ShowTimer,
                CloseWindow, calls
  <2>5. ASSUME NEW id \in PetId, RemovePet(id) \/ RemovalSettles(id)
        PROVE  pc'[c] = pc[c]
    BY <2>5 DEF RemovePet, RemovalSettles, calls
  <2>6. Crash \/ Restart \/ Shutdown \/ UNCHANGED vars => pc'[c] = pc[c]
    BY DEF Crash, Restart, Shutdown, vars, calls
  <2>7. Commit(c)
    BY <2>2, <2>3, <2>4, <2>5, <2>6 DEF Next
  <2> QED
    BY <2>1, <2>7 DEF Commit, Become
<1> QED
  BY <1>1, LifeAlways, CalmAlways, PTL DEF Spec, LoadedPageCommits
=============================================================================
