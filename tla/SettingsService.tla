--------------------------- MODULE SettingsService ---------------------------
(***************************************************************************)
(* The settings in the backend: what it holds in memory, what its file       *)
(* holds, and the requests that change both.  Every request is served by a   *)
(* goroutine.  A change of the volume writes memory, then the file, without  *)
(* the lock; a change of the scale does so with it; every other change is    *)
(* made to a copy, which is written to the file and then becomes the memory. *)
(* The file is overwritten in place: it is empty before it is written, and    *)
(* stays so, or half written, when the write fails.                          *)
(***************************************************************************)
EXTENDS Naturals, Sequences, FiniteSets

CONSTANTS
  Key,       \* the settings
  Value,     \* what they may be
  Default,   \* the setting a backend without a readable file starts with
  EngineKey, \* the settings the engines of the pets have a copy of
  Edit       \* bound: the requests for changes, in the order they are made

ASSUME SettingsHaveValues ==
  /\ {"Volume", "Scale"} \subseteq Key /\ "Scale" \in EngineKey
  /\ EngineKey \subseteq Key \ {"Volume"} /\ Default \in [Key -> Value]
  /\ IsFiniteSet(Edit) /\ Edit \subseteq Nat \ {0}

VARIABLES
  up,       \* whether the backend runs
  memory,
  file,     \* Whole(settings), Empty, or Mixed, which cannot be read either
  engines,
  lock,     \* the request that holds it, or 0
  job,      \* of each request: what it is for and how far it is
  upset,    \* history: settings changed by requests that got in each other's way
  clash     \* history: a write overlapped one without the lock, none came since

service == <<up, memory, file, engines, lock, job, upset, clash>>

Whole(settings) == <<settings>>
Empty == << >>
Mixed == <<"parts of", "writes">>

NoJob == [at |-> "none"]

Active == {e \in Edit : job[e].at \in {"asked", "changed", "copied", "writing"}}

\* The requests that have read or written the settings and are not done.
Amid == {e \in Active : job[e].at # "asked"}

ServiceInit ==
  /\ up = TRUE /\ memory = Default /\ file = Whole(Default)
  /\ engines = [k \in EngineKey |-> Default[k]]
  /\ lock = 0 /\ job = [e \in Edit |-> NoJob]
  /\ upset = {} /\ clash = FALSE

Ask(e, k, v) == job' = [job EXCEPT ![e] = [at |-> "asked", key |-> k, value |-> v]]

\* e begins: what overlaps it while one of them has no lock is upset.
Begins(e) ==
  LET overlap == {d \in Amid : "Volume" \in {job[d].key, job[e].key}}
  IN  /\ upset' = IF overlap = {} THEN upset ELSE upset \cup {job[d].key : d \in overlap \cup {e}}
      /\ clash' = (clash \/ overlap # {})

ChangeVolume(e) ==
  /\ job[e].at = "asked" /\ job[e].key = "Volume" /\ Begins(e)
  /\ memory' = [memory EXCEPT !["Volume"] = job[e].value]
  /\ job' = [job EXCEPT ![e].at = "changed"]
  /\ UNCHANGED <<up, file, engines, lock>>

\* Mutant of ChangeScale: it does not take the lock, either.
ChangeScaleUnlocked(e) ==
  /\ job[e].at = "asked" /\ job[e].key = "Scale" /\ Begins(e)
  /\ memory' = [memory EXCEPT !["Scale"] = job[e].value]
  /\ engines' = [engines EXCEPT !["Scale"] = job[e].value]
  /\ job' = [job EXCEPT ![e].at = "changed"]
  /\ UNCHANGED <<up, file, lock>>

\* Mutant of ChangeScale: the engines are left alone.
ChangeScaleOnly(e) ==
  /\ job[e].at = "asked" /\ job[e].key = "Scale" /\ lock = 0 /\ Begins(e)
  /\ memory' = [memory EXCEPT !["Scale"] = job[e].value]
  /\ lock' = e /\ job' = [job EXCEPT ![e].at = "changed"]
  /\ UNCHANGED <<up, file, engines>>

ChangeScale(e) ==
  /\ job[e].at = "asked" /\ job[e].key = "Scale" /\ lock = 0 /\ Begins(e)
  /\ memory' = [memory EXCEPT !["Scale"] = job[e].value]
  /\ engines' = [engines EXCEPT !["Scale"] = job[e].value]
  /\ lock' = e /\ job' = [job EXCEPT ![e].at = "changed"]
  /\ UNCHANGED <<up, file>>

CopySettings(e) ==
  /\ job[e].at = "asked" /\ job[e].key \notin {"Volume", "Scale"}
  /\ lock = 0 /\ Begins(e)
  /\ lock' = e
  /\ job' = [job EXCEPT ![e] = [at |-> "copied", key |-> @.key, value |-> @.value,
                                data |-> [memory EXCEPT ![job[e].key] = job[e].value]]]
  /\ UNCHANGED <<up, memory, file, engines>>

\* Save begins: the file is emptied, for what memory or the copy holds now.
Truncate(e) ==
  /\ job[e].at \in {"changed", "copied"}
  /\ file' = Empty /\ clash' = (clash /\ Amid # {e})
  /\ job' = [job EXCEPT ![e] = [at |-> "writing", key |-> @.key, value |-> @.value,
               commits |-> @.at = "copied",
               data |-> IF @.at = "copied" THEN @.data ELSE memory]]
  /\ UNCHANGED <<up, memory, engines, lock, upset>>

\* Mutant of Released: the lock is kept when the save has failed.
ReleasedOnSuccess(e, result) ==
  lock' = IF lock = e /\ result = "done" THEN 0 ELSE lock

Released(e, result) == lock' = IF lock = e THEN 0 ELSE lock

Ends(e, result) ==
  /\ job' = [job EXCEPT ![e] = [at |-> result, key |-> @.key, value |-> @.value]]
  /\ Released(e, result)

\* What is written over an emptied file is the file; over what another has written
\* meanwhile it may leave that one's rest behind.
Written(e) ==
  file' \in IF file = Empty THEN {Whole(job[e].data)} ELSE {Whole(job[e].data), Mixed}

Write(e) ==
  /\ job[e].at = "writing" /\ Written(e)
  /\ IF job[e].commits
     THEN /\ memory' = job[e].data
          /\ engines' = [k \in EngineKey |->
               IF job[e].data[k] # memory[k] THEN job[e].data[k] ELSE engines[k]]
     ELSE UNCHANGED <<memory, engines>>
  /\ Ends(e, "done")
  /\ UNCHANGED <<up, upset, clash>>

\* The file cannot be opened: nothing has happened to it.
SaveFails(e) ==
  /\ job[e].at \in {"changed", "copied"} /\ Ends(e, "failed")
  /\ UNCHANGED <<up, memory, file, engines, upset, clash>>

\* The disk is full: of what was to be written nothing is in the file, or a part.
WriteFails(e) ==
  /\ job[e].at = "writing" /\ file' \in {file, Mixed} /\ Ends(e, "torn")
  /\ UNCHANGED <<up, memory, engines, upset, clash>>

\* The file is written, but to close it, or to change its mode, fails.
ChmodFails(e) ==
  /\ job[e].at = "writing" /\ Written(e) /\ Ends(e, "failed")
  /\ UNCHANGED <<up, memory, engines, upset, clash>>

Crash ==
  /\ up /\ up' = FALSE /\ lock' = 0
  /\ job' = [e \in Edit |->
       IF e \notin Active THEN job[e]
       ELSE [at |-> IF job[e].at = "writing" THEN "torn" ELSE "failed",
             key |-> job[e].key, value |-> job[e].value]]
  /\ UNCHANGED <<memory, file, engines, upset, clash>>

\* A file that cannot be read is taken for the defaults, without a word.
Loaded == IF Len(file) = 1 THEN file[1] ELSE Default

Restart ==
  /\ ~up /\ up' = TRUE /\ memory' = Loaded
  /\ engines' = [k \in EngineKey |-> Loaded[k]]
  /\ upset' = upset \cup {k \in Key : memory[k] # Loaded[k]}
  /\ UNCHANGED <<file, lock, job, clash>>

Change(e) == ChangeVolume(e) \/ ChangeScale(e) \/ CopySettings(e)

Save(e) == Truncate(e) \/ Write(e) \/ SaveFails(e) \/ WriteFails(e) \/ ChmodFails(e)

Serve(e) == Change(e) \/ Save(e)

\* What a request carries.  One has failed, too, when the backend died with it; it is
\* torn when that happened over the emptied file.
Job ==
  {NoJob}
  \cup [at : {"asked", "changed", "done", "failed", "torn"}, key : Key, value : Value]
  \cup [at : {"copied"}, key : Key, value : Value, data : [Key -> Value]]
  \cup [at : {"writing"}, key : Key, value : Value, commits : BOOLEAN,
        data : [Key -> Value]]

ServiceTypeOK ==
  /\ up \in BOOLEAN /\ clash \in BOOLEAN /\ upset \subseteq Key
  /\ memory \in [Key -> Value] /\ engines \in [EngineKey -> Value]
  /\ file \in {Empty, Mixed} \cup {Whole(settings) : settings \in [Key -> Value]}
  /\ lock \in Edit \cup {0} /\ job \in [Edit -> Job]
=============================================================================
