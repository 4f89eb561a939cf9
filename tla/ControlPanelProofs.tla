------------------------- MODULE ControlPanelProofs -------------------------
(***************************************************************************)
(* The control panel, the main process and the settings of the backend, for  *)
(* every set of settings and values, every number of requests and crashes.   *)
(* The inductive invariant has three layers.  ServiceInv is about the        *)
(* backend alone: who is amid a change, who holds the lock, what a write      *)
(* finds in the file.  PanelInv adds what the panel and the calls do.        *)
(* Agreed is about one setting nothing got in the way of: what the request   *)
(* for it, if there is one, has done so far.                                 *)
(***************************************************************************)
EXTENDS ControlPanel, TLAPS

\* Request d replaces the memory by its copy when it is written.
Copies(d) == job[d].at = "copied" \/ (job[d].at = "writing" /\ job[d].commits)

\* What each request is amid goes with the setting it is for.
JobsFit ==
  \A e \in Edit :
    /\ job[e].at = "changed" => job[e].key \in {"Volume", "Scale"}
    /\ job[e].at = "writing" /\ ~Copies(e) => job[e].key \in {"Volume", "Scale"}
    /\ Copies(e) => job[e].key \notin {"Volume", "Scale"}

\* Nothing is served by a backend that does not run.
Down == ~up => Active = {}

\* Whoever is amid a change of a setting other than the volume holds the lock.
LockHolds ==
  /\ lock # 0 => lock \in Amid /\ job[lock].key # "Volume"
  /\ \A e \in Amid : job[e].key # "Volume" => lock = e

\* Two are amid a change only when they clash.
Alone == ~clash => \A d, e \in Amid : d = e

EnginesSame == \A k \in EngineKey : engines[k] = memory[k]

\* Whoever writes, and clashes with nobody, finds the file as it emptied it.
WritesEmptied ==
  ~clash => \A e \in Edit :
    job[e].at = "writing" => file = Empty /\ (~Copies(e) => job[e].data = memory)

ServiceInv ==
  /\ ServiceTypeOK /\ JobsFit /\ Down /\ LockHolds /\ Alone
  /\ EnginesSame /\ WritesEmptied /\ FileReadable

\* A request is there from when it is called.
CallsMatch == \A e \in Edit : call[e] = "none" <=> job[e].at = "none"

\* A panel that is not open has nothing; one that waits for the settings has none.
PanelFresh ==
  /\ loaded => open
  /\ answer # << >> => open /\ ~loaded

\* A request given up while it is served has its setting upset.
Orphans == \A e \in Active : call[e] = "pending" \/ job[e].key \in upset

PanelInv ==
  /\ ServiceInv /\ TypeOK /\ CallsMatch /\ PanelFresh /\ Orphans /\ SizeFollowsContent

-----------------------------------------------------------------------------
\* One setting nothing got in the way of

\* At most one request for it is under way.
Single(k) == \A d, e \in Outstanding(k) : d = e

\* Settings on their way to the panel were read when none was.
AnswerHolds(k) == answer # << >> => Outstanding(k) = {} /\ answer[1][k] = memory[k]

ShownHolds(k) ==
  loaded => /\ Outstanding(k) = {} => shown[k] = memory[k]
            /\ \A e \in Outstanding(k) : shown[k] = job[e].value

LocalHolds(k) == k \in Local /\ Outstanding(k) = {} => local[k] = memory[k]

\* The request for it has changed the memory, or its copy.
ChangeHolds(k) ==
  \A e \in Outstanding(k) :
    /\ job[e].at \in {"changed", "done"} \/ (job[e].at = "writing" /\ ~Copies(e))
         => memory[k] = job[e].value
    /\ Copies(e) => job[e].data[k] = job[e].value

\* The copy of a request for another setting has it as the memory does, unless a
\* request for it has yet to begin.
CopyHolds(k) ==
  \A d \in Edit :
    Copies(d) /\ job[d].key # k
      => job[d].data[k] = memory[k] \/ \E e \in Outstanding(k) : job[e].at = "asked"

\* The file has it as the memory does, unless a request for it has yet to write.
FileHolds(k) ==
  ~clash /\ Len(file) = 1 /\ (\A e \in Outstanding(k) : job[e].at = "done")
    => file[1][k] = memory[k]

Agreed(k) ==
  /\ Single(k) /\ AnswerHolds(k) /\ ShownHolds(k) /\ LocalHolds(k)
  /\ ChangeHolds(k) /\ CopyHolds(k) /\ FileHolds(k)

AllAgreed == \A k \in Key \ upset : Agreed(k)

-----------------------------------------------------------------------------
\* What a step does to the requests

\* Request e goes on to what is named; it stays for the same setting and value.
Becomes(e, at) ==
  /\ job' \in [Edit -> Job]
  /\ job'[e].at = at /\ job'[e].key = job[e].key /\ job'[e].value = job[e].value
  /\ \A d \in Edit : d # e => job'[d] = job[d]

\* A request that was made has a setting and a value, one that copies or writes
\* has settings, one that writes knows whether they become the memory.
LEMMA JobFields ==
  ASSUME ServiceTypeOK, NEW e \in Edit, job[e].at # "none"
  PROVE  /\ job[e].key \in Key /\ job[e].value \in Value
         /\ job[e].at \in {"copied", "writing"} => job[e].data \in [Key -> Value]
         /\ job[e].at = "writing" => job[e].commits \in BOOLEAN
BY DEF ServiceTypeOK, Job, NoJob

\* A request is nothing, or asked for, under way, or over.
LEMMA JobAt ==
  ASSUME ServiceTypeOK, NEW e \in Edit
  PROVE  job[e].at \in {"none", "asked", "changed", "copied", "writing",
                        "done", "failed", "torn"}
BY DEF ServiceTypeOK, Job, NoJob

\* A change of the volume or of the scale.
LEMMA ChangedDoes ==
  ASSUME ServiceTypeOK, NEW e \in Edit, job[e].at = "asked",
         job' = [job EXCEPT ![e].at = "changed"]
  PROVE  Becomes(e, "changed")
<1>1. /\ job \in [Edit -> Job] /\ job[e].key \in Key /\ job[e].value \in Value
  BY JobFields DEF ServiceTypeOK
<1>2. job[e] = [at |-> "asked", key |-> job[e].key, value |-> job[e].value]
  BY <1>1 DEF Job, NoJob
<1>3. job'[e] = [at |-> "changed", key |-> job[e].key, value |-> job[e].value]
  BY <1>1, <1>2
<1>4. job'[e] \in Job
  BY <1>1, <1>3 DEF Job
<1>5. job' \in [Edit -> Job]
  BY <1>1, <1>4
<1> QED
  BY <1>1, <1>3, <1>5 DEF Becomes

\* A change of another setting is made to a copy.
LEMMA CopiedDoes ==
  ASSUME ServiceTypeOK, SettingsHaveValues, NEW e \in Edit, CopySettings(e)
  PROVE  /\ Becomes(e, "copied")
         /\ job'[e].data = [memory EXCEPT ![job[e].key] = job[e].value]
<1>1. /\ job \in [Edit -> Job] /\ job[e].key \in Key /\ job[e].value \in Value
      /\ memory \in [Key -> Value]
  BY JobFields DEF ServiceTypeOK, CopySettings
<1> DEFINE data == [memory EXCEPT ![job[e].key] = job[e].value]
<1>2. data \in [Key -> Value]
  BY <1>1
<1>3. job'[e] = [at |-> "copied", key |-> job[e].key, value |-> job[e].value, data |-> data]
  BY <1>1 DEF CopySettings
<1>4. \A d \in Edit : d # e => job'[d] = job[d]
  BY <1>1 DEF CopySettings
<1> HIDE DEF data
<1>5. job'[e] \in Job
  BY <1>1, <1>2, <1>3 DEF Job
<1>6. job' \in [Edit -> Job]
  BY <1>1, <1>5 DEF CopySettings
<1>7. Becomes(e, "copied") /\ job'[e].data = data
  BY <1>1, <1>3, <1>4, <1>6 DEF Becomes
<1> QED
  BY <1>7 DEF data

\* A save begins: of the copy, if there is one.
LEMMA TruncateDoes ==
  ASSUME ServiceTypeOK, NEW e \in Edit, Truncate(e)
  PROVE  /\ Becomes(e, "writing")
         /\ job'[e].commits <=> job[e].at = "copied"
         /\ job'[e].data = IF job[e].at = "copied" THEN job[e].data ELSE memory
<1>1. /\ job \in [Edit -> Job] /\ job[e].key \in Key /\ job[e].value \in Value
      /\ memory \in [Key -> Value]
      /\ job[e].at = "copied" => job[e].data \in [Key -> Value]
  BY JobFields DEF ServiceTypeOK, Truncate
<1> DEFINE data == IF job[e].at = "copied" THEN job[e].data ELSE memory
<1> DEFINE commits == job[e].at = "copied"
<1>2. data \in [Key -> Value] /\ commits \in BOOLEAN
  BY <1>1
<1>3. job'[e] = [at |-> "writing", key |-> job[e].key, value |-> job[e].value,
                 commits |-> commits, data |-> data]
  BY <1>1 DEF Truncate
<1>4. \A d \in Edit : d # e => job'[d] = job[d]
  BY <1>1 DEF Truncate
<1> HIDE DEF data, commits
<1>5. job'[e] \in Job
  BY <1>1, <1>2, <1>3 DEF Job
<1>6. job' \in [Edit -> Job]
  BY <1>1, <1>5 DEF Truncate
<1>7. Becomes(e, "writing") /\ job'[e].data = data /\ job'[e].commits = commits
  BY <1>1, <1>3, <1>4, <1>6 DEF Becomes
<1> QED
  BY <1>7 DEF data, commits

\* A request ends, done, failed or torn; it gives the lock back.
LEMMA EndsDoes ==
  ASSUME ServiceTypeOK, NEW e \in Edit, NEW result \in {"done", "failed", "torn"},
         job[e].at # "none", Ends(e, result)
  PROVE  Becomes(e, result) /\ lock' = IF lock = e THEN 0 ELSE lock
<1>1. /\ job \in [Edit -> Job] /\ job[e].key \in Key /\ job[e].value \in Value
  BY JobFields DEF ServiceTypeOK
<1>2. job'[e] = [at |-> result, key |-> job[e].key, value |-> job[e].value]
  BY <1>1 DEF Ends
<1>3. \A d \in Edit : d # e => job'[d] = job[d]
  BY <1>1 DEF Ends
<1>4. job'[e] \in Job
  BY <1>1, <1>2 DEF Job
<1>5. job' \in [Edit -> Job]
  BY <1>1, <1>4 DEF Ends
<1> QED
  BY <1>2, <1>3, <1>5 DEF Becomes, Ends, Released

\* A crash kills every request the backend serves, and changes no other.
LEMMA CrashDoes ==
  ASSUME ServiceTypeOK, Crash
  PROVE  /\ job' \in [Edit -> Job]
         /\ \A e \in Active : /\ job'[e].at = IF job[e].at = "writing" THEN "torn" ELSE "failed"
                              /\ job'[e].key = job[e].key /\ job'[e].value = job[e].value
         /\ \A e \in Edit \ Active : job'[e] = job[e]
<1>1. job \in [Edit -> Job] /\ Active \subseteq Edit
  BY DEF ServiceTypeOK, Active
<1> DEFINE end(e) == [at |-> IF job[e].at = "writing" THEN "torn" ELSE "failed",
                      key |-> job[e].key, value |-> job[e].value]
<1>2. job' = [e \in Edit |-> IF e \notin Active THEN job[e] ELSE end(e)]
  BY DEF Crash
<1>3. ASSUME NEW e \in Active PROVE end(e) \in Job
  <2>1. job[e].at # "none"
    BY DEF Active
  <2>2. job[e].key \in Key /\ job[e].value \in Value
    BY <1>1, <2>1, JobFields
  <2> QED
    BY <2>2 DEF Job
<1>4. \A e \in Edit : job'[e] = IF e \notin Active THEN job[e] ELSE end(e)
  BY <1>2
<1>5. \A e \in Edit : job'[e] \in Job
  BY <1>1, <1>3, <1>4
<1>6. job' \in [Edit -> Job]
  BY <1>2, <1>5
<1> QED
  BY <1>1, <1>4, <1>6

-----------------------------------------------------------------------------
\* The backend

\* Who is served, who is amid a change and who copies, when one request goes on.
LEMMA BecomesAmid ==
  ASSUME NEW e \in Edit, NEW at, Becomes(e, at)
  PROVE  /\ \A d \in Edit : d # e => /\ d \in Active' <=> d \in Active
                                     /\ d \in Amid' <=> d \in Amid
                                     /\ Copies(d)' <=> Copies(d)
         /\ e \in Active' <=> at \in {"asked", "changed", "copied", "writing"}
         /\ e \in Amid' <=> at \in {"changed", "copied", "writing"}
         /\ Active' \subseteq Active \cup {e} /\ Amid' \subseteq Amid \cup {e}
<1>1. \A d \in Edit : d # e => job'[d] = job[d]
  BY DEF Becomes
<1>2. job'[e].at = at
  BY DEF Becomes
<1>3. ASSUME NEW d \in Edit, d # e
      PROVE  /\ d \in Active' <=> d \in Active
             /\ d \in Amid' <=> d \in Amid
             /\ Copies(d)' <=> Copies(d)
  <2>1. job'[d] = job[d]
    BY <1>1, <1>3
  <2>2. d \in Active' <=> d \in Active
    BY <2>1 DEF Active
  <2>3. d \in Amid' <=> d \in Amid
    BY <2>1, <2>2 DEF Amid
  <2> QED
    BY <2>1, <2>2, <2>3 DEF Copies
<1>4. e \in Active' <=> at \in {"asked", "changed", "copied", "writing"}
  BY <1>2 DEF Active
<1>5. e \in Amid' <=> at \in {"changed", "copied", "writing"}
  BY <1>2, <1>4 DEF Amid
<1>6. Active' \subseteq Edit /\ Amid' \subseteq Edit
  BY DEF Active, Amid
<1> QED
  BY <1>3, <1>4, <1>5, <1>6

\* Where a file can be read, it holds settings.
LEMMA FileKinds ==
  /\ Len(Empty) = 0 /\ Len(Mixed) = 2
  /\ \A settings : Len(Whole(settings)) = 1 /\ Whole(settings)[1] = settings
<1>1. Len(Empty) = 0 /\ Len(Mixed) = 2
  BY DEF Empty, Mixed
<1>2. ASSUME NEW settings PROVE Len(Whole(settings)) = 1 /\ Whole(settings)[1] = settings
  BY DEF Whole
<1> QED
  BY <1>1, <1>2

\* Who is amid a change is served, and served requests are requests.
LEMMA AmidActive ==
  /\ Amid \subseteq Active /\ Active \subseteq Edit
  /\ \A e \in Amid : job[e].at \in {"changed", "copied", "writing"}
BY DEF Active, Amid

\* A change that upsets nobody begins alone: one of the volume because it meets
\* nobody, any other because the lock was free and it meets no change of the volume.
LEMMA BeginsAlone ==
  ASSUME ServiceInv, SettingsHaveValues, NEW e \in Edit, Begins(e),
         job[e].key = "Volume" \/ lock = 0
  PROVE  /\ ~clash' => Amid = {} /\ ~clash
         /\ job[e].key \notin upset' => Amid = {}
         /\ upset \subseteq upset' /\ (clash => clash')
         /\ upset' \in SUBSET Key \/ \E d \in Amid \cup {e} : job[d].key \notin Key
<1> DEFINE overlap == {d \in Amid : "Volume" \in {job[d].key, job[e].key}}
<1>1. /\ upset' = IF overlap = {} THEN upset ELSE upset \cup {job[d].key : d \in overlap \cup {e}}
      /\ clash' = (clash \/ overlap # {})
  BY DEF Begins
<1>2. overlap = {} => Amid = {}
  <2>1. SUFFICES ASSUME overlap = {}, NEW d \in Amid PROVE FALSE
    OBVIOUS
  <2>2. job[e].key # "Volume" /\ job[d].key # "Volume"
    BY <2>1
  <2>3. lock = 0 /\ lock = d
    BY <2>2 DEF ServiceInv, LockHolds
  <2>4. d \in Nat \ {0}
    BY AmidActive, SettingsHaveValues DEF SettingsHaveValues
  <2> QED
    BY <2>3, <2>4
<1>3. overlap \subseteq Amid
  OBVIOUS
<1>4. upset \subseteq Key
  BY DEF ServiceInv, ServiceTypeOK
<1> HIDE DEF overlap
<1>5. overlap # {} => job[e].key \in upset'
  BY <1>1
<1>6. upset \subseteq upset'
  BY <1>1
<1>7. (\A d \in Amid \cup {e} : job[d].key \in Key) => upset' \in SUBSET Key
  BY <1>1, <1>3, <1>4
<1> QED
  BY <1>1, <1>2, <1>5, <1>6, <1>7

\* The settings a request begins with are of the right kind.
LEMMA BeginsTyped ==
  ASSUME ServiceInv, SettingsHaveValues, NEW e \in Edit, Begins(e), job[e].at = "asked",
         job[e].key = "Volume" \/ lock = 0
  PROVE  upset' \in SUBSET Key /\ clash' \in BOOLEAN
<1>1. \A d \in Amid \cup {e} : job[d].key \in Key
  <2>1. \A d \in Amid \cup {e} : d \in Edit /\ job[d].at # "none"
    BY AmidActive
  <2> QED
    BY <2>1, JobFields DEF ServiceInv
<1>2. clash' \in BOOLEAN
  BY DEF Begins
<1> QED
  BY <1>1, <1>2, BeginsAlone

\* A change of the volume: without the lock, whoever else is amid a change.
LEMMA VolumeKeeps ==
  ASSUME ServiceInv, SettingsHaveValues, NEW e \in Edit, ChangeVolume(e)
  PROVE  ServiceInv'
<1> USE DEF ServiceInv
<1>1. /\ job[e].at = "asked" /\ job[e].key = "Volume" /\ Begins(e)
      /\ memory' = [memory EXCEPT !["Volume"] = job[e].value]
      /\ up' = up /\ file' = file /\ engines' = engines /\ lock' = lock
  BY DEF ChangeVolume
<1>2. Becomes(e, "changed") /\ e \in Active /\ e \notin Amid
  BY ChangedDoes DEF ChangeVolume, Active, Amid
<1>3. job[e].key \in Key /\ job[e].value \in Value
  BY <1>1, JobFields
<1>4. upset' \in SUBSET Key /\ clash' \in BOOLEAN
  BY <1>1, BeginsTyped
<1>5. ~clash' => Amid = {} /\ ~clash
  BY <1>1, BeginsAlone
<1>6. /\ memory' \in [Key -> Value]
      /\ \A k \in Key \ {"Volume"} : memory'[k] = memory[k]
  BY <1>1, <1>3 DEF ServiceTypeOK
<1>7. ServiceTypeOK'
  BY <1>1, <1>2, <1>4, <1>6 DEF ServiceTypeOK, Becomes
<1>8. JobsFit'
  BY <1>1, <1>2, BecomesAmid DEF JobsFit, Becomes, Copies
<1>9. Down'
  BY <1>1, <1>2 DEF Down
<1>10. LockHolds'
  <2>1. \A d \in Amid' : d # e => d \in Amid /\ job'[d] = job[d]
    BY <1>2, BecomesAmid, AmidActive DEF Becomes
  <2>2. job'[e].key = "Volume"
    BY <1>1, <1>2 DEF Becomes
  <2>3. lock # 0 => lock \in Amid' /\ job'[lock].key # "Volume"
    <3>1. lock # 0 => lock \in Amid /\ lock \in Edit /\ lock # e
      BY <1>2, AmidActive DEF LockHolds
    <3>2. lock # 0 => job'[lock] = job[lock]
      BY <3>1, <1>2 DEF Becomes
    <3>3. lock # 0 => lock \in Amid'
      BY <3>1, <1>2, BecomesAmid
    <3> QED
      BY <3>2, <3>3 DEF LockHolds
  <2> QED
    BY <1>1, <2>1, <2>2, <2>3 DEF LockHolds
<1>11. Alone'
  BY <1>2, <1>5, BecomesAmid DEF Alone
<1>12. EnginesSame'
  BY <1>1, <1>6 DEF EnginesSame, SettingsHaveValues
<1>13. WritesEmptied'
  BY <1>1, <1>2, <1>5, BecomesAmid DEF WritesEmptied, Becomes, Amid, Active
<1>14. FileReadable'
  BY <1>1, <1>2, <1>5 DEF FileReadable, Becomes
<1> QED
  BY <1>7, <1>8, <1>9, <1>10, <1>11, <1>12, <1>13, <1>14

\* A change of the scale: with the lock, in the memory and in the engines.
LEMMA ScaleKeeps ==
  ASSUME ServiceInv, SettingsHaveValues, NEW e \in Edit, ChangeScale(e)
  PROVE  ServiceInv'
<1> USE DEF ServiceInv
<1>1. /\ job[e].at = "asked" /\ job[e].key = "Scale" /\ Begins(e) /\ lock = 0
      /\ memory' = [memory EXCEPT !["Scale"] = job[e].value]
      /\ engines' = [engines EXCEPT !["Scale"] = job[e].value]
      /\ up' = up /\ file' = file /\ lock' = e
  BY DEF ChangeScale
<1>2. Becomes(e, "changed") /\ e \in Active /\ e \notin Amid
  BY ChangedDoes DEF ChangeScale, Active, Amid
<1>3. job[e].key \in Key /\ job[e].value \in Value
  BY <1>1, JobFields
<1>4. upset' \in SUBSET Key /\ clash' \in BOOLEAN
  BY <1>1, BeginsTyped
<1>5. ~clash' => Amid = {} /\ ~clash
  BY <1>1, BeginsAlone
<1>6. /\ memory' \in [Key -> Value] /\ engines' \in [EngineKey -> Value]
      /\ memory'["Scale"] = job[e].value /\ engines'["Scale"] = job[e].value
      /\ \A k \in Key \ {"Scale"} : memory'[k] = memory[k]
      /\ \A k \in EngineKey \ {"Scale"} : engines'[k] = engines[k]
  BY <1>1, <1>3 DEF ServiceTypeOK, SettingsHaveValues
<1>7. ServiceTypeOK'
  BY <1>1, <1>2, <1>4, <1>6 DEF ServiceTypeOK, Becomes
<1>8. JobsFit'
  BY <1>1, <1>2, BecomesAmid DEF JobsFit, Becomes, Copies
<1>9. Down'
  BY <1>1, <1>2 DEF Down
<1>10. \A d \in Amid : job[d].key = "Volume"
  BY <1>1, AmidActive, SettingsHaveValues DEF LockHolds, SettingsHaveValues
<1>11. LockHolds'
  <2>1. \A d \in Amid' : d # e => d \in Amid /\ job'[d] = job[d]
    BY <1>2, BecomesAmid, AmidActive DEF Becomes
  <2>2. e \in Amid' /\ job'[e].key # "Volume"
    BY <1>1, <1>2, BecomesAmid DEF Becomes
  <2> QED
    BY <1>1, <1>10, <2>1, <2>2 DEF LockHolds
<1>12. Alone'
  BY <1>2, <1>5, BecomesAmid DEF Alone
<1>13. EnginesSame'
  BY <1>6 DEF EnginesSame, SettingsHaveValues
<1>14. WritesEmptied'
  BY <1>1, <1>2, <1>5, BecomesAmid DEF WritesEmptied, Becomes, Amid, Active
<1>15. FileReadable'
  BY <1>1, <1>2, <1>5 DEF FileReadable, Becomes
<1> QED
  BY <1>7, <1>8, <1>9, <1>11, <1>12, <1>13, <1>14, <1>15

\* A change of another setting: with the lock, in a copy.
LEMMA CopyKeeps ==
  ASSUME ServiceInv, SettingsHaveValues, NEW e \in Edit, CopySettings(e)
  PROVE  ServiceInv'
<1> USE DEF ServiceInv
<1>1. /\ job[e].at = "asked" /\ job[e].key \notin {"Volume", "Scale"}
      /\ Begins(e) /\ lock = 0
      /\ up' = up /\ memory' = memory /\ file' = file /\ engines' = engines /\ lock' = e
  BY DEF CopySettings
<1>2. Becomes(e, "copied") /\ e \in Active /\ e \notin Amid
  BY CopiedDoes DEF CopySettings, Active, Amid
<1>4. upset' \in SUBSET Key /\ clash' \in BOOLEAN
  BY <1>1, BeginsTyped
<1>5. ~clash' => Amid = {} /\ ~clash
  BY <1>1, BeginsAlone
<1>7. ServiceTypeOK'
  BY <1>1, <1>2, <1>4 DEF ServiceTypeOK, Becomes
<1>8. JobsFit'
  BY <1>1, <1>2, BecomesAmid DEF JobsFit, Becomes, Copies
<1>9. Down'
  BY <1>1, <1>2 DEF Down
<1>10. \A d \in Amid : job[d].key = "Volume"
  BY <1>1, AmidActive, SettingsHaveValues DEF LockHolds, SettingsHaveValues
<1>11. LockHolds'
  <2>1. \A d \in Amid' : d # e => d \in Amid /\ job'[d] = job[d]
    BY <1>2, BecomesAmid, AmidActive DEF Becomes
  <2>2. e \in Amid' /\ job'[e].key # "Volume"
    BY <1>1, <1>2, BecomesAmid DEF Becomes
  <2> QED
    BY <1>1, <1>10, <2>1, <2>2 DEF LockHolds
<1>12. Alone'
  BY <1>2, <1>5, BecomesAmid DEF Alone
<1>13. EnginesSame'
  BY <1>1 DEF EnginesSame
<1>14. WritesEmptied'
  BY <1>1, <1>2, <1>5, BecomesAmid DEF WritesEmptied, Becomes, Amid, Active
<1>15. FileReadable'
  BY <1>1, <1>2, <1>5 DEF FileReadable, Becomes
<1> QED
  BY <1>7, <1>8, <1>9, <1>11, <1>12, <1>13, <1>14, <1>15

\* A save begins by emptying the file; where it is alone, a clash is over.
LEMMA TruncateKeeps ==
  ASSUME ServiceInv, SettingsHaveValues, NEW e \in Edit, Truncate(e)
  PROVE  ServiceInv'
<1> USE DEF ServiceInv
<1>1. /\ job[e].at \in {"changed", "copied"} /\ file' = Empty
      /\ clash' = (clash /\ Amid # {e})
      /\ up' = up /\ memory' = memory /\ engines' = engines /\ lock' = lock /\ upset' = upset
  BY DEF Truncate
<1>2. e \in Active /\ e \in Amid
  BY <1>1 DEF Active, Amid
<1>3. /\ Becomes(e, "writing")
      /\ job'[e].commits <=> job[e].at = "copied"
      /\ job'[e].data = IF job[e].at = "copied" THEN job[e].data ELSE memory
  BY TruncateDoes
<1>4. Copies(e)' <=> Copies(e)
  <2>1. job'[e].at = "writing"
    BY <1>3 DEF Becomes
  <2> QED
    BY <1>1, <1>3, <2>1 DEF Copies
<1>5. Amid' = Amid /\ Active' = Active
  <2>1. e \in Active' /\ e \in Amid'
    BY <1>3, BecomesAmid
  <2>2. \A d \in Edit : d # e => (d \in Active' <=> d \in Active) /\ (d \in Amid' <=> d \in Amid)
    BY <1>3, BecomesAmid
  <2>3. Active \subseteq Edit /\ Amid \subseteq Edit /\ Active' \subseteq Edit /\ Amid' \subseteq Edit
    BY DEF Active, Amid
  <2>4. \A d \in Edit : (d \in Active' <=> d \in Active) /\ (d \in Amid' <=> d \in Amid)
    BY <1>2, <2>1, <2>2
  <2>5. Active' = Active
    BY <2>3, <2>4
  <2>6. Amid' = Amid
    BY <2>3, <2>4
  <2> QED
    BY <2>5, <2>6
<1>6. clash' \in BOOLEAN /\ (~clash' => Amid = {e})
  BY <1>1, <1>2 DEF Alone, ServiceTypeOK
<1>7. ServiceTypeOK'
  BY <1>1, <1>3, <1>6 DEF ServiceTypeOK, Becomes
<1>8. JobsFit'
  <2>1. \A d \in Edit : d # e => job'[d] = job[d] /\ (Copies(d)' <=> Copies(d))
    BY <1>3, BecomesAmid DEF Becomes
  <2>2. job'[e].at = "writing" /\ job'[e].key = job[e].key
    BY <1>3 DEF Becomes
  <2>3. ~Copies(e) => job[e].key \in {"Volume", "Scale"}
    BY <1>1 DEF JobsFit, Copies
  <2> QED
    BY <1>4, <2>1, <2>2, <2>3 DEF JobsFit
<1>9. Down'
  BY <1>1, <1>5 DEF Down
<1>10. \A d \in Edit : job'[d].key = job[d].key
  BY <1>3 DEF Becomes
<1>11. LockHolds'
  <2>1. \A d \in Amid' : job'[d].key # "Volume" => lock' = d
    BY <1>1, <1>5, <1>10, AmidActive DEF LockHolds
  <2>2. lock' # 0 => lock' \in Amid' /\ job'[lock'].key # "Volume"
    BY <1>1, <1>5, <1>10, AmidActive DEF LockHolds
  <2> QED
    BY <2>1, <2>2 DEF LockHolds
<1>12. Alone'
  BY <1>5, <1>6 DEF Alone
<1>13. EnginesSame'
  BY <1>1 DEF EnginesSame
<1>14. WritesEmptied'
  <2>1. SUFFICES ASSUME ~clash', NEW d \in Edit, job'[d].at = "writing"
                 PROVE  file' = Empty /\ (~Copies(d)' => job'[d].data = memory')
    BY DEF WritesEmptied
  <2>2. d \in Amid'
    BY <2>1 DEF Amid, Active
  <2>3. d = e
    BY <1>5, <1>6, <2>1, <2>2
  <2> QED
    BY <1>1, <1>3, <1>4, <2>3 DEF Copies
<1>15. FileReadable'
  BY <1>1, <1>3 DEF FileReadable, Becomes
<1> QED
  BY <1>7, <1>8, <1>9, <1>11, <1>12, <1>13, <1>14, <1>15

\* Who ends leaves nobody waiting for its lock, and nobody else amid a change who
\* has not clashed with it.
LEMMA EndsKeeps ==
  ASSUME ServiceInv, SettingsHaveValues, NEW e \in Edit,
         NEW result \in {"done", "failed", "torn"}, e \in Amid, Ends(e, result), up' = up, clash' = clash, upset' = upset
  PROVE  JobsFit' /\ Down' /\ LockHolds' /\ Alone' /\ Becomes(e, result)
<1> USE DEF ServiceInv
<1>1. Becomes(e, result) /\ lock' = IF lock = e THEN 0 ELSE lock
  BY EndsDoes, AmidActive
<1>2. Amid' = Amid \ {e} /\ Active' = Active \ {e}
  BY <1>1, BecomesAmid, AmidActive
<1>3. \A d \in Edit : d # e => job'[d] = job[d] /\ (Copies(d)' <=> Copies(d))
  BY <1>1, BecomesAmid DEF Becomes
<1>4. job'[e].at \in {"done", "failed", "torn"} /\ ~Copies(e)'
  BY <1>1 DEF Becomes, Copies
<1>5. JobsFit'
  BY <1>3, <1>4 DEF JobsFit
<1>6. Down'
  BY <1>2 DEF Down
<1>7. LockHolds'
  <2>1. \A d \in Amid' : job'[d].key # "Volume" => lock' = d
    BY <1>1, <1>2, <1>3, AmidActive DEF LockHolds
  <2>2. lock' # 0 => lock' \in Amid' /\ job'[lock'].key # "Volume"
    BY <1>1, <1>2, <1>3, AmidActive DEF LockHolds
  <2> QED
    BY <2>1, <2>2 DEF LockHolds
<1>8. Alone'
  BY <1>2 DEF Alone
<1> QED
  BY <1>1, <1>5, <1>6, <1>7, <1>8

\* What a write does to the file, the memory and the engines: where it clashes with
\* nobody the file holds what is written; a copy becomes the memory.
LEMMA WriteDoes ==
  ASSUME ServiceInv, SettingsHaveValues, NEW e \in Edit, Write(e)
  PROVE  /\ e \in Amid /\ Ends(e, "done") /\ job[e].data \in [Key -> Value]
         /\ up' = up /\ upset' = upset /\ clash' = clash
         /\ file' \in {Whole(job[e].data), Mixed}
         /\ ~clash => file' = Whole(job[e].data)
         /\ Copies(e) => memory' = job[e].data
         /\ ~Copies(e) => memory' = memory /\ (~clash => job[e].data = memory)
         /\ memory' \in [Key -> Value] /\ engines' \in [EngineKey -> Value]
         /\ \A k \in EngineKey : engines'[k] = memory'[k]
<1> USE DEF ServiceInv
<1>1. /\ job[e].at = "writing" /\ Ends(e, "done")
      /\ file' \in IF file = Empty THEN {Whole(job[e].data)} ELSE {Whole(job[e].data), Mixed}
      /\ up' = up /\ upset' = upset /\ clash' = clash
      /\ Copies(e) <=> job[e].commits
  BY DEF Write, Written, Copies
<1>2. e \in Amid
  BY <1>1 DEF Amid, Active
<1>3. job[e].data \in [Key -> Value]
  BY <1>1, JobFields
<1>4. ~clash => file = Empty /\ (~Copies(e) => job[e].data = memory)
  BY <1>1 DEF WritesEmptied
<1>5. /\ memory \in [Key -> Value] /\ engines \in [EngineKey -> Value]
      /\ EngineKey \subseteq Key /\ \A k \in EngineKey : engines[k] = memory[k]
  BY DEF ServiceTypeOK, SettingsHaveValues, EnginesSame
<1>6. CASE Copies(e)
  <2>1. /\ memory' = job[e].data
        /\ engines' = [k \in EngineKey |->
             IF job[e].data[k] # memory[k] THEN job[e].data[k] ELSE engines[k]]
    BY <1>1, <1>6 DEF Write
  <2>2. \A k \in EngineKey : engines'[k] = job[e].data[k]
    BY <1>5, <2>1
  <2>3. engines' \in [EngineKey -> Value]
    BY <1>3, <1>5, <2>1
  <2> QED
    BY <1>1, <1>2, <1>3, <1>4, <1>6, <2>1, <2>2, <2>3
<1>7. CASE ~Copies(e)
  <2>1. memory' = memory /\ engines' = engines
    BY <1>1, <1>7 DEF Write
  <2> QED
    BY <1>1, <1>2, <1>3, <1>4, <1>5, <1>7, <2>1
<1> QED
  BY <1>6, <1>7

\* The write of a request.
LEMMA WriteKeeps ==
  ASSUME ServiceInv, SettingsHaveValues, NEW e \in Edit, Write(e)
  PROVE  ServiceInv'
<1> USE DEF ServiceInv
<1>1. /\ e \in Amid /\ Ends(e, "done") /\ job[e].data \in [Key -> Value]
      /\ up' = up /\ upset' = upset /\ clash' = clash
      /\ file' \in {Whole(job[e].data), Mixed}
      /\ ~clash => file' = Whole(job[e].data)
      /\ memory' \in [Key -> Value] /\ engines' \in [EngineKey -> Value]
      /\ \A k \in EngineKey : engines'[k] = memory'[k]
  BY WriteDoes
<1>2. JobsFit' /\ Down' /\ LockHolds' /\ Alone' /\ Becomes(e, "done")
  BY <1>1, EndsKeeps
<1>3. lock' \in {0, lock}
  BY <1>1 DEF Ends, Released
<1>4. ServiceTypeOK'
  BY <1>1, <1>2, <1>3 DEF ServiceTypeOK, Becomes
<1>5. EnginesSame'
  BY <1>1 DEF EnginesSame
<1>6. WritesEmptied'
  <2>1. SUFFICES ASSUME ~clash', NEW d \in Edit, job'[d].at = "writing" PROVE FALSE
    BY DEF WritesEmptied
  <2>2. d # e /\ job'[d] = job[d]
    BY <1>2, <2>1 DEF Becomes
  <2>3. d \in Amid
    BY <2>1, <2>2 DEF Amid, Active
  <2> QED
    BY <1>1, <2>1, <2>2, <2>3 DEF Alone
<1>7. FileReadable'
  BY <1>1, FileKinds DEF FileReadable
<1> QED
  BY <1>2, <1>4, <1>5, <1>6, <1>7

\* A save that fails, before it has touched the file, over the emptied file, or after.
Fails(e) == SaveFails(e) \/ WriteFails(e) \/ ChmodFails(e)

\* A save that fails changes neither memory nor engines.  It leaves the file alone, or
\* torn, or, where it clashes with nobody, with what it has written.
LEMMA FailsDoes ==
  ASSUME ServiceInv, NEW e \in Edit, Fails(e)
  PROVE  \E result \in {"failed", "torn"} :
           /\ e \in Amid /\ Ends(e, result)
           /\ UNCHANGED <<up, memory, engines, upset, clash>>
           /\ file' \in {Empty, Mixed} \cup {Whole(settings) : settings \in [Key -> Value]}
           /\ \/ file' = file /\ job[e].at \in {"changed", "copied"}
              \/ /\ result = "torn" /\ job[e].at = "writing"
                 /\ ~clash => Len(file') # 1
              \/ /\ job[e].at = "writing" /\ job[e].data \in [Key -> Value]
                 /\ ~clash => /\ file' = Whole(job[e].data)
                              /\ ~Copies(e) => job[e].data = memory
<1> USE DEF ServiceInv
<1>1. file \in {Empty, Mixed} \cup {Whole(settings) : settings \in [Key -> Value]}
  BY DEF ServiceTypeOK
<1>2. CASE SaveFails(e)
  <2>1. /\ job[e].at \in {"changed", "copied"} /\ Ends(e, "failed") /\ file' = file
        /\ UNCHANGED <<up, memory, engines, upset, clash>>
    BY <1>2 DEF SaveFails
  <2> QED
    BY <1>1, <2>1 DEF Amid, Active
<1>3. CASE WriteFails(e)
  <2>1. /\ job[e].at = "writing" /\ Ends(e, "torn") /\ file' \in {file, Mixed}
        /\ UNCHANGED <<up, memory, engines, upset, clash>>
    BY <1>3 DEF WriteFails
  <2>2. ~clash => Len(file') # 1
    BY <2>1, FileKinds DEF WritesEmptied
  <2> QED
    BY <1>1, <2>1, <2>2 DEF Amid, Active
<1>4. CASE ChmodFails(e)
  <2>1. /\ job[e].at = "writing" /\ Ends(e, "failed")
        /\ file' \in IF file = Empty THEN {Whole(job[e].data)} ELSE {Whole(job[e].data), Mixed}
        /\ UNCHANGED <<up, memory, engines, upset, clash>>
    BY <1>4 DEF ChmodFails, Written
  <2>2. job[e].data \in [Key -> Value]
    BY <2>1, JobFields
  <2>3. ~clash => file = Empty /\ (~Copies(e) => job[e].data = memory)
    BY <2>1 DEF WritesEmptied
  <2> QED
    BY <2>1, <2>2, <2>3 DEF Amid, Active
<1> QED
  BY <1>2, <1>3, <1>4 DEF Fails

\* A save that fails.
LEMMA FailsKeeps ==
  ASSUME ServiceInv, SettingsHaveValues, NEW e \in Edit, Fails(e)
  PROVE  ServiceInv'
<1> USE DEF ServiceInv
<1>1. PICK result \in {"failed", "torn"} :
        /\ e \in Amid /\ Ends(e, result)
        /\ UNCHANGED <<up, memory, engines, upset, clash>>
        /\ file' \in {Empty, Mixed} \cup {Whole(settings) : settings \in [Key -> Value]}
        /\ \/ file' = file /\ job[e].at \in {"changed", "copied"}
           \/ result = "torn"
           \/ ~clash => file' = Whole(job[e].data)
  BY FailsDoes
<1>2. JobsFit' /\ Down' /\ LockHolds' /\ Alone' /\ Becomes(e, result)
  BY <1>1, EndsKeeps
<1>3. lock' \in {0, lock}
  BY <1>1 DEF Ends, Released
<1>4. ServiceTypeOK'
  BY <1>1, <1>2, <1>3 DEF ServiceTypeOK, Becomes
<1>5. EnginesSame'
  BY <1>1 DEF EnginesSame
<1>6. job'[e].at = result /\ \A d \in Edit : d # e => job'[d] = job[d]
  BY <1>2 DEF Becomes
<1>7. WritesEmptied'
  <2>1. SUFFICES ASSUME ~clash', NEW d \in Edit, job'[d].at = "writing" PROVE FALSE
    BY DEF WritesEmptied
  <2>2. d # e /\ job'[d] = job[d]
    BY <1>6, <2>1
  <2>3. d \in Amid
    BY <2>1, <2>2 DEF Amid, Active
  <2> QED
    BY <1>1, <2>1, <2>2, <2>3 DEF Alone
<1>8. FileReadable'
  <2>1. SUFFICES ASSUME Len(file') # 1, ~clash'
                 PROVE  \E d \in Edit : job'[d].at \in {"writing", "torn"}
    BY DEF FileReadable
  <2>2. CASE file' = file /\ job[e].at \in {"changed", "copied"}
    <3>1. PICK d \in Edit : job[d].at \in {"writing", "torn"}
      BY <1>1, <2>1, <2>2 DEF FileReadable
    <3>2. d # e
      BY <2>2, <3>1
    <3> QED
      BY <1>6, <3>1, <3>2
  <2>3. CASE result = "torn"
    BY <1>6, <2>3
  <2>4. CASE ~clash => file' = Whole(job[e].data)
    BY <1>1, <2>1, <2>4, FileKinds
  <2> QED
    BY <1>1, <2>2, <2>3, <2>4
<1> QED
  BY <1>2, <1>4, <1>5, <1>7, <1>8

\* A crash of the backend: nobody is served any more, and nobody has the lock.
LEMMA CrashKeeps ==
  ASSUME ServiceInv, SettingsHaveValues, Crash
  PROVE  ServiceInv' /\ Active' = {}
<1> USE DEF ServiceInv
<1>1. /\ up' = FALSE /\ lock' = 0 /\ memory' = memory /\ file' = file
      /\ engines' = engines /\ upset' = upset /\ clash' = clash
  BY DEF Crash
<1>2. /\ job' \in [Edit -> Job]
      /\ \A e \in Active : job'[e].at = IF job[e].at = "writing" THEN "torn" ELSE "failed"
      /\ \A e \in Edit \ Active : job'[e] = job[e]
  BY CrashDoes
<1>3. ASSUME NEW e \in Edit
      PROVE  /\ job'[e].at \in {"failed", "torn"} \/ (e \notin Active /\ job'[e] = job[e])
             /\ job'[e].at \notin {"asked", "changed", "copied", "writing"}
  BY <1>2 DEF Active
<1>4. Active' = {}
  BY <1>3 DEF Active
<1>5. Amid' = {}
  BY <1>4 DEF Amid
<1>6. ServiceTypeOK'
  <2>1. up' \in BOOLEAN
    BY <1>1
  <2> QED
    BY <1>1, <1>2, <2>1 DEF ServiceTypeOK
<1>7. JobsFit'
  BY <1>3 DEF JobsFit, Copies
<1>8. Down' /\ LockHolds' /\ Alone'
  BY <1>1, <1>4, <1>5 DEF Down, LockHolds, Alone
<1>9. EnginesSame'
  BY <1>1 DEF EnginesSame
<1>10. WritesEmptied'
  BY <1>3 DEF WritesEmptied
<1>11. FileReadable'
  <2>1. \A e \in Edit : job[e].at \in {"writing", "torn"} => job'[e].at = "torn"
    BY <1>2 DEF Active
  <2> QED
    BY <1>1, <2>1 DEF FileReadable
<1> QED
  BY <1>4, <1>6, <1>7, <1>8, <1>9, <1>10, <1>11

\* What a backend that starts has loaded.
LEMMA LoadedSettings ==
  ASSUME ServiceTypeOK, SettingsHaveValues
  PROVE  Loaded \in [Key -> Value] /\ (Len(file) = 1 => Loaded = file[1])
<1>1. ASSUME Len(file) = 1 PROVE file[1] \in [Key -> Value]
  <2>1. file \in {Whole(settings) : settings \in [Key -> Value]}
    <3>1. file # Empty /\ file # Mixed
      BY <1>1, FileKinds
    <3> QED
      BY <3>1 DEF ServiceTypeOK
  <2>2. PICK settings \in [Key -> Value] : file = Whole(settings)
    BY <2>1
  <2> QED
    BY <2>2, FileKinds
<1> QED
  BY <1>1 DEF Loaded, SettingsHaveValues

\* A backend that starts again has in its memory and its engines what it has loaded.
LEMMA RestartKeeps ==
  ASSUME ServiceInv, SettingsHaveValues, Restart
  PROVE  ServiceInv'
<1> USE DEF ServiceInv
<1>1. /\ up' = TRUE /\ memory' = Loaded /\ engines' = [k \in EngineKey |-> Loaded[k]]
      /\ upset' = upset \cup {k \in Key : memory[k] # Loaded[k]}
      /\ file' = file /\ lock' = lock /\ job' = job /\ clash' = clash /\ ~up
  BY DEF Restart
<1>2. Loaded \in [Key -> Value]
  BY LoadedSettings
<1>3. /\ engines' \in [EngineKey -> Value] /\ upset' \subseteq Key
      /\ \A k \in EngineKey : engines'[k] = Loaded[k]
  BY <1>1, <1>2 DEF ServiceTypeOK, SettingsHaveValues
<1>4. up' \in BOOLEAN
  BY <1>1
<1>5. ServiceTypeOK'
  BY <1>1, <1>2, <1>3, <1>4 DEF ServiceTypeOK
<1>6. Active = {}
  BY <1>1 DEF Down
<1>7. Amid = {} /\ Amid' = Amid /\ Active' = Active
  BY <1>1, <1>6 DEF Amid, Active
<1>8. JobsFit'
  BY <1>1 DEF JobsFit, Copies
<1>9. Down' /\ LockHolds' /\ Alone'
  BY <1>1, <1>7 DEF Down, LockHolds, Alone
<1>10. EnginesSame'
  BY <1>1, <1>3 DEF EnginesSame
<1>11. WritesEmptied'
  BY <1>1, <1>6 DEF WritesEmptied, Active
<1>12. FileReadable'
  BY <1>1 DEF FileReadable
<1> QED
  BY <1>5, <1>8, <1>9, <1>10, <1>11, <1>12

\* A request the backend has not begun, or no request, changes nothing in it.
LEMMA AskKeeps ==
  ASSUME ServiceInv, SettingsHaveValues, NEW e \in Edit, job[e].at = "none",
         NEW k \in Key, NEW v \in Value,
         job' = [job EXCEPT ![e] = [at |-> IF up THEN "asked" ELSE "failed",
                                    key |-> k, value |-> v]],
         UNCHANGED <<up, memory, file, engines, lock, clash>>, upset' \subseteq Key
  PROVE  /\ ServiceInv' /\ Amid' = Amid
         /\ Active' = IF up THEN Active \cup {e} ELSE Active
<1> USE DEF ServiceInv
<1> DEFINE at == IF up THEN "asked" ELSE "failed"
<1>1. job \in [Edit -> Job]
  BY DEF ServiceTypeOK
<1>2. /\ job'[e] = [at |-> at, key |-> k, value |-> v]
      /\ \A d \in Edit : d # e => job'[d] = job[d]
  BY <1>1
<1>3. at \in {"asked", "failed"} /\ (at = "asked" <=> up)
  OBVIOUS
<1> HIDE DEF at
<1>4. job'[e] \in Job
  BY <1>2, <1>3 DEF Job
<1>5. job' \in [Edit -> Job]
  BY <1>1, <1>4
<1>6. ServiceTypeOK'
  BY <1>5 DEF ServiceTypeOK
<1>7. job'[e].at = at
  BY <1>2
<1>8. Active' = IF up THEN Active \cup {e} ELSE Active
  BY <1>2, <1>3, <1>7 DEF Active
<1>9. Amid' = Amid /\ e \notin Amid
  BY <1>2, <1>3, <1>7, <1>8 DEF Amid, Active
<1>10. \A d \in Edit : d # e => (Copies(d)' <=> Copies(d))
  BY <1>2 DEF Copies
<1>11. ~Copies(e)'
  BY <1>3, <1>7 DEF Copies
<1>12. JobsFit'
  BY <1>2, <1>3, <1>7, <1>10, <1>11 DEF JobsFit
<1>13. Down'
  BY <1>8 DEF Down
<1>14. LockHolds'
  <2>1. \A d \in Amid : d # e /\ job'[d] = job[d]
    BY <1>2, <1>9, AmidActive
  <2> QED
    BY <1>9, <2>1 DEF LockHolds
<1>15. Alone'
  BY <1>9 DEF Alone
<1>16. EnginesSame'
  BY DEF EnginesSame
<1>17. WritesEmptied'
  BY <1>2, <1>3, <1>7, <1>10 DEF WritesEmptied
<1>18. FileReadable'
  <2>1. \A d \in Edit : job[d].at \in {"writing", "torn"} => job'[d] = job[d]
    BY <1>2
  <2> QED
    BY <2>1 DEF FileReadable
<1> QED
  BY <1>6, <1>8, <1>9, <1>12, <1>13, <1>14, <1>15, <1>16, <1>17, <1>18

\* Nothing in the backend changes.
LEMMA IdleKeeps ==
  ASSUME ServiceInv, UNCHANGED <<up, memory, file, engines, lock, job, clash>>,
         upset' \subseteq Key
  PROVE  ServiceInv' /\ Active' = Active /\ Amid' = Amid
BY DEF ServiceInv, ServiceTypeOK, JobsFit, Copies, Down, LockHolds, Alone, EnginesSame,
       WritesEmptied, FileReadable, Active, Amid

-----------------------------------------------------------------------------
\* The panel and the calls

\* The requests stay for what they are for, and none begins to be served.
Onward ==
  /\ \A d \in Edit : job'[d].at = "none" <=> job[d].at = "none"
  /\ \A d \in Edit : job[d].at # "none" =>
       job'[d].key = job[d].key /\ job'[d].value = job[d].value
  /\ Active' \subseteq Active /\ upset \subseteq upset'

\* A goroutine goes on: its invariant is kept, and one request goes on.
LEMMA ServeDoes ==
  ASSUME ServiceInv, SettingsHaveValues, NEW e \in Edit, Serve(e)
  PROVE  ServiceInv' /\ Onward
<1> USE DEF ServiceInv
<1>1. CASE ChangeVolume(e)
  <2>1. Becomes(e, "changed") /\ e \in Active
    BY <1>1, ChangedDoes DEF ChangeVolume, Active
  <2>2. upset \subseteq upset'
    BY <1>1, BeginsAlone DEF ChangeVolume
  <2>3. ServiceInv'
    BY <1>1, VolumeKeeps
  <2> QED
    BY <2>1, <2>2, <2>3, BecomesAmid DEF Onward, Becomes, Active
<1>2. CASE ChangeScale(e)
  <2>1. Becomes(e, "changed") /\ e \in Active
    BY <1>2, ChangedDoes DEF ChangeScale, Active
  <2>2. upset \subseteq upset'
    BY <1>2, BeginsAlone DEF ChangeScale
  <2>3. ServiceInv'
    BY <1>2, ScaleKeeps
  <2> QED
    BY <2>1, <2>2, <2>3, BecomesAmid DEF Onward, Becomes, Active
<1>3. CASE CopySettings(e)
  <2>1. Becomes(e, "copied") /\ e \in Active
    BY <1>3, CopiedDoes DEF CopySettings, Active
  <2>2. upset \subseteq upset'
    BY <1>3, BeginsAlone DEF CopySettings
  <2>3. ServiceInv'
    BY <1>3, CopyKeeps
  <2> QED
    BY <2>1, <2>2, <2>3, BecomesAmid DEF Onward, Becomes, Active
<1>4. CASE Truncate(e)
  <2>1. Becomes(e, "writing") /\ e \in Active
    BY <1>4, TruncateDoes DEF Truncate, Active
  <2>2. upset \subseteq upset'
    BY <1>4 DEF Truncate
  <2>3. ServiceInv'
    BY <1>4, TruncateKeeps
  <2> QED
    BY <2>1, <2>2, <2>3, BecomesAmid DEF Onward, Becomes, Active
<1>5. CASE Write(e)
  <2>1. e \in Amid /\ Ends(e, "done") /\ upset' = upset
    BY <1>5, WriteDoes
  <2>2. Becomes(e, "done") /\ e \in Active
    BY <2>1, EndsDoes, AmidActive
  <2>3. ServiceInv'
    BY <1>5, WriteKeeps
  <2> QED
    BY <2>1, <2>2, <2>3, BecomesAmid DEF Onward, Becomes, Active
<1>6. CASE Fails(e)
  <2>1. PICK result \in {"failed", "torn"} : e \in Amid /\ Ends(e, result) /\ upset' = upset
    BY <1>6, FailsDoes
  <2>2. Becomes(e, result) /\ e \in Active
    BY <2>1, EndsDoes, AmidActive
  <2>3. ServiceInv'
    BY <1>6, FailsKeeps
  <2> QED
    BY <2>1, <2>2, <2>3, BecomesAmid DEF Onward, Becomes, Active
<1> QED
  BY <1>1, <1>2, <1>3, <1>4, <1>5, <1>6 DEF Serve, Save, Fails, Change

\* Whatever the backend does, a crash and a restart included.
LEMMA BackendDoes ==
  ASSUME ServiceInv, SettingsHaveValues, ServiceStep \/ BackendCrash
  PROVE  ServiceInv' /\ Onward /\ UNCHANGED <<local, call, panel>>
<1>1. UNCHANGED <<local, call, panel>>
  BY DEF ServiceStep, BackendCrash, panel
<1>2. CASE ServiceStep
  <2>1. CASE \E e \in Edit : Serve(e)
    BY <1>1, <2>1, ServeDoes
  <2>2. CASE Restart
    <3>1. ServiceInv'
      BY <2>2, RestartKeeps
    <3>2. job' = job /\ upset \subseteq upset'
      BY <2>2 DEF Restart
    <3> QED
      BY <1>1, <3>1, <3>2 DEF Onward, Active
  <2> QED
    BY <1>2, <2>1, <2>2 DEF ServiceStep
<1>3. CASE BackendCrash
  <2>1. Crash
    BY <1>3 DEF BackendCrash
  <2>2. ServiceInv' /\ Active' = {}
    BY <2>1, CrashKeeps
  <2>3. /\ \A e \in Active : /\ job'[e].at = IF job[e].at = "writing" THEN "torn" ELSE "failed"
                             /\ job'[e].key = job[e].key /\ job'[e].value = job[e].value
        /\ \A e \in Edit \ Active : job'[e] = job[e]
    BY <2>1, CrashDoes DEF ServiceInv
  <2>4. upset' = upset
    BY <2>1 DEF Crash
  <2>5. Onward
    BY <2>2, <2>3, <2>4 DEF Onward, Active
  <2> QED
    BY <1>1, <2>2, <2>5
<1> QED
  BY <1>2, <1>3

\* What the backend does leaves the requests for a setting it does not upset.
LEMMA OnwardOutstanding ==
  ASSUME CallsMatch, Orphans, Onward, call' = call, NEW k \in Key, k \notin upset'
  PROVE  Outstanding(k)' = Outstanding(k)
<1>1. Pending' = Pending /\ Pending \subseteq Edit /\ Active \subseteq Edit
  BY DEF Pending, Active
<1>2. \A e \in Pending \cup Active : job[e].at # "none"
  BY DEF CallsMatch, Pending, Active
<1>3. \A e \in Pending \cup Active : job'[e].key = job[e].key
  BY <1>1, <1>2 DEF Onward
<1>4. Active' \subseteq Active
  BY DEF Onward
<1>5. ASSUME NEW e \in Active, job[e].key = k PROVE e \in Pending
  BY <1>1, <1>5 DEF Orphans, Onward, Pending
<1> QED
  BY <1>1, <1>3, <1>4, <1>5 DEF Outstanding

\* The type invariant of the panel, without that of the backend.
PanelTypeOK ==
  /\ crashes \in 0..MaxCrashes
  /\ local \in [Local -> Value] /\ call \in [Edit -> {"none", "pending", "over"}]
  /\ open \in BOOLEAN /\ loaded \in BOOLEAN /\ polling \in BOOLEAN /\ frame \in BOOLEAN
  /\ answer \in {<< >>} \cup {Whole(settings) : settings \in [Key -> Value]}
  /\ shown \in [Key -> Value] /\ size \in {<< >>} \cup {<<v>> : v \in Value}

\* The types are those of the backend and those of the panel.
LEMMA TypeParts == TypeOK <=> ServiceTypeOK /\ PanelTypeOK
BY DEF TypeOK, PanelTypeOK

\* The settings on their way to a panel.
LEMMA AnswerKinds ==
  ASSUME PanelTypeOK, answer # << >>
  PROVE  answer[1] \in [Key -> Value]
<1>1. PICK settings \in [Key -> Value] : answer = Whole(settings)
  BY DEF PanelTypeOK
<1> QED
  BY <1>1, FileKinds

\* What the backend does keeps the panel's part of the invariant.
LEMMA BackendKeepsPanel ==
  ASSUME PanelInv, SettingsHaveValues, PanelHasCopies, ServiceStep \/ BackendCrash
  PROVE  PanelInv'
<1> USE DEF PanelInv
<1>1. ServiceInv' /\ Onward /\ call' = call /\ UNCHANGED <<local, panel>>
  BY BackendDoes
<1>2. crashes' \in 0..MaxCrashes
  BY DEF ServiceStep, BackendCrash, PanelHasCopies, TypeOK
<1>3. PanelTypeOK'
  BY <1>1, <1>2 DEF TypeOK, PanelTypeOK, panel
<1>4. TypeOK'
  BY <1>1, <1>3 DEF TypeOK, PanelTypeOK, ServiceInv
<1>5. CallsMatch'
  BY <1>1 DEF CallsMatch, Onward
<1>6. PanelFresh'
  BY <1>1 DEF PanelFresh, panel
<1>7. Orphans'
  <2>1. \A e \in Active : e \in Edit /\ job[e].at # "none"
    BY DEF Active
  <2> QED
    BY <1>1, <2>1 DEF Orphans, Onward
<1>8. SizeFollowsContent'
  <2>1. SUFFICES ASSUME loaded', ~frame', "ShowDiagnosticsPanel" \notin upset',
                        Outstanding("ShowDiagnosticsPanel")' = {}
                 PROVE  size' = <<Content>>'
    BY DEF SizeFollowsContent
  <2>2. Outstanding("ShowDiagnosticsPanel") = {}
    BY <1>1, <2>1, OnwardOutstanding DEF PanelHasCopies
  <2>3. "ShowDiagnosticsPanel" \notin upset
    BY <1>1, <2>1 DEF Onward
  <2> QED
    BY <1>1, <2>1, <2>2, <2>3 DEF SizeFollowsContent, panel, Content
<1> QED
  BY <1>1, <1>4, <1>5, <1>6, <1>7, <1>8

\* Request e is made, for setting k and value v: of a backend that runs, or in vain.
Makes(e, k, v) ==
  /\ job[e].at = "none" /\ call[e] = "none"
  /\ call' = [call EXCEPT ![e] = "pending"]
  /\ job'[e].at = (IF up THEN "asked" ELSE "failed")
  /\ job'[e].key = k /\ job'[e].value = v
  /\ \A d \in Edit : d # e => job'[d] = job[d]
  /\ Active' = (IF up THEN Active \cup {e} ELSE Active) /\ Amid' = Amid

\* The user changes a setting: a request is made, and the backend's invariant kept.
LEMMA ChangeMakes ==
  ASSUME PanelInv, SettingsHaveValues, NEW k \in Key, NEW v \in Value, ChangeSetting(k, v)
  PROVE  /\ ServiceInv' /\ upset' \subseteq Key
         /\ \E e \in Edit : Makes(e, k, v)
<1>1. PICK e \in Edit :
        /\ call[e] = "none" /\ call' = [call EXCEPT ![e] = "pending"]
        /\ IF up THEN Ask(e, k, v)
           ELSE job' = [job EXCEPT ![e] = [at |-> "failed", key |-> k, value |-> v]]
  BY DEF ChangeSetting
<1>2. job' = [job EXCEPT ![e] = [at |-> IF up THEN "asked" ELSE "failed",
                                 key |-> k, value |-> v]]
  BY <1>1 DEF Ask
<1>3. job[e].at = "none"
  BY <1>1 DEF PanelInv, CallsMatch
<1>4. upset' \subseteq Key
  BY DEF ChangeSetting, PanelInv, ServiceInv, ServiceTypeOK
<1>5. UNCHANGED <<up, memory, file, engines, lock, clash>>
  BY DEF ChangeSetting
<1>6. ServiceInv' /\ Amid' = Amid /\ Active' = IF up THEN Active \cup {e} ELSE Active
  BY <1>2, <1>3, <1>4, <1>5, AskKeeps DEF PanelInv
<1>7. job \in [Edit -> Job]
  BY DEF PanelInv, ServiceInv, ServiceTypeOK
<1>8. /\ job'[e] = [at |-> IF up THEN "asked" ELSE "failed", key |-> k, value |-> v]
      /\ \A d \in Edit : d # e => job'[d] = job[d]
  BY <1>2, <1>7
<1>9. Makes(e, k, v)
  BY <1>1, <1>3, <1>6, <1>8 DEF Makes
<1> QED
  BY <1>4, <1>6, <1>9

\* Who waits for an answer once a request is made.
LEMMA MakesOutstanding ==
  ASSUME PanelInv, NEW e \in Edit, NEW k \in Key, NEW v \in Value, Makes(e, k, v)
  PROVE  /\ Outstanding(k)' = Outstanding(k) \cup {e} /\ e \notin Outstanding(k)
         /\ \A j \in Key : j # k => Outstanding(j)' = Outstanding(j)
<1> USE DEF PanelInv
<1>1. call \in [Edit -> {"none", "pending", "over"}]
  BY DEF TypeOK
<1>2. Pending' = Pending \cup {e} /\ e \notin Pending /\ Pending \subseteq Edit
  BY <1>1 DEF Makes, Pending
<1>3. e \notin Active /\ Active \subseteq Edit
  BY DEF Makes, Active
<1>4. Pending' \cup Active' = (Pending \cup Active) \cup {e}
  BY <1>2, <1>3 DEF Makes
<1>5. \A d \in Pending \cup Active : job'[d] = job[d]
  BY <1>2, <1>3 DEF Makes
<1>6. job'[e].key = k
  BY DEF Makes
<1> DEFINE all == Pending \cup Active
<1>7. e \notin all /\ Pending' \cup Active' = all \cup {e} /\ \A d \in all : job'[d].key = job[d].key
  BY <1>2, <1>3, <1>4, <1>5
<1>8. ASSUME NEW j \in Key
      PROVE  /\ Outstanding(j) = {d \in all : job[d].key = j}
             /\ Outstanding(j)' = {d \in all \cup {e} : job'[d].key = j}
  BY <1>7 DEF Outstanding
<1> HIDE DEF all
<1>9. Outstanding(k)' = Outstanding(k) \cup {e}
  BY <1>6, <1>7, <1>8
<1>10. e \notin Outstanding(k)
  BY <1>7, <1>8
<1>11. ASSUME NEW j \in Key, j # k PROVE Outstanding(j)' = Outstanding(j)
  <2>1. Outstanding(j)' = {d \in all : job'[d].key = j}
    BY <1>6, <1>7, <1>8, <1>11
  <2> QED
    BY <1>7, <1>8, <2>1
<1> QED
  BY <1>9, <1>10, <1>11

\* The user changes a setting.
LEMMA ChangeKeepsPanel ==
  ASSUME PanelInv, SettingsHaveValues, PanelHasCopies,
         NEW k \in Key, NEW v \in Value, ChangeSetting(k, v), polling' \in BOOLEAN
  PROVE  PanelInv'
<1> USE DEF PanelInv
<1>1. ServiceInv' /\ upset' \subseteq Key
  BY ChangeMakes
<1>2. PICK e \in Edit : Makes(e, k, v)
  BY ChangeMakes
<1>3. /\ open /\ shown' = [shown EXCEPT ![k] = v]
      /\ upset' = IF Outstanding(k) = {} /\ answer = << >> THEN upset \ {k} ELSE upset \cup {k}
      /\ UNCHANGED <<crashes, local, open, answer, loaded, frame, size>>
  BY DEF ChangeSetting
<1>4. /\ call' \in [Edit -> {"none", "pending", "over"}]
      /\ call'[e] = "pending" /\ \A d \in Edit : d # e => call'[d] = call[d]
  BY <1>2 DEF Makes, TypeOK
<1>5. shown' \in [Key -> Value]
  BY <1>3 DEF TypeOK
<1>6. PanelTypeOK'
  BY <1>3, <1>4, <1>5 DEF TypeOK, PanelTypeOK
<1>7. TypeOK'
  BY <1>1, <1>6 DEF TypeOK, PanelTypeOK, ServiceInv
<1>8. CallsMatch'
  BY <1>2, <1>4 DEF CallsMatch, Makes
<1>9. PanelFresh'
  BY <1>3 DEF PanelFresh
<1>10. Orphans'
  <2>1. \A d \in Active : d \in Edit /\ d # e /\ job'[d] = job[d]
    BY <1>2 DEF Active, Makes
  <2>2. \A d \in Active : call[d] # "pending" => job[d].key # k \/ job[d].key \in upset'
    BY <1>3 DEF Orphans, Outstanding
  <2>3. ASSUME NEW d \in Active, call[d] # "pending" PROVE job[d].key \in upset'
    BY <1>3, <2>2, <2>3 DEF Orphans
  <2>4. Active' \subseteq Active \cup {e}
    BY <1>2 DEF Makes
  <2> QED
    BY <1>4, <2>1, <2>3, <2>4 DEF Orphans
<1>11. SizeFollowsContent'
  <2>1. SUFFICES ASSUME loaded', ~frame', "ShowDiagnosticsPanel" \notin upset',
                        Outstanding("ShowDiagnosticsPanel")' = {}
                 PROVE  size' = <<Content>>'
    BY DEF SizeFollowsContent
  <2>2. k # "ShowDiagnosticsPanel"
    BY <1>2, <2>1, MakesOutstanding
  <2>3. Outstanding("ShowDiagnosticsPanel") = {} /\ "ShowDiagnosticsPanel" \notin upset
    BY <1>2, <1>3, <2>1, <2>2, MakesOutstanding DEF PanelHasCopies
  <2>4. Content' = Content
    BY <1>3, <2>2 DEF Content, TypeOK, PanelHasCopies
  <2> QED
    BY <1>3, <2>1, <2>3, <2>4 DEF SizeFollowsContent
<1> QED
  BY <1>1, <1>7, <1>8, <1>9, <1>10, <1>11

\* A page opens, and may have asked for the settings.
LEMMA ShowKeepsPanel ==
  ASSUME PanelInv, SettingsHaveValues, ShowControlPanel
  PROVE  PanelInv'
<1> USE DEF PanelInv
<1>1. /\ ~open /\ open' = TRUE /\ shown' = Default /\ polling' = TRUE
      /\ \/ /\ answer' = Whole(memory)
            /\ upset' = upset \cup {job[e].key : e \in Pending \cup Active}
         \/ UNCHANGED <<answer, upset>>
      /\ UNCHANGED <<up, memory, file, engines, lock, job, clash, crashes, local, call,
                     loaded, frame, size>>
  BY DEF ShowControlPanel
<1>2. upset \subseteq upset' /\ upset' \subseteq Key
  <2>1. \A e \in Pending \cup Active : e \in Edit /\ job[e].at # "none"
    BY DEF Pending, Active, CallsMatch
  <2>2. \A e \in Pending \cup Active : job[e].key \in Key
    BY <2>1, JobFields DEF ServiceInv
  <2> QED
    BY <1>1, <2>2 DEF ServiceInv, ServiceTypeOK
<1>3. ServiceInv' /\ Active' = Active
  BY <1>1, <1>2, IdleKeeps
<1>4. open' \in BOOLEAN /\ polling' \in BOOLEAN
  BY <1>1
<1>5. answer' \in {<< >>} \cup {Whole(settings) : settings \in [Key -> Value]}
  BY <1>1 DEF TypeOK, ServiceTypeOK
<1>6. PanelTypeOK'
  BY <1>1, <1>4, <1>5 DEF TypeOK, PanelTypeOK, SettingsHaveValues
<1>7. TypeOK'
  BY <1>3, <1>6 DEF TypeOK, PanelTypeOK, ServiceInv
<1>8. CallsMatch' /\ Orphans'
  BY <1>1, <1>2, <1>3 DEF CallsMatch, Orphans
<1>9. ~loaded'
  BY <1>1 DEF PanelFresh
<1>10. PanelFresh' /\ SizeFollowsContent'
  BY <1>1, <1>9 DEF PanelFresh, SizeFollowsContent
<1> QED
  BY <1>3, <1>7, <1>8, <1>10

\* What a step that leaves the requests and the backend alone has to show.
LEMMA PageKeepsPanel ==
  ASSUME PanelInv, UNCHANGED <<service, crashes, local, call>>,
         PanelTypeOK', PanelFresh', frame' \/ ~loaded' \/ (size' = <<Content>>')
  PROVE  PanelInv'
<1> USE DEF PanelInv
<1>1. ServiceInv' /\ Active' = Active
  BY IdleKeeps DEF service, ServiceInv, ServiceTypeOK
<1>2. TypeOK'
  BY <1>1 DEF TypeOK, PanelTypeOK, ServiceInv
<1>3. CallsMatch' /\ Orphans'
  BY <1>1 DEF CallsMatch, Orphans, service
<1>4. SizeFollowsContent'
  BY DEF SizeFollowsContent
<1> QED
  BY <1>1, <1>2, <1>3, <1>4

\* The settings come; the panel is closed; a frame is asked for, or is there.
LEMMA PageStepsKeepPanel ==
  ASSUME PanelInv, SettingsHaveValues, PanelHasCopies,
         InitControlPanel \/ ClosePanel \/ FrameAsked \/ ResizeFrame
  PROVE  PanelInv'
<1> USE DEF PanelInv
<1>1. CASE InitControlPanel
  <2>1. /\ answer # << >> /\ answer' = << >> /\ loaded' = TRUE /\ frame' = TRUE
        /\ shown' = answer[1]
        /\ polling' = (answer[1]["ShowDiagnosticsPanel"] = 1)
        /\ UNCHANGED <<service, crashes, local, call, open, size>>
    BY <1>1 DEF InitControlPanel, RenderSettings, SetDiagnosticsPollingEnabled
  <2>2. answer[1] \in [Key -> Value]
    BY <2>1, AnswerKinds DEF TypeOK, PanelTypeOK
  <2>3. loaded' \in BOOLEAN /\ frame' \in BOOLEAN
    BY <2>1
  <2>4. polling' \in BOOLEAN
    BY <2>1
  <2>5. PanelTypeOK'
    BY <2>1, <2>2, <2>3, <2>4 DEF TypeOK, PanelTypeOK
  <2>6. PanelFresh'
    BY <2>1 DEF PanelFresh
  <2> QED
    BY <2>1, <2>5, <2>6, PageKeepsPanel
<1>2. CASE ClosePanel
  <2>1. /\ open' = FALSE /\ answer' = << >> /\ loaded' = FALSE /\ shown' = Default
        /\ polling' = FALSE /\ frame' = FALSE /\ size' = << >>
        /\ UNCHANGED <<service, crashes, local, call>>
    BY <1>2 DEF ClosePanel
  <2>2. open' \in BOOLEAN /\ loaded' \in BOOLEAN /\ polling' \in BOOLEAN /\ frame' \in BOOLEAN
    BY <2>1
  <2>3. PanelTypeOK'
    BY <2>1, <2>2 DEF TypeOK, PanelTypeOK, SettingsHaveValues
  <2>4. PanelFresh'
    BY <2>1 DEF PanelFresh
  <2> QED
    BY <2>1, <2>3, <2>4, PageKeepsPanel
<1>3. CASE FrameAsked
  <2>1. /\ frame' = TRUE
        /\ UNCHANGED <<service, crashes, local, call, open, answer, loaded, shown, polling, size>>
    BY <1>3 DEF FrameAsked
  <2>2. frame' \in BOOLEAN
    BY <2>1
  <2>3. PanelTypeOK' /\ PanelFresh'
    BY <2>1, <2>2 DEF TypeOK, PanelTypeOK, PanelFresh
  <2> QED
    BY <2>1, <2>3, PageKeepsPanel
<1>4. CASE ResizeFrame
  <2>1. /\ frame' = FALSE /\ size' = <<Content>>
        /\ UNCHANGED <<service, crashes, local, call, open, answer, loaded, shown, polling>>
    BY <1>4 DEF ResizeFrame
  <2>2. frame' \in BOOLEAN
    BY <2>1
  <2>3. Content \in Value /\ Content' = Content
    BY <2>1 DEF Content, TypeOK, PanelHasCopies
  <2>4. PanelTypeOK' /\ PanelFresh'
    BY <2>1, <2>2, <2>3 DEF TypeOK, PanelTypeOK, PanelFresh
  <2> QED
    BY <2>1, <2>3, <2>4, PageKeepsPanel
<1> QED
  BY <1>1, <1>2, <1>3, <1>4

\* The requests that may still change something once request e is over.
LEMMA OverOutstanding ==
  ASSUME PanelInv, NEW e \in Edit, call[e] = "pending",
         call' = [call EXCEPT ![e] = "over"], job' = job, NEW k \in Key
  PROVE  /\ Outstanding(k)' \subseteq Outstanding(k)
         /\ job[e].key # k => Outstanding(k)' = Outstanding(k)
         /\ job[e].key = k => e \in Outstanding(k)
         /\ \A d \in Outstanding(k) : d # e => d \in Outstanding(k)'
         /\ e \in Outstanding(k)' => e \in Active
<1>1. call \in [Edit -> {"none", "pending", "over"}]
  BY DEF PanelInv, TypeOK
<1>2. Pending' = Pending \ {e} /\ e \in Pending
  BY <1>1 DEF Pending
<1>3. Active' = Active
  BY DEF Active
<1>4. \A d : d \in Outstanding(k)' <=> d \in Pending' \cup Active /\ job[d].key = k
  BY <1>3 DEF Outstanding
<1>5. \A d : d \in Outstanding(k) <=> d \in Pending \cup Active /\ job[d].key = k
  BY DEF Outstanding
<1>6. \A d : d # e => (d \in Pending' <=> d \in Pending)
  BY <1>2
<1>7. \A d \in Outstanding(k) : d # e => d \in Outstanding(k)'
  BY <1>4, <1>5, <1>6
<1>8. \A d \in Outstanding(k)' : d \in Outstanding(k) /\ (d = e => e \in Active)
  BY <1>2, <1>4, <1>5
<1>9. job[e].key # k => e \notin Outstanding(k)
  BY <1>5
<1>10. job[e].key = k => e \in Outstanding(k)
  BY <1>2, <1>5
<1> QED
  BY <1>7, <1>8, <1>9, <1>10

\* The main process has its answer, or gives up.
LEMMA CallsKeepPanel ==
  ASSUME PanelInv, SettingsHaveValues, PanelHasCopies,
         NEW e \in Edit, Answered(e) \/ Rejected(e)
  PROVE  PanelInv'
<1> USE DEF PanelInv
<1>1. /\ call[e] = "pending" /\ call' = [call EXCEPT ![e] = "over"]
      /\ UNCHANGED <<up, memory, file, engines, lock, job, clash, crashes>>
      /\ UNCHANGED <<open, answer, loaded, shown, polling, size>>
      /\ frame' = (frame \/ open) \/ frame' = frame
      /\ loaded /\ Answered(e) => frame'
  BY DEF Answered, Rejected, service, panel, PanelFresh
<1>2. job[e].at # "none" /\ job[e].key \in Key /\ job[e].value \in Value
  <2>1. job[e].at # "none"
    BY <1>1 DEF CallsMatch
  <2> QED
    BY <2>1, JobFields DEF ServiceInv
<1>3. upset \subseteq upset' /\ upset' \subseteq Key
  BY <1>2 DEF Answered, Rejected, service, ServiceInv, ServiceTypeOK
<1>4. ServiceInv' /\ Active' = Active
  BY <1>1, <1>3, IdleKeeps
<1>5. local' \in [Local -> Value]
  BY <1>2 DEF Answered, Rejected, TakeOver, TypeOK
<1>6. /\ call' \in [Edit -> {"none", "pending", "over"}]
      /\ call'[e] = "over" /\ \A d \in Edit : d # e => call'[d] = call[d]
  BY <1>1 DEF TypeOK
<1>7. frame' \in BOOLEAN
  BY <1>1 DEF TypeOK
<1>8. PanelTypeOK'
  BY <1>1, <1>5, <1>6, <1>7 DEF TypeOK, PanelTypeOK
<1>9. TypeOK'
  BY <1>4, <1>8 DEF TypeOK, PanelTypeOK, ServiceInv
<1>10. CallsMatch'
  BY <1>1, <1>2, <1>6 DEF CallsMatch
<1>11. PanelFresh'
  BY <1>1 DEF PanelFresh
<1>12. Orphans'
  <2>1. e \in Active => Rejected(e)
    BY DEF Active, Answered
  <2>2. e \in Active => job[e].key \in upset'
    BY <2>1 DEF Rejected
  <2>3. Active \subseteq Edit
    BY DEF Active
  <2> QED
    BY <1>1, <1>3, <1>4, <1>6, <2>2, <2>3 DEF Orphans
<1>13. SizeFollowsContent'
  <2>1. SUFFICES ASSUME loaded', ~frame', "ShowDiagnosticsPanel" \notin upset',
                        Outstanding("ShowDiagnosticsPanel")' = {}
                 PROVE  size' = <<Content>>'
    BY DEF SizeFollowsContent
  <2>2. Rejected(e)
    BY <1>1, <2>1
  <2>3. job[e].key # "ShowDiagnosticsPanel" /\ "ShowDiagnosticsPanel" \notin upset /\ ~frame
    BY <1>3, <2>1, <2>2 DEF Rejected, panel
  <2>4. Outstanding("ShowDiagnosticsPanel") = {}
    BY <1>1, <2>1, <2>3, OverOutstanding DEF PanelHasCopies
  <2> QED
    BY <1>1, <2>1, <2>3, <2>4 DEF SizeFollowsContent, Content
<1> QED
  BY <1>4, <1>9, <1>10, <1>11, <1>12, <1>13

-----------------------------------------------------------------------------
\* The last change of a setting: the backend

\* The requests for a setting are for it, and include those that are served.
LEMMA OutstandingFor ==
  ASSUME NEW k \in Key
  PROVE  /\ Outstanding(k) \subseteq Edit
         /\ \A e \in Outstanding(k) : job[e].key = k
         /\ \A e \in Active : job[e].key = k => e \in Outstanding(k)
BY DEF Outstanding, Pending, Active

\* Where the backend leaves the memory of a setting alone, or a request for it is
\* under way, the panel and the main process have what they had to have.
LEMMA BackendAgrees ==
  ASSUME PanelInv, Onward, UNCHANGED <<local, call, panel>>,
         NEW k \in Key, Agreed(k), Outstanding(k)' = Outstanding(k),
         memory'[k] = memory[k] \/ Outstanding(k) # {}
  PROVE  Single(k)' /\ AnswerHolds(k)' /\ ShownHolds(k)' /\ LocalHolds(k)'
<1>1. \A e \in Outstanding(k) : job'[e].value = job[e].value
  BY DEF Outstanding, Pending, Active, Onward, PanelInv, CallsMatch
<1>2. Single(k)'
  BY DEF Agreed, Single
<1>3. AnswerHolds(k)'
  BY DEF Agreed, AnswerHolds, panel
<1>4. ShownHolds(k)'
  BY <1>1 DEF Agreed, ShownHolds, panel
<1>5. LocalHolds(k)'
  BY DEF Agreed, LocalHolds
<1> QED
  BY <1>2, <1>3, <1>4, <1>5

\* What the request for a setting and the copies of others have done.
ServiceAgreed(k) ==
  /\ ChangeHolds(k) /\ CopyHolds(k) /\ FileHolds(k)

\* A request that begins to change the volume.
LEMMA VolumeAgrees ==
  ASSUME ServiceInv, SettingsHaveValues, NEW e \in Edit, ChangeVolume(e),
         NEW k \in Key, k \notin upset', Agreed(k), Outstanding(k)' = Outstanding(k)
  PROVE  ServiceAgreed(k)' /\ (memory'[k] = memory[k] \/ Outstanding(k) # {})
<1> USE DEF ServiceInv, Agreed
<1>1. /\ job[e].at = "asked" /\ job[e].key = "Volume" /\ Begins(e)
      /\ memory' = [memory EXCEPT !["Volume"] = job[e].value]
      /\ file' = file /\ memory \in [Key -> Value]
  BY DEF ChangeVolume, ServiceTypeOK
<1>2. /\ Becomes(e, "changed") /\ e \in Active
      /\ job'[e].at = "changed" /\ job'[e].key = job[e].key /\ job'[e].value = job[e].value
      /\ \A d \in Edit : d # e => job'[d] = job[d] /\ (Copies(d)' <=> Copies(d))
      /\ ~Copies(e)'
  <2>1. Becomes(e, "changed")
    BY <1>1, ChangedDoes DEF ChangeVolume
  <2> QED
    BY <1>1, <2>1, BecomesAmid DEF Becomes, Active, Copies
<1>3. /\ ~clash' => ~clash
      /\ k = "Volume" => Amid = {}
  BY <1>1, BeginsAlone
<1>4. k = "Volume" => e \in Outstanding(k) /\ memory'[k] = job[e].value
  BY <1>1, <1>2, OutstandingFor
<1>5. k # "Volume" => memory'[k] = memory[k] /\ e \notin Outstanding(k)
  BY <1>1, OutstandingFor
<1>6. ChangeHolds(k)'
  <2>1. CASE k = "Volume"
    BY <1>2, <1>4, <2>1 DEF ChangeHolds, Single
  <2>2. CASE k # "Volume"
    BY <1>2, <1>5, <2>2, OutstandingFor DEF ChangeHolds
  <2> QED
    BY <2>1, <2>2
<1>7. CopyHolds(k)'
  <2>1. \A d \in Edit : Copies(d) => d \in Amid
    BY DEF Copies, Amid, Active
  <2>2. CASE k = "Volume"
    BY <1>2, <1>3, <2>1, <2>2 DEF CopyHolds
  <2>3. CASE k # "Volume"
    <3>1. \A d \in Outstanding(k) : job'[d] = job[d]
      BY <1>2, <1>5, <2>3, OutstandingFor
    <3> QED
      BY <1>2, <1>5, <2>3, <3>1 DEF CopyHolds
  <2> QED
    BY <2>2, <2>3
<1>8. FileHolds(k)'
  <2>1. CASE k = "Volume"
    BY <1>2, <1>4, <2>1 DEF FileHolds
  <2>2. CASE k # "Volume"
    <3>1. \A d \in Outstanding(k) : job'[d] = job[d]
      BY <1>2, <1>5, <2>2, OutstandingFor
    <3> QED
      BY <1>1, <1>3, <1>5, <2>2, <3>1 DEF FileHolds
  <2> QED
    BY <2>1, <2>2
<1> QED
  BY <1>4, <1>5, <1>6, <1>7, <1>8 DEF ServiceAgreed

\* A request that begins to change the scale.
LEMMA ScaleAgrees ==
  ASSUME ServiceInv, SettingsHaveValues, NEW e \in Edit, ChangeScale(e),
         NEW k \in Key, k \notin upset', Agreed(k), Outstanding(k)' = Outstanding(k)
  PROVE  ServiceAgreed(k)' /\ (memory'[k] = memory[k] \/ Outstanding(k) # {})
<1> USE DEF ServiceInv, Agreed
<1>1. /\ job[e].at = "asked" /\ job[e].key = "Scale" /\ Begins(e) /\ lock = 0
      /\ memory' = [memory EXCEPT !["Scale"] = job[e].value]
      /\ file' = file /\ memory \in [Key -> Value]
  BY DEF ChangeScale, ServiceTypeOK
<1>2. /\ Becomes(e, "changed") /\ e \in Active
      /\ job'[e].at = "changed" /\ job'[e].key = job[e].key /\ job'[e].value = job[e].value
      /\ \A d \in Edit : d # e => job'[d] = job[d] /\ (Copies(d)' <=> Copies(d))
      /\ ~Copies(e)'
  <2>1. Becomes(e, "changed")
    BY <1>1, ChangedDoes DEF ChangeScale
  <2> QED
    BY <1>1, <2>1, BecomesAmid DEF Becomes, Active, Copies
<1>3. /\ ~clash' => ~clash
      /\ k = "Scale" => Amid = {}
  BY <1>1, BeginsAlone
<1>4. k = "Scale" => e \in Outstanding(k) /\ memory'[k] = job[e].value
  BY <1>1, <1>2, OutstandingFor
<1>5. k # "Scale" => memory'[k] = memory[k] /\ e \notin Outstanding(k)
  BY <1>1, OutstandingFor
<1>6. ChangeHolds(k)'
  <2>1. CASE k = "Scale"
    BY <1>2, <1>4, <2>1 DEF ChangeHolds, Single
  <2>2. CASE k # "Scale"
    BY <1>2, <1>5, <2>2, OutstandingFor DEF ChangeHolds
  <2> QED
    BY <2>1, <2>2
<1>7. CopyHolds(k)'
  <2>1. \A d \in Edit : Copies(d) => d \in Amid
    BY DEF Copies, Amid, Active
  <2>2. CASE k = "Scale"
    BY <1>2, <1>3, <2>1, <2>2 DEF CopyHolds
  <2>3. CASE k # "Scale"
    <3>1. \A d \in Outstanding(k) : job'[d] = job[d]
      BY <1>2, <1>5, <2>3, OutstandingFor
    <3> QED
      BY <1>2, <1>5, <2>3, <3>1 DEF CopyHolds
  <2> QED
    BY <2>2, <2>3
<1>8. FileHolds(k)'
  <2>1. CASE k = "Scale"
    BY <1>2, <1>4, <2>1 DEF FileHolds
  <2>2. CASE k # "Scale"
    <3>1. \A d \in Outstanding(k) : job'[d] = job[d]
      BY <1>2, <1>5, <2>2, OutstandingFor
    <3> QED
      BY <1>1, <1>3, <1>5, <2>2, <3>1 DEF FileHolds
  <2> QED
    BY <2>1, <2>2
<1> QED
  BY <1>4, <1>5, <1>6, <1>7, <1>8 DEF ServiceAgreed

\* A request that begins to change another setting: its copy has the memory's value of
\* every setting but its own.
LEMMA CopyAgrees ==
  ASSUME ServiceInv, SettingsHaveValues, NEW e \in Edit, CopySettings(e),
         NEW k \in Key, k \notin upset', Agreed(k), Outstanding(k)' = Outstanding(k)
  PROVE  ServiceAgreed(k)' /\ memory'[k] = memory[k]
<1> USE DEF ServiceInv, Agreed
<1>1. /\ job[e].at = "asked" /\ Begins(e) /\ lock = 0
      /\ memory' = memory /\ file' = file /\ memory \in [Key -> Value] /\ job[e].key \in Key
  BY JobFields DEF CopySettings, ServiceTypeOK
<1>2. Becomes(e, "copied") /\ job'[e].data = [memory EXCEPT ![job[e].key] = job[e].value]
  BY CopiedDoes
<1>3. /\ e \in Active
      /\ job'[e].at = "copied" /\ job'[e].key = job[e].key /\ job'[e].value = job[e].value
      /\ \A d \in Edit : d # e => job'[d] = job[d] /\ (Copies(d)' <=> Copies(d))
  BY <1>1, <1>2, BecomesAmid DEF Becomes, Active
<1>4. ~clash' => ~clash
  BY <1>1, BeginsAlone
<1>5. job[e].key = k => e \in Outstanding(k) /\ job'[e].data[k] = job[e].value /\ Amid = {}
  BY <1>1, <1>2, <1>3, BeginsAlone, OutstandingFor
<1>6. job[e].key # k => e \notin Outstanding(k) /\ job'[e].data[k] = memory[k]
  BY <1>1, <1>2, OutstandingFor
<1>7. ChangeHolds(k)'
  <2>1. CASE job[e].key = k
    BY <1>3, <1>5, <2>1 DEF ChangeHolds, Single
  <2>2. CASE job[e].key # k
    <3>1. \A d \in Outstanding(k) : job'[d] = job[d] /\ (Copies(d)' <=> Copies(d))
      BY <1>3, <1>6, <2>2, OutstandingFor
    <3> QED
      BY <1>1, <3>1 DEF ChangeHolds
  <2> QED
    BY <2>1, <2>2
<1>8. CopyHolds(k)'
  <2>1. \A d \in Edit : Copies(d) => d \in Amid
    BY DEF Copies, Amid, Active
  <2>2. CASE job[e].key = k
    BY <1>3, <1>5, <2>1, <2>2 DEF CopyHolds
  <2>3. CASE job[e].key # k
    <3>1. \A d \in Outstanding(k) : job'[d] = job[d]
      BY <1>3, <1>6, <2>3, OutstandingFor
    <3> QED
      BY <1>1, <1>3, <1>6, <2>3, <3>1 DEF CopyHolds
  <2> QED
    BY <2>2, <2>3
<1>9. FileHolds(k)'
  <2>1. CASE job[e].key = k
    BY <1>3, <1>5, <2>1 DEF FileHolds
  <2>2. CASE job[e].key # k
    <3>1. \A d \in Outstanding(k) : job'[d] = job[d]
      BY <1>3, <1>6, <2>2, OutstandingFor
    <3> QED
      BY <1>1, <1>4, <2>2, <3>1 DEF FileHolds
  <2> QED
    BY <2>1, <2>2
<1> QED
  BY <1>1, <1>7, <1>8, <1>9 DEF ServiceAgreed

\* A save that begins.
LEMMA TruncateAgrees ==
  ASSUME ServiceInv, SettingsHaveValues, NEW e \in Edit, Truncate(e),
         NEW k \in Key, k \notin upset', Agreed(k), Outstanding(k)' = Outstanding(k)
  PROVE  ServiceAgreed(k)' /\ memory'[k] = memory[k]
<1> USE DEF ServiceInv, Agreed
<1>1. job[e].at \in {"changed", "copied"} /\ file' = Empty /\ memory' = memory
  BY DEF Truncate
<1>2. /\ Becomes(e, "writing")
      /\ job'[e].commits <=> job[e].at = "copied"
      /\ job'[e].data = IF job[e].at = "copied" THEN job[e].data ELSE memory
  BY TruncateDoes
<1>3. /\ job'[e].at = "writing" /\ job'[e].key = job[e].key /\ job'[e].value = job[e].value
      /\ \A d \in Edit : d # e => job'[d] = job[d] /\ (Copies(d)' <=> Copies(d))
  BY <1>2, BecomesAmid DEF Becomes
<1>4. /\ Copies(e)' <=> job[e].at = "copied"
      /\ Copies(e) <=> job[e].at = "copied"
  BY <1>1, <1>2, <1>3 DEF Copies
<1>5. ChangeHolds(k)'
  <2>1. SUFFICES ASSUME NEW d \in Outstanding(k)
                 PROVE  /\ job'[d].at \in {"changed", "done"} \/ (job'[d].at = "writing" /\ ~Copies(d)')
                             => memory[k] = job'[d].value
                        /\ Copies(d)' => job'[d].data[k] = job'[d].value
    BY <1>1 DEF ChangeHolds
  <2>2. CASE d # e
    BY <1>3, <2>2, OutstandingFor DEF ChangeHolds
  <2>3. CASE d = e
    BY <1>1, <1>2, <1>3, <1>4, <2>3 DEF ChangeHolds
  <2> QED
    BY <2>2, <2>3
<1>6. CopyHolds(k)'
  <2>1. \A d \in Edit : Copies(d)' =>
          Copies(d) /\ job'[d].key = job[d].key /\ job'[d].data = job[d].data
    BY <1>2, <1>3, <1>4
  <2>2. \A d \in Outstanding(k) : job[d].at = "asked" => job'[d].at = "asked"
    BY <1>1, <1>3, OutstandingFor
  <2> QED
    BY <1>1, <2>1, <2>2 DEF CopyHolds
<1>7. FileHolds(k)'
  BY <1>1, FileKinds DEF FileHolds
<1> QED
  BY <1>1, <1>5, <1>6, <1>7 DEF ServiceAgreed

\* A save that ends: a copy becomes the memory, and has of every other setting what the
\* memory has, or a request for that one is still to begin.
LEMMA WriteAgrees ==
  ASSUME ServiceInv, SettingsHaveValues, NEW e \in Edit, Write(e),
         NEW k \in Key, k \notin upset', Agreed(k), Outstanding(k)' = Outstanding(k)
  PROVE  ServiceAgreed(k)' /\ (memory'[k] = memory[k] \/ Outstanding(k) # {})
<1> USE DEF ServiceInv, Agreed
<1>1. /\ e \in Amid /\ Ends(e, "done")
      /\ up' = up /\ upset' = upset /\ clash' = clash
      /\ ~clash => file' = Whole(job[e].data)
      /\ Copies(e) => memory' = job[e].data
      /\ ~Copies(e) => memory' = memory /\ (~clash => job[e].data = memory)
  BY WriteDoes
<1>2. /\ e \in Active /\ Amid \subseteq Edit /\ job[e].at = "writing"
  BY <1>1, AmidActive DEF Write
<1>3. Becomes(e, "done")
  BY <1>1, <1>2, EndsDoes
<1>4. /\ job'[e].at = "done" /\ job'[e].key = job[e].key /\ job'[e].value = job[e].value
      /\ \A d \in Edit : d # e => job'[d] = job[d] /\ (Copies(d)' <=> Copies(d))
      /\ ~Copies(e)'
  BY <1>3, BecomesAmid DEF Becomes, Copies
<1>5. job[e].key = k => e \in Outstanding(k)
  BY <1>2, OutstandingFor
<1>6. job[e].key # k => e \notin Outstanding(k)
  BY OutstandingFor
<1>7. ~clash => file'[1] = memory' /\ Len(file') = 1
  BY <1>1, FileKinds
<1>8. FileHolds(k)'
  BY <1>1, <1>7 DEF FileHolds
<1>9. CASE Copies(e)
  <2>1. \A d \in Edit : ~Copies(d)'
    <3>1. \A d \in Edit : Copies(d) => d \in Amid /\ job[d].key # "Volume"
      BY DEF Copies, Amid, Active, JobsFit
    <3>2. \A d \in Edit : Copies(d) => d = lock
      BY <3>1 DEF LockHolds
    <3> QED
      BY <1>4, <1>9, <3>2
  <2>2. CopyHolds(k)'
    BY <2>1 DEF CopyHolds
  <2>3. CASE job[e].key = k
    <3>1. memory'[k] = job[e].value
      BY <1>1, <1>5, <1>9, <2>3 DEF ChangeHolds
    <3>2. \A d \in Outstanding(k) : d = e
      BY <1>5, <2>3 DEF Single
    <3>3. ChangeHolds(k)'
      BY <1>4, <3>1, <3>2 DEF ChangeHolds
    <3> QED
      BY <1>5, <1>8, <2>2, <2>3, <3>3 DEF ServiceAgreed
  <2>4. CASE job[e].key # k
    <3>1. memory'[k] = memory[k] \/ \E d \in Outstanding(k) : job[d].at = "asked"
      BY <1>1, <1>9, <2>4 DEF CopyHolds
    <3>2. \A d \in Outstanding(k) : job'[d] = job[d] /\ (Copies(d)' <=> Copies(d))
      BY <1>4, <1>6, <2>4, OutstandingFor
    <3>3. CASE memory'[k] = memory[k]
      <4>1. ChangeHolds(k)'
        BY <3>2, <3>3 DEF ChangeHolds
      <4> QED
        BY <1>8, <2>2, <3>3, <4>1 DEF ServiceAgreed
    <3>4. CASE \E d \in Outstanding(k) : job[d].at = "asked"
      <4>1. \A d \in Outstanding(k) : job[d].at = "asked"
        BY <3>4 DEF Single
      <4>2. \A d \in Outstanding(k) : job'[d].at = "asked" /\ ~Copies(d)'
        BY <3>2, <4>1 DEF Copies
      <4>3. ChangeHolds(k)'
        BY <4>2 DEF ChangeHolds
      <4> QED
        BY <1>8, <2>2, <3>4, <4>3 DEF ServiceAgreed
    <3> QED
      BY <3>1, <3>3, <3>4
  <2> QED
    BY <2>3, <2>4
<1>10. CASE ~Copies(e)
  <2>1. memory' = memory
    BY <1>1, <1>10
  <2>2. ChangeHolds(k)'
    <3>1. SUFFICES ASSUME NEW d \in Outstanding(k)
                   PROVE  /\ job'[d].at \in {"changed", "done"} \/ (job'[d].at = "writing" /\ ~Copies(d)')
                               => memory[k] = job'[d].value
                          /\ Copies(d)' => job'[d].data[k] = job'[d].value
      BY <2>1 DEF ChangeHolds
    <3>2. CASE d # e
      BY <1>4, <3>2, OutstandingFor DEF ChangeHolds
    <3>3. CASE d = e
      BY <1>2, <1>4, <1>10, <3>3 DEF ChangeHolds
    <3> QED
      BY <3>2, <3>3
  <2>3. CopyHolds(k)'
    <3>1. \A d \in Outstanding(k) : job[d].at = "asked" => job'[d].at = "asked"
      BY <1>2, <1>4, OutstandingFor
    <3>2. \A d \in Edit : Copies(d)' => Copies(d) /\ job'[d] = job[d]
      BY <1>4
    <3> QED
      BY <2>1, <3>1, <3>2 DEF CopyHolds
  <2> QED
    BY <1>8, <2>1, <2>2, <2>3 DEF ServiceAgreed
<1> QED
  BY <1>9, <1>10

\* A save that fails: of what it may have written, the other settings are as in memory.
LEMMA FailsAgrees ==
  ASSUME ServiceInv, SettingsHaveValues, NEW e \in Edit, Fails(e),
         NEW k \in Key, k \notin upset', Agreed(k), Outstanding(k)' = Outstanding(k)
  PROVE  ServiceAgreed(k)' /\ memory'[k] = memory[k]
<1> USE DEF ServiceInv, Agreed
<1>1. PICK result \in {"failed", "torn"} :
        /\ e \in Amid /\ Ends(e, result)
        /\ UNCHANGED <<up, memory, engines, upset, clash>>
        /\ \/ file' = file /\ job[e].at \in {"changed", "copied"}
           \/ job[e].at = "writing" /\ (~clash => Len(file') # 1)
           \/ /\ job[e].at = "writing"
              /\ ~clash => /\ file' = Whole(job[e].data)
                           /\ ~Copies(e) => job[e].data = memory
  BY FailsDoes
<1>2. Becomes(e, result) /\ e \in Active
  BY <1>1, EndsDoes, AmidActive
<1>3. /\ job'[e].at = result /\ ~Copies(e)'
      /\ \A d \in Edit : d # e => job'[d] = job[d] /\ (Copies(d)' <=> Copies(d))
  BY <1>2, BecomesAmid DEF Becomes, Copies
<1>4. \A d \in Outstanding(k) : d = e \/ (job'[d] = job[d] /\ (Copies(d)' <=> Copies(d)))
  BY <1>3, OutstandingFor
<1>5. ChangeHolds(k)'
  BY <1>1, <1>3, <1>4 DEF ChangeHolds
<1>6. CopyHolds(k)'
  <2>1. \A d \in Outstanding(k) : job[d].at = "asked" => job'[d].at = "asked"
    BY <1>1, <1>4
  <2>2. \A d \in Edit : Copies(d)' => Copies(d) /\ job'[d] = job[d]
    BY <1>3
  <2> QED
    BY <1>1, <2>1, <2>2 DEF CopyHolds
<1>7. FileHolds(k)'
  <2>1. SUFFICES ASSUME ~clash, Len(file') = 1, \A d \in Outstanding(k) : job'[d].at = "done"
                 PROVE  file'[1][k] = memory[k]
    BY <1>1 DEF FileHolds
  <2>2. e \notin Outstanding(k)
    BY <1>3, <2>1
  <2>3. job[e].key # k
    BY <1>2, <2>2, OutstandingFor
  <2>4. \A d \in Outstanding(k) : job[d].at = "done"
    BY <1>4, <2>1, <2>2
  <2>5. CASE file' = file
    BY <2>1, <2>4, <2>5 DEF FileHolds
  <2>6. CASE file' = Whole(job[e].data) /\ (~Copies(e) => job[e].data = memory)
    <3>1. job[e].data[k] = memory[k]
      BY <2>3, <2>4, <2>6 DEF CopyHolds
    <3> QED
      BY <2>6, <3>1, FileKinds
  <2> QED
    BY <1>1, <2>1, <2>5, <2>6
<1> QED
  BY <1>1, <1>5, <1>6, <1>7 DEF ServiceAgreed

\* A backend that starts again: what it has not loaded as it was is upset.
LEMMA RestartAgrees ==
  ASSUME ServiceInv, SettingsHaveValues, Restart,
         NEW k \in Key, k \notin upset', Agreed(k), Outstanding(k)' = Outstanding(k)
  PROVE  ServiceAgreed(k)' /\ memory'[k] = memory[k]
<1> USE DEF ServiceInv, Agreed
<1>1. /\ memory' = Loaded /\ upset' = upset \cup {j \in Key : memory[j] # Loaded[j]}
      /\ file' = file /\ job' = job /\ clash' = clash
  BY DEF Restart
<1>2. memory'[k] = memory[k]
  BY <1>1
<1>3. \A d \in Edit : Copies(d)' <=> Copies(d)
  BY <1>1 DEF Copies
<1>4. ChangeHolds(k)'
  BY <1>1, <1>2, <1>3, OutstandingFor DEF ChangeHolds
<1>5. CopyHolds(k)'
  BY <1>1, <1>2, <1>3 DEF CopyHolds
<1>6. FileHolds(k)'
  BY <1>1, <1>2 DEF FileHolds
<1> QED
  BY <1>2, <1>4, <1>5, <1>6 DEF ServiceAgreed

\* A backend that crashes: no request it was serving counts as done.
LEMMA CrashAgrees ==
  ASSUME ServiceInv, SettingsHaveValues, Crash,
         NEW k \in Key, k \notin upset', Agreed(k), Outstanding(k)' = Outstanding(k)
  PROVE  ServiceAgreed(k)' /\ memory'[k] = memory[k]
<1> USE DEF ServiceInv, Agreed
<1>1. memory' = memory /\ file' = file /\ clash' = clash
  BY DEF Crash
<1>2. /\ \A e \in Active : job'[e].at \in {"failed", "torn"}
      /\ \A e \in Edit \ Active : job'[e] = job[e]
  BY CrashDoes
<1>3. \A d \in Edit : job'[d].at \in {"failed", "torn"} \/ (d \notin Active /\ job'[d] = job[d])
  BY <1>2
<1>4. \A d \in Edit : ~Copies(d)'
  BY <1>3 DEF Copies, Active
<1>5. ChangeHolds(k)'
  BY <1>1, <1>3, <1>4, OutstandingFor DEF ChangeHolds, Active
<1>6. CopyHolds(k)'
  BY <1>4 DEF CopyHolds
<1>7. FileHolds(k)'
  BY <1>1, <1>3, OutstandingFor DEF FileHolds
<1> QED
  BY <1>1, <1>5, <1>6, <1>7 DEF ServiceAgreed

\* Whatever the backend does, every setting that is not upset stays agreed.
LEMMA BackendKeepsAgreed ==
  ASSUME PanelInv, SettingsHaveValues, AllAgreed, ServiceStep \/ BackendCrash
  PROVE  AllAgreed'
<1>1. Onward /\ UNCHANGED <<local, call, panel>>
  BY BackendDoes DEF PanelInv
<1>2. SUFFICES ASSUME NEW k \in Key, k \notin upset' PROVE Agreed(k)'
  BY DEF AllAgreed
<1>3. k \notin upset /\ Outstanding(k)' = Outstanding(k)
  BY <1>1, <1>2, OnwardOutstanding DEF PanelInv, Onward
<1>4. Agreed(k) /\ ServiceInv
  BY <1>3 DEF AllAgreed, PanelInv
<1>5. ServiceAgreed(k)' /\ (memory'[k] = memory[k] \/ Outstanding(k) # {})
  <2>1. CASE \E e \in Edit : Serve(e)
    BY <1>2, <1>3, <1>4, <2>1, VolumeAgrees, ScaleAgrees, CopyAgrees, TruncateAgrees,
       WriteAgrees, FailsAgrees DEF Serve, Save, Fails, Change
  <2>2. CASE Restart
    BY <1>2, <1>3, <1>4, <2>2, RestartAgrees
  <2>3. CASE BackendCrash
    BY <1>2, <1>3, <1>4, <2>3, CrashAgrees DEF BackendCrash
  <2> QED
    BY <2>1, <2>2, <2>3 DEF ServiceStep
<1>6. Single(k)' /\ AnswerHolds(k)' /\ ShownHolds(k)' /\ LocalHolds(k)'
  BY <1>1, <1>3, <1>4, <1>5, BackendAgrees
<1> QED
  BY <1>5, <1>6 DEF Agreed, ServiceAgreed

-----------------------------------------------------------------------------
\* The last change of a setting: the panel and the main process

\* The user changes a setting: it is agreed from now on if nothing is in the way; what
\* was agreed of the others still is.
LEMMA ChangeKeepsAgreed ==
  ASSUME PanelInv, SettingsHaveValues, PanelHasCopies, AllAgreed,
         NEW k \in Key, NEW v \in Value, ChangeSetting(k, v)
  PROVE  AllAgreed'
<1>1. PICK e \in Edit : Makes(e, k, v)
  BY ChangeMakes
<1>2. /\ shown' = [shown EXCEPT ![k] = v] /\ shown \in [Key -> Value]
      /\ upset' = IF Outstanding(k) = {} /\ answer = << >> THEN upset \ {k} ELSE upset \cup {k}
      /\ UNCHANGED <<up, memory, file, clash, local, answer, loaded>>
  BY DEF ChangeSetting, PanelInv, TypeOK
<1>3. /\ Outstanding(k)' = Outstanding(k) \cup {e} /\ e \notin Outstanding(k)
      /\ \A j \in Key : j # k => Outstanding(j)' = Outstanding(j)
  BY <1>1, MakesOutstanding
<1>4. /\ job'[e].at \in {"asked", "failed"} /\ (up => job'[e].at = "asked")
      /\ job'[e].key = k /\ job'[e].value = v
      /\ \A d \in Edit : d # e => job'[d] = job[d]
  BY <1>1 DEF Makes
<1>5. \A d \in Edit : d # e => (Copies(d)' <=> Copies(d))
  BY <1>4 DEF Copies
<1>6. ~Copies(e)'
  BY <1>4 DEF Copies
<1>7. SUFFICES ASSUME NEW j \in Key, j \notin upset' PROVE Agreed(j)'
  BY DEF AllAgreed
<1>8. CASE j = k
  <2>1. Outstanding(k) = {} /\ answer = << >>
    BY <1>2, <1>7, <1>8
  <2>2. Outstanding(k)' = {e}
    BY <1>3, <2>1
  <2>3. Single(k)'
    BY <2>2 DEF Single
  <2>4. AnswerHolds(k)'
    BY <1>2, <2>1 DEF AnswerHolds
  <2>5. ShownHolds(k)'
    BY <1>2, <1>4, <2>2 DEF ShownHolds
  <2>6. LocalHolds(k)'
    BY <2>2 DEF LocalHolds
  <2>7. ChangeHolds(k)'
    BY <1>4, <1>6, <2>2 DEF ChangeHolds
  <2>8. CopyHolds(k)'
    <3>1. SUFFICES ASSUME NEW d \in Edit, Copies(d)' PROVE job'[e].at = "asked"
      BY <2>2 DEF CopyHolds
    <3>2. d \in Active
      BY <1>5, <1>6, <3>1 DEF Copies, Active
    <3>3. up
      BY <3>2 DEF PanelInv, ServiceInv, Down, ServiceTypeOK
    <3> QED
      BY <1>4, <3>3
  <2>9. FileHolds(k)'
    BY <1>4, <2>2 DEF FileHolds
  <2> QED
    BY <1>8, <2>3, <2>4, <2>5, <2>6, <2>7, <2>8, <2>9 DEF Agreed
<1>9. CASE j # k
  <2>1. Agreed(j)
    BY <1>2, <1>7, <1>9 DEF AllAgreed
  <2>2. Outstanding(j)' = Outstanding(j) /\ e \notin Outstanding(j)'
    <3>1. \A d \in Outstanding(j)' : job'[d].key = j
      BY DEF Outstanding
    <3> QED
      BY <1>3, <1>4, <1>9, <3>1
  <2>3. \A d \in Outstanding(j) : job'[d] = job[d] /\ (Copies(d)' <=> Copies(d))
    BY <1>4, <1>5, <2>2, OutstandingFor
  <2>4. shown'[j] = shown[j]
    BY <1>2, <1>9
  <2>5. Single(j)' /\ AnswerHolds(j)'
    BY <1>2, <2>1, <2>2 DEF Agreed, Single, AnswerHolds
  <2>6. ShownHolds(j)'
    BY <1>2, <2>1, <2>2, <2>3, <2>4 DEF Agreed, ShownHolds
  <2>7. LocalHolds(j)'
    BY <1>2, <2>1, <2>2 DEF Agreed, LocalHolds
  <2>8. ChangeHolds(j)'
    BY <1>2, <2>1, <2>2, <2>3 DEF Agreed, ChangeHolds
  <2>9. CopyHolds(j)'
    BY <1>2, <1>4, <1>5, <1>6, <2>1, <2>2, <2>3 DEF Agreed, CopyHolds
  <2>10. FileHolds(j)'
    BY <1>2, <2>1, <2>2, <2>3 DEF Agreed, FileHolds
  <2> QED
    BY <2>5, <2>6, <2>7, <2>8, <2>9, <2>10 DEF Agreed
<1> QED
  BY <1>8, <1>9

\* A setting with the same requests, that have done the same, and the same memory.
LEMMA ChangeSame ==
  ASSUME NEW k \in Key, ChangeHolds(k), Outstanding(k)' = Outstanding(k),
         job' = job, memory' = memory
  PROVE  ChangeHolds(k)'
<1>1. \A d : Copies(d)' <=> Copies(d)
  BY DEF Copies
<1>2. SUFFICES ASSUME NEW e \in Outstanding(k)
               PROVE  /\ job[e].at \in {"changed", "done"} \/ (job[e].at = "writing" /\ ~Copies(e)')
                           => memory[k] = job[e].value
                      /\ Copies(e)' => job[e].data[k] = job[e].value
  BY DEF ChangeHolds
<1>3. Copies(e)' <=> Copies(e)
  BY <1>1
<1> QED
  BY <1>2, <1>3 DEF ChangeHolds

\* A page opens: an answer to it holds what the memory does, and every setting with a
\* request under way is upset by it.
LEMMA ShowKeepsAgreed ==
  ASSUME PanelInv, SettingsHaveValues, AllAgreed, ShowControlPanel
  PROVE  AllAgreed'
<1>1. /\ ~open
      /\ \/ /\ answer' = Whole(memory)
            /\ upset' = upset \cup {job[e].key : e \in Pending \cup Active}
         \/ UNCHANGED <<answer, upset>>
      /\ UNCHANGED <<up, memory, file, engines, lock, job, clash, local, call, loaded>>
  BY DEF ShowControlPanel
<1>2. ~loaded
  BY <1>1 DEF PanelInv, PanelFresh
<1>3. SUFFICES ASSUME NEW k \in Key, k \notin upset' PROVE Agreed(k)'
  BY DEF AllAgreed
<1>4. Agreed(k)
  BY <1>1, <1>3 DEF AllAgreed
<1>5. Outstanding(k)' = Outstanding(k)
  BY <1>1 DEF Outstanding, Pending, Active
<1>6. AnswerHolds(k)'
  <2>1. CASE UNCHANGED <<answer, upset>>
    BY <1>1, <1>4, <1>5, <2>1 DEF Agreed, AnswerHolds
  <2>2. CASE /\ answer' = Whole(memory)
             /\ upset' = upset \cup {job[e].key : e \in Pending \cup Active}
    <3>1. Outstanding(k) = {}
      BY <1>3, <2>2 DEF Outstanding
    <3> QED
      BY <1>1, <1>5, <2>2, <3>1, FileKinds DEF AnswerHolds
  <2> QED
    BY <1>1, <2>1, <2>2
<1>7. Single(k)' /\ LocalHolds(k)'
  BY <1>1, <1>4, <1>5 DEF Agreed, Single, LocalHolds
<1>8. ShownHolds(k)'
  BY <1>1, <1>2 DEF ShownHolds
<1>9. \A d \in Edit : Copies(d)' <=> Copies(d)
  BY <1>1 DEF Copies
<1>10. ChangeHolds(k)'
  BY <1>1, <1>4, <1>5, ChangeSame DEF Agreed
<1>11. CopyHolds(k)'
  BY <1>1, <1>4, <1>5, <1>9 DEF Agreed, CopyHolds
<1>12. FileHolds(k)'
  BY <1>1, <1>4, <1>5 DEF Agreed, FileHolds
<1> QED
  BY <1>6, <1>7, <1>8, <1>10, <1>11, <1>12 DEF Agreed

\* A step of the page alone: it shows what it did, or an answer, or nothing.
LEMMA PageKeepsAgreed ==
  ASSUME PanelInv, AllAgreed, UNCHANGED <<service, local, call>>,
         answer' \in {answer, << >>},
         ~loaded' \/ UNCHANGED <<shown, loaded>> \/ (answer # << >> /\ shown' = answer[1])
  PROVE  AllAgreed'
<1>1. UNCHANGED <<up, memory, file, engines, lock, job, upset, clash>>
  BY DEF service
<1>2. SUFFICES ASSUME NEW k \in Key, k \notin upset' PROVE Agreed(k)'
  BY DEF AllAgreed
<1>3. Agreed(k)
  BY <1>1, <1>2 DEF AllAgreed
<1>4. Outstanding(k)' = Outstanding(k)
  BY <1>1 DEF Outstanding, Pending, Active
<1>5. Single(k)' /\ LocalHolds(k)'
  BY <1>1, <1>3, <1>4 DEF Agreed, Single, LocalHolds
<1>6. AnswerHolds(k)'
  BY <1>1, <1>3, <1>4 DEF Agreed, AnswerHolds
<1>7. ShownHolds(k)'
  <2>1. CASE ~loaded'
    BY <2>1 DEF ShownHolds
  <2>2. CASE UNCHANGED <<shown, loaded>>
    BY <1>1, <1>3, <1>4, <2>2 DEF Agreed, ShownHolds
  <2>3. CASE answer # << >> /\ shown' = answer[1]
    BY <1>1, <1>3, <1>4, <2>3 DEF Agreed, AnswerHolds, ShownHolds
  <2> QED
    BY <2>1, <2>2, <2>3
<1>8. \A d \in Edit : Copies(d)' <=> Copies(d)
  BY <1>1 DEF Copies
<1>9. ChangeHolds(k)'
  BY <1>1, <1>3, <1>4, ChangeSame DEF Agreed
<1>10. CopyHolds(k)'
  BY <1>1, <1>3, <1>4, <1>8 DEF Agreed, CopyHolds
<1>11. FileHolds(k)'
  BY <1>1, <1>3, <1>4 DEF Agreed, FileHolds
<1> QED
  BY <1>5, <1>6, <1>7, <1>9, <1>10, <1>11 DEF Agreed

\* The settings come; the panel is closed; a frame is asked for, or is there.
LEMMA PageStepsKeepAgreed ==
  ASSUME PanelInv, AllAgreed, InitControlPanel \/ ClosePanel \/ FrameAsked \/ ResizeFrame
  PROVE  AllAgreed'
<1>1. CASE InitControlPanel
  BY <1>1, PageKeepsAgreed DEF InitControlPanel, RenderSettings
<1>2. CASE ClosePanel
  BY <1>2, PageKeepsAgreed DEF ClosePanel
<1>3. CASE FrameAsked
  BY <1>3, PageKeepsAgreed DEF FrameAsked
<1>4. CASE ResizeFrame
  BY <1>4, PageKeepsAgreed DEF ResizeFrame
<1> QED
  BY <1>1, <1>2, <1>3, <1>4

\* The main process takes the answer to a request over, or gives the request up.
LEMMA CallsKeepAgreed ==
  ASSUME PanelInv, SettingsHaveValues, PanelHasCopies, AllAgreed,
         NEW e \in Edit, Answered(e) \/ Rejected(e)
  PROVE  AllAgreed'
<1>1. /\ call[e] = "pending" /\ call' = [call EXCEPT ![e] = "over"]
      /\ UNCHANGED <<up, memory, file, engines, lock, job, clash>>
      /\ UNCHANGED <<answer, loaded, shown>>
      /\ upset \subseteq upset'
  BY DEF Answered, Rejected, service, panel
<1>2. SUFFICES ASSUME NEW k \in Key, k \notin upset' PROVE Agreed(k)'
  BY DEF AllAgreed
<1>3. Agreed(k)
  BY <1>1, <1>2 DEF AllAgreed
<1>4. \A d \in Edit : Copies(d)' <=> Copies(d)
  BY <1>1 DEF Copies
<1>5. /\ Outstanding(k)' \subseteq Outstanding(k)
      /\ job[e].key # k => Outstanding(k)' = Outstanding(k)
      /\ job[e].key = k => e \in Outstanding(k)
      /\ \A d \in Outstanding(k) : d # e => d \in Outstanding(k)'
      /\ e \in Outstanding(k)' => e \in Active
  BY <1>1, OverOutstanding
<1>6. CASE job[e].key # k
  <2>1. Outstanding(k)' = Outstanding(k)
    BY <1>5, <1>6
  <2>2. k \in Local => local'[k] = local[k]
    BY <1>6 DEF Answered, Rejected, TakeOver, PanelInv, TypeOK
  <2>3. Single(k)' /\ LocalHolds(k)' /\ AnswerHolds(k)' /\ ShownHolds(k)'
    BY <1>1, <1>3, <2>1, <2>2 DEF Agreed, Single, LocalHolds, AnswerHolds, ShownHolds
  <2>4. ChangeHolds(k)'
    BY <1>1, <1>3, <2>1, ChangeSame DEF Agreed
  <2>5. CopyHolds(k)'
    BY <1>1, <1>3, <1>4, <2>1 DEF Agreed, CopyHolds
  <2>6. FileHolds(k)'
    BY <1>1, <1>3, <2>1 DEF Agreed, FileHolds
  <2> QED
    BY <2>3, <2>4, <2>5, <2>6 DEF Agreed
<1>7. CASE job[e].key = k
  <2>1. Answered(e)
    BY <1>2, <1>7 DEF Rejected
  <2>2. job[e].at = "done" /\ e \notin Active
    BY <2>1 DEF Answered, Active
  <2>3. \A d \in Outstanding(k) : d = e
    BY <1>3, <1>5, <1>7 DEF Agreed, Single
  <2>4. Outstanding(k)' = {} /\ e \in Outstanding(k)
    BY <1>5, <1>7, <2>2, <2>3
  <2>5. memory[k] = job[e].value
    BY <1>3, <2>2, <2>4 DEF Agreed, ChangeHolds
  <2>6. LocalHolds(k)'
    <3>1. k \in Local => local'[k] = job[e].value
      BY <1>7, <2>1 DEF Answered, TakeOver, PanelInv, TypeOK
    <3> QED
      BY <1>1, <2>5, <3>1 DEF LocalHolds
  <2>7. AnswerHolds(k)'
    BY <1>1, <1>3, <2>4 DEF Agreed, AnswerHolds
  <2>8. ShownHolds(k)'
    BY <1>1, <1>3, <2>4, <2>5 DEF Agreed, ShownHolds
  <2>9. Single(k)' /\ ChangeHolds(k)'
    BY <2>4 DEF Single, ChangeHolds
  <2>10. CopyHolds(k)'
    <3>1. \A d \in Outstanding(k) : job[d].at # "asked"
      BY <2>2, <2>3
    <3> QED
      BY <1>1, <1>3, <1>4, <3>1 DEF Agreed, CopyHolds
  <2>11. FileHolds(k)'
    <3>1. \A d \in Outstanding(k) : job[d].at = "done"
      BY <2>2, <2>3
    <3> QED
      BY <1>1, <1>3, <3>1 DEF Agreed, FileHolds
  <2> QED
    BY <2>6, <2>7, <2>8, <2>9, <2>10, <2>11 DEF Agreed
<1> QED
  BY <1>6, <1>7

-----------------------------------------------------------------------------
\* The specification

\* At the start nothing has been asked for, and all have the defaults.
LEMMA InitHolds ==
  ASSUME SettingsHaveValues, PanelHasCopies, Init
  PROVE  PanelInv /\ AllAgreed
<1>1. /\ up = TRUE /\ memory = Default /\ file = Whole(Default)
      /\ engines = [k \in EngineKey |-> Default[k]]
      /\ lock = 0 /\ job = [e \in Edit |-> NoJob] /\ upset = {} /\ clash = FALSE
      /\ crashes = 0 /\ local = [k \in Local |-> Default[k]] /\ call = [e \in Edit |-> "none"]
      /\ open = FALSE /\ answer = << >> /\ loaded = FALSE /\ shown = Default
      /\ polling = FALSE /\ frame = FALSE /\ size = << >>
  BY DEF Init, ServiceInit
<1>2. \A e \in Edit : job[e] = NoJob /\ job[e].at = "none" /\ call[e] = "none"
  BY <1>1 DEF NoJob
<1>3. Active = {} /\ Pending = {}
  BY <1>2 DEF Active, Pending
<1>4. Amid = {} /\ \A k : Outstanding(k) = {}
  BY <1>3 DEF Amid, Outstanding
<1>5. \A e \in Edit : ~Copies(e)
  BY <1>2 DEF Copies
<1>6. up \in BOOLEAN /\ clash \in BOOLEAN /\ open \in BOOLEAN /\ loaded \in BOOLEAN
  BY <1>1
<1>7. polling \in BOOLEAN /\ frame \in BOOLEAN
  BY <1>1
<1>8. job \in [Edit -> Job]
  BY <1>1 DEF Job
<1>9. /\ memory \in [Key -> Value] /\ engines \in [EngineKey -> Value]
      /\ local \in [Local -> Value] /\ shown \in [Key -> Value]
  BY <1>1 DEF SettingsHaveValues, PanelHasCopies
<1>10. ServiceTypeOK
  BY <1>1, <1>6, <1>8, <1>9 DEF ServiceTypeOK
<1>11. call \in [Edit -> {"none", "pending", "over"}] /\ crashes \in 0..MaxCrashes
  BY <1>1 DEF PanelHasCopies
<1>12. TypeOK
  BY <1>1, <1>6, <1>7, <1>9, <1>10, <1>11 DEF TypeOK
<1>13. EnginesSame
  BY <1>1 DEF EnginesSame, SettingsHaveValues
<1>14. FileReadable
  BY <1>1, FileKinds DEF FileReadable
<1>15. ServiceInv
  BY <1>1, <1>2, <1>3, <1>4, <1>5, <1>10, <1>13, <1>14
     DEF ServiceInv, JobsFit, Down, LockHolds, Alone, WritesEmptied
<1>16. PanelInv
  BY <1>1, <1>2, <1>3, <1>12, <1>15
     DEF PanelInv, CallsMatch, PanelFresh, Orphans, SizeFollowsContent
<1>17. file[1] = Default
  BY <1>1, FileKinds
<1>18. ASSUME NEW k \in Key PROVE Agreed(k)
  <2>1. k \in Local => local[k] = memory[k]
    BY <1>1 DEF PanelHasCopies
  <2>2. Single(k) /\ AnswerHolds(k) /\ ShownHolds(k) /\ LocalHolds(k)
    BY <1>1, <1>4, <2>1 DEF Single, AnswerHolds, ShownHolds, LocalHolds
  <2>3. ChangeHolds(k) /\ CopyHolds(k) /\ FileHolds(k)
    BY <1>1, <1>4, <1>5, <1>17 DEF ChangeHolds, CopyHolds, FileHolds
  <2> QED
    BY <2>2, <2>3 DEF Agreed
<1> QED
  BY <1>16, <1>18 DEF AllAgreed

\* Every step keeps both layers.
LEMMA NextKeeps ==
  ASSUME PanelInv, AllAgreed, SettingsHaveValues, PanelHasCopies, [Next]_vars
  PROVE  PanelInv' /\ AllAgreed'
<1>1. CASE ShowControlPanel
  BY <1>1, ShowKeepsPanel, ShowKeepsAgreed
<1>2. CASE InitControlPanel \/ ClosePanel \/ ResizeFrame
  BY <1>2, PageStepsKeepPanel, PageStepsKeepAgreed
<1>3. CASE RefreshDiagnostics \/ RenderPetTracker \/ WindowResized
  BY <1>3, PageStepsKeepPanel, PageStepsKeepAgreed
     DEF RefreshDiagnostics, RenderPetTracker, WindowResized
<1>4. CASE \E v \in Value : Check(v)
  <2>1. PICK v \in Value : Check(v)
    BY <1>4
  <2>2. ChangeSetting("ShowDiagnosticsPanel", v) /\ polling' = (v = 1)
    BY <2>1 DEF Check, SetDiagnosticsPollingEnabled
  <2>3. polling' \in BOOLEAN
    BY <2>2
  <2> QED
    BY <2>2, <2>3, ChangeKeepsPanel, ChangeKeepsAgreed DEF PanelHasCopies
<1>5. CASE \E v \in Value : \E k \in Key : Slide(k, v)
  <2>1. PICK v \in Value, k \in Key : Slide(k, v)
    BY <1>5
  <2>2. ChangeSetting(k, v) /\ polling' \in BOOLEAN
    BY <2>1 DEF Slide, PanelInv, TypeOK
  <2> QED
    BY <2>2, ChangeKeepsPanel, ChangeKeepsAgreed
<1>6. CASE \E e \in Edit : Answered(e) \/ Rejected(e)
  BY <1>6, CallsKeepPanel, CallsKeepAgreed
<1>7. CASE ServiceStep \/ BackendCrash
  BY <1>7, BackendKeepsPanel, BackendKeepsAgreed
<1>8. CASE UNCHANGED vars
  <2>1. /\ UNCHANGED <<service, crashes, local, call>>
        /\ UNCHANGED <<open, answer, loaded, shown, polling, frame, size>>
    BY <1>8 DEF vars, panel
  <2>2. PanelTypeOK' /\ PanelFresh'
    BY <2>1 DEF PanelInv, TypeOK, PanelTypeOK, PanelFresh
  <2>3. ServiceInv' /\ Active' = Active
    BY <2>1, IdleKeeps DEF service, PanelInv, ServiceInv, ServiceTypeOK
  <2>4. TypeOK'
    BY <2>2, <2>3 DEF TypeOK, PanelTypeOK, ServiceInv
  <2>5. CallsMatch' /\ Orphans'
    BY <2>1, <2>3 DEF PanelInv, CallsMatch, Orphans, service
  <2>6. Outstanding("ShowDiagnosticsPanel")' = Outstanding("ShowDiagnosticsPanel")
    BY <2>1, <2>3 DEF Outstanding, Pending, service
  <2>7. SizeFollowsContent'
    BY <2>1, <2>6 DEF PanelInv, SizeFollowsContent, Content, service
  <2>8. AllAgreed'
    BY <2>1, PageKeepsAgreed
  <2> QED
    BY <2>2, <2>3, <2>4, <2>5, <2>7, <2>8 DEF PanelInv
<1> QED
  BY <1>1, <1>2, <1>3, <1>4, <1>5, <1>6, <1>7, <1>8 DEF Next

\* Both layers hold in every behaviour.
LEMMA InvHolds == Spec => [](PanelInv /\ AllAgreed)
<1>1. Init => PanelInv /\ AllAgreed
  BY InitHolds, SettingsHaveValues, PanelHasCopies
<1>2. PanelInv /\ AllAgreed /\ [Next]_vars => (PanelInv /\ AllAgreed)'
  BY NextKeeps, SettingsHaveValues, PanelHasCopies
<1> QED
  BY <1>1, <1>2, PTL DEF Spec

\* Every variable of the panel, the main process and the backend keeps its type: every
\* request is of the kind its progress calls for.
THEOREM TypeCorrect == Spec => []TypeOK
<1>1. PanelInv => TypeOK
  BY DEF PanelInv
<1> QED
  BY <1>1, InvHolds, PTL

\* The engines have the settings the backend reports whenever nobody holds the lock, for
\* all settings, requests, failures, crashes and restarts.
THEOREM EnginesHaveSettings == Spec => []EnginesAgree
<1>1. PanelInv => EnginesAgree
  BY DEF PanelInv, ServiceInv, EnginesSame, EnginesAgree
<1> QED
  BY <1>1, InvHolds, PTL

\* The file of the settings can be read whenever nobody writes it, unless a crash caught
\* the write or a change of the volume got in its way.
THEOREM FileStaysReadable == Spec => []FileReadable
<1>1. PanelInv => FileReadable
  BY DEF PanelInv, ServiceInv
<1> QED
  BY <1>1, InvHolds, PTL

\* The window has the size of what the panel shows once no frame is awaited.
THEOREM SizeFollows == Spec => []SizeFollowsContent
<1>1. PanelInv => SizeFollowsContent
  BY DEF PanelInv
<1> QED
  BY <1>1, InvHolds, PTL

\* The last change of every setting that nothing got in the way of is what the backend,
\* its file, the engines, the main process and the panel have.
THEOREM LastChangeStays == Spec => []LastChangeHolds
<1>1. ASSUME PanelInv, AllAgreed, NEW k \in Key \ upset, up, Outstanding(k) = {}
      PROVE  /\ Amid = {} /\ ~clash /\ Len(file) = 1 => file[1][k] = memory[k]
             /\ k \in EngineKey => engines[k] = memory[k]
             /\ k \in Local => local[k] = memory[k]
             /\ loaded => shown[k] = memory[k]
  <2>1. FileHolds(k) /\ LocalHolds(k) /\ ShownHolds(k)
    BY <1>1 DEF AllAgreed, Agreed
  <2>2. EnginesSame
    BY <1>1 DEF PanelInv, ServiceInv
  <2> QED
    BY <1>1, <2>1, <2>2 DEF FileHolds, LocalHolds, ShownHolds, EnginesSame
<1>2. PanelInv /\ AllAgreed => LastChangeHolds
  BY <1>1 DEF LastChangeHolds
<1> QED
  BY <1>2, InvHolds, PTL
=============================================================================
