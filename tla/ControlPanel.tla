---------------------------- MODULE ControlPanel ----------------------------
(***************************************************************************)
(* The control panel and the handlers of the main process behind it, on the  *)
(* settings of the backend.  The panel shows a change at once and asks the   *)
(* main process for it; that asks the backend, and when the backend has      *)
(* answered, it takes the change over for the windows of the pets.  The      *)
(* panel sizes its window to its content, once in a frame.                   *)
(***************************************************************************)
EXTENDS SettingsService

CONSTANTS
  Local,        \* the settings of which the main process has a copy
  MaxCrashes    \* bound: how often the backend crashes

ASSUME PanelHasCopies == Local \subseteq Key /\ "ShowDiagnosticsPanel" \in Key /\ MaxCrashes \in Nat

VARIABLES
  crashes,
  local,     \* the copies of the main process
  call,      \* of each request: "none", "pending" in the main process, or "over"
  open,      \* whether there is a panel
  answer,    \* the settings on their way to a panel that asked, << >> for none
  loaded,    \* whether they have come
  shown,     \* the settings the panel shows
  polling,   \* whether the timer of its tracker of pets runs
  frame,     \* whether an animation frame is requested
  size       \* the content the panel has last requested a size for

panel == <<open, answer, loaded, shown, polling, frame, size>>
vars == <<service, crashes, local, call, panel>>

\* What there is to see: the card of the diagnostics, or not.
Content == shown["ShowDiagnosticsPanel"]

Pending == {e \in Edit : call[e] = "pending"}

\* The requests for setting k that may still change something.
Outstanding(k) == {e \in Pending \cup Active : job[e].key = k}

Init ==
  /\ ServiceInit
  /\ crashes = 0 /\ local = [k \in Local |-> Default[k]] /\ call = [e \in Edit |-> "none"]
  /\ open = FALSE /\ answer = << >> /\ loaded = FALSE /\ shown = Default
  /\ polling = FALSE /\ frame = FALSE /\ size = << >>

-----------------------------------------------------------------------------
\* The panel

\* A new page shows what its markup says, polls, and asks for the settings, which
\* may fail.
ShowControlPanel ==
  /\ ~open /\ open' = TRUE /\ shown' = Default /\ polling' = TRUE
  /\ \/ /\ up /\ answer' = Whole(memory)
        /\ upset' = upset \cup {job[e].key : e \in Pending \cup Active}
     \/ UNCHANGED <<answer, upset>>
  /\ UNCHANGED <<up, memory, file, engines, lock, job, clash, crashes, local, call,
                 loaded, frame, size>>

SetDiagnosticsPollingEnabled(enabled) == polling' = enabled

\* The settings replace what is shown.
RenderSettings(settings) == shown' = settings /\ frame' = TRUE

InitControlPanel ==
  /\ answer # << >> /\ answer' = << >> /\ loaded' = TRUE
  /\ RenderSettings(answer[1])
  /\ SetDiagnosticsPollingEnabled(answer[1]["ShowDiagnosticsPanel"] = 1)
  /\ UNCHANGED <<service, crashes, local, call, open, size>>

\* The user changes setting k; a change nothing gets in the way of sets it right.
ChangeSetting(k, v) ==
  /\ open /\ v # shown[k] /\ shown' = [shown EXCEPT ![k] = v]
  /\ \E e \in Edit :
       /\ call[e] = "none" /\ \A d \in Edit : d < e => call[d] # "none"
       /\ call' = [call EXCEPT ![e] = "pending"]
       /\ IF up THEN Ask(e, k, v)
          ELSE job' = [job EXCEPT ![e] = [at |-> "failed", key |-> k, value |-> v]]
  /\ upset' = IF Outstanding(k) = {} /\ answer = << >> THEN upset \ {k} ELSE upset \cup {k}
  /\ UNCHANGED <<up, memory, file, engines, lock, clash, crashes, local, open, answer,
                 loaded, frame, size>>

Slide(k, v) ==
  k \in {"Volume", "Scale", "GravityFactor"} /\ ChangeSetting(k, v) /\ UNCHANGED polling

Check(v) ==
  ChangeSetting("ShowDiagnosticsPanel", v) /\ SetDiagnosticsPollingEnabled(v = 1)

\* Whatever an answer brings, the content may need another size.
FrameAsked ==
  frame' = TRUE /\ UNCHANGED <<service, crashes, local, call, open, answer, loaded, shown, polling, size>>

RenderPetTracker == polling /\ FrameAsked

\* By its timer, or by its button.
RefreshDiagnostics == open /\ Content = 1 /\ FrameAsked

\* The user gives the window another size, which is not changed back.
WindowResized == loaded /\ FrameAsked

\* Mutant of ResizeFrame: the frame counts as requested until the window has its
\* size, which is measured before.
ResizeFrameLate ==
  /\ frame
  /\ \/ size # <<Content>> /\ size' = <<Content>> /\ UNCHANGED frame
     \/ size # << >> /\ frame' = FALSE /\ UNCHANGED size
  /\ UNCHANGED <<service, crashes, local, call, open, answer, loaded, shown, polling>>

ResizeFrame ==
  /\ frame /\ frame' = FALSE /\ size' = <<Content>>
  /\ UNCHANGED <<service, crashes, local, call, open, answer, loaded, shown, polling>>

ClosePanel ==
  /\ open /\ open' = FALSE
  /\ answer' = << >> /\ loaded' = FALSE /\ shown' = Default
  /\ polling' = FALSE /\ frame' = FALSE /\ size' = << >>
  /\ UNCHANGED <<service, crashes, local, call>>

-----------------------------------------------------------------------------
\* The main process

\* Mutant of TakeOver: only the backend learns of a change.
NeverTakesOver(e) == UNCHANGED local

\* The change is applied to the windows of the pets.
TakeOver(e) ==
  LET k == job[e].key
  IN  local' = IF k \in Local THEN [local EXCEPT ![k] = job[e].value] ELSE local

\* The backend has made the change: the panel, if there is one, sizes its window.
Answered(e) ==
  /\ call[e] = "pending" /\ job[e].at = "done"
  /\ call' = [call EXCEPT ![e] = "over"] /\ TakeOver(e)
  /\ frame' = (frame \/ open)
  /\ UNCHANGED <<service, crashes, open, answer, loaded, shown, polling, size>>

\* The request has failed, or took five seconds; the panel says so and no more.
Rejected(e) ==
  /\ call[e] = "pending" /\ job[e].at # "done"
  /\ call' = [call EXCEPT ![e] = "over"]
  /\ upset' = upset \cup {job[e].key}
  /\ UNCHANGED <<up, memory, file, engines, lock, job, clash, crashes, local, panel>>

-----------------------------------------------------------------------------
ServiceStep ==
  /\ \/ \E e \in Edit : Serve(e)
     \/ Restart
  /\ UNCHANGED <<crashes, local, call, panel>>

BackendCrash ==
  /\ crashes < MaxCrashes /\ crashes' = crashes + 1 /\ Crash
  /\ UNCHANGED <<local, call, panel>>

Next ==
  \/ ShowControlPanel \/ InitControlPanel \/ ClosePanel
  \/ RefreshDiagnostics \/ RenderPetTracker \/ WindowResized \/ ResizeFrame
  \/ \E v \in Value : Check(v) \/ \E k \in Key : Slide(k, v)
  \/ \E e \in Edit : Answered(e) \/ Rejected(e)
  \/ ServiceStep \/ BackendCrash

\* The goroutines of the backend go on, the one that waits for the lock included;
\* every request is answered or given up; frames are drawn.
Fairness ==
  /\ WF_vars(ServiceStep) /\ WF_vars(ResizeFrame)
  /\ \A e \in Edit : WF_vars(Answered(e) \/ Rejected(e))

Spec == Init /\ [][Next]_vars /\ Fairness
-----------------------------------------------------------------------------
\* Properties

TypeOK ==
  /\ ServiceTypeOK /\ crashes \in 0..MaxCrashes
  /\ local \in [Local -> Value] /\ call \in [Edit -> {"none", "pending", "over"}]
  /\ open \in BOOLEAN /\ loaded \in BOOLEAN /\ polling \in BOOLEAN /\ frame \in BOOLEAN
  /\ answer \in {<< >>} \cup {Whole(settings) : settings \in [Key -> Value]}
  /\ shown \in [Key -> Value] /\ size \in {<< >>} \cup {<<v>> : v \in Value}

\* The last change of a setting, when it was answered and no other change of it, no
\* failure and no write without the lock got in its way, is what the backend, its
\* file if it can be read, the engines, the main process and the panel all have,
\* however the other settings were changed, lost or reset meanwhile.
LastChangeHolds ==
  \A k \in Key \ upset : up /\ Outstanding(k) = {} =>
    /\ Amid = {} /\ ~clash /\ Len(file) = 1 => file[1][k] = memory[k]
    /\ k \in EngineKey => engines[k] = memory[k]
    /\ k \in Local => local[k] = memory[k]
    /\ loaded => shown[k] = memory[k]

\* The engines move the pets by the settings the backend reports, at every moment
\* nobody holds the lock: also after a save has failed or the backend was restarted.
EnginesAgree == up /\ lock = 0 => \A k \in EngineKey : engines[k] = memory[k]

\* The file can be read whenever nobody writes it, unless a write was killed or
\* failed over the file it had emptied, or the volume was written, without the lock,
\* at the same time.
FileReadable ==
  Len(file) # 1 /\ ~clash => \E e \in Edit : job[e].at \in {"writing", "torn"}

\* The window is sized to what the panel shows when no frame is awaited: the guard
\* against two frames loses no change of the content, unless a change failed.
SizeFollowsContent ==
  loaded /\ ~frame /\ "ShowDiagnosticsPanel" \notin upset
    /\ Outstanding("ShowDiagnosticsPanel") = {} => size = <<Content>>

\* Nobody waits for the lock, or for an answer, for ever.
RequestsEnd == \A e \in Edit : job[e].at = "asked" ~> call[e] = "over" /\ e \notin Active
=============================================================================
