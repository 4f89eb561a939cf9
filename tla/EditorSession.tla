---------------------------- MODULE EditorSession ----------------------------
(***************************************************************************)
(* One animation editor window: EditorApp in the renderer, EditorWindow-    *)
(* Manager in the main process, and the files they read and write.          *)
(*                                                                         *)
(* Opening, saving and laying out are asynchronous: what they captured or   *)
(* read is applied when the answer comes, whatever happened in between.     *)
(* A save writes through a temporary file; a file is an inode, so that a    *)
(* writer keeps the file it opened when another save renames it.            *)
(*                                                                         *)
(* The page subscribes to the main process when it is mounted.  The preload *)
(* script does not offer that: as it is, every page fails there, and what   *)
(* follows is the editor behind that failure.                               *)
(***************************************************************************)
EXTENDS EditorDocument, FiniteSets

CONSTANTS
  Path,        \* file names a document may have
  Home,        \* the document the window opens with
  Resolved,    \* resolveDocumentPath: the animations.json beside each path
  Original,    \* the document at Home
  Torn,        \* the content of a file that is not written out
  NoDocument,
  Subscribes,  \* whether window.clodPet has the method "on"
  MaxEdits,    \* bound on edits
  MaxSaves,    \* bound on saves
  MaxInputs,   \* bound on edits, saves, opens and layouts together
  MaxCrashes   \* bound on crashes of the application

ASSUME HomeIsPath == Home \in Path /\ Resolved \in [Path -> Path] /\ Resolved[Home] = Home
ASSUME OriginalIsDocument == Original \in Document

\* The markers are no documents.
ASSUME MarkersApart == Torn \notin Document /\ NoDocument \notin Document

ASSUME PreloadKnown == Subscribes \in BOOLEAN

ASSUME EditorBounds == {MaxEdits, MaxSaves, MaxInputs, MaxCrashes} \subseteq Nat

VARIABLES
  window,      \* "closed", "open", or "wiped": replaced by an error page
  booted,      \* bootstrapPathRef is set
  document, layout, path, dirty,
  history,     \* the snapshots of document and layout, oldest first
  index,       \* historyIndex + 1
  loads, saves, relayout,  \* requests under way
  unheard,     \* the numbers of the saves whose page was closed
  disk,        \* the inodes of each file and of its temporary file, 0 for none,
               \* and the places of the layout sidecar beside it
  content,     \* of each inode
  raced,       \* edits, loads and saves got in each other's way
  overlapped,  \* two saves wrote the same file at the same time
  edits, saved, inputs, crashes

session  == <<document, layout, path, dirty, history, index>>
requests == <<loads, saves, relayout>>
files    == <<disk, content>>
bounds   == <<edits, saved, inputs, crashes>>
vars     == <<window, booted, session, requests, unheard, files, raced, overlapped, bounds>>

Inode == 1..MaxSaves + 1

Idle == [stage |-> "idle"]

Init ==
  /\ window = "closed" /\ booted = FALSE
  /\ document = NoDocument /\ layout = {} /\ path = Home /\ dirty = FALSE
  /\ history = << >> /\ index = 0
  /\ loads = {} /\ saves = {} /\ relayout = Idle /\ unheard = {}
  /\ disk = [p \in Path |-> [main |-> IF p = Home THEN 1 ELSE 0, tmp |-> 0, places |-> {}]]
  /\ content = [i \in Inode |-> IF i = 1 THEN Original ELSE Torn]
  /\ raced = FALSE /\ overlapped = FALSE
  /\ edits = 0 /\ saved = 0 /\ inputs = 0 /\ crashes = 0

\* An input within the bound.
Counts == inputs < MaxInputs /\ inputs' = inputs + 1

Loaded == window = "open" /\ document # NoDocument

-----------------------------------------------------------------------------
(* The window *)

\* A new page has everything to load; saves of the page before may go on.
Show ==
  /\ window = "closed"
  /\ window' = "open" /\ booted' = FALSE
  /\ document' = NoDocument /\ layout' = {} /\ path' = Home /\ dirty' = FALSE
  /\ history' = << >> /\ index' = 0
  /\ raced' = (saves # {})
  /\ UNCHANGED <<requests, unheard, files, overlapped, bounds>>

\* The page is mounted.  It asks for its path, and subscribes to those sent when the
\* window is shown again, which it does not load twice.  Where it cannot subscribe,
\* the effect throws: an error is shown instead, and what was asked for is not.
Bootstrap ==
  /\ window = "open" /\ ~booted
  /\ booted' = TRUE
  /\ IF Subscribes
     THEN /\ loads' = loads \cup {[n |-> 0, at |-> Home, stage |-> "asked", got |-> Torn,
                                   discards |-> dirty, confirmed |-> FALSE]}
          /\ raced' = (raced \/ saves # {})
          /\ UNCHANGED window
     ELSE window' = "wiped" /\ UNCHANGED <<loads, raced>>
  /\ UNCHANGED <<session, saves, unheard, relayout, files, overlapped, bounds>>

\* The beforeunload handler keeps a window with unsaved changes open.
Close ==
  /\ window \in {"open", "wiped"} /\ ~dirty
  /\ window' = "closed"
  /\ loads' = {} /\ relayout' = Idle
  /\ unheard' = {s.n : s \in saves}
  /\ UNCHANGED <<booted, session, saves, files, raced, overlapped, bounds>>

\* The application dies with all it had under way; the files stay.
Crash ==
  /\ window # "closed" /\ crashes < MaxCrashes
  /\ crashes' = crashes + 1
  /\ window' = "closed"
  /\ loads' = {} /\ saves' = {} /\ relayout' = Idle /\ unheard' = {}
  /\ UNCHANGED <<booted, session, files, raced, overlapped, edits, saved, inputs>>

-----------------------------------------------------------------------------
(* Opening documents *)

\* Opening a file or a directory, a recent document, and reverting: the user
\* confirms when there are unsaved changes.  The page asks for its bootstrap path
\* before the user can do anything.
RequestLoad(p) ==
  /\ window = "open" /\ booted
  /\ Counts
  /\ loads' = loads \cup {[n |-> inputs', at |-> p, stage |-> "asked", got |-> Torn,
                           discards |-> dirty, confirmed |-> dirty]}
  /\ raced' = (raced \/ saves # {})
  /\ UNCHANGED <<window, booted, session, saves, unheard, relayout, files, overlapped,
                 edits, saved, crashes>>

Snapshot(d, places) == [document |-> d, layout |-> places]

FileAt(p) == IF disk[p].main = 0 THEN Torn ELSE content[disk[p].main]

\* The main process reads the file.  A file that is missing or torn is an error
\* nobody handles: the page shows it instead of the editor.
ReadDocument(l) ==
  /\ l \in loads /\ l.stage = "asked"
  /\ LET p    == Resolved[l.at]
         read == NormalizeDocument(FileAt(p))
     IN  IF FileAt(p) = Torn
         THEN window' = "wiped" /\ loads' = loads \ {l}
         ELSE /\ loads' = (loads \ {l}) \cup
                   {[l EXCEPT !.stage = "read",
                              !.got = Snapshot(read, MergeLayout(read, disk[p].places))]}
              /\ UNCHANGED window
  /\ UNCHANGED <<booted, session, saves, unheard, relayout, files, raced, overlapped, bounds>>

\* The document opened is where undo ends.
LoadAnswer(l) ==
  /\ l \in loads /\ l.stage = "read"
  /\ document' = l.got.document /\ layout' = l.got.layout
  /\ path' = Resolved[l.at] /\ dirty' = FALSE
  /\ history' = <<l.got>> /\ index' = 1
  /\ loads' = loads \ {l}
  /\ raced' = (raced \/ saves # {})
  /\ UNCHANGED <<window, booted, saves, unheard, relayout, files, overlapped, bounds>>

-----------------------------------------------------------------------------
(* Editing *)

\* Mutant of RecordSnapshot: the snapshots that were undone stay in front.
RecordAtEnd(next, places) ==
  /\ document' = next /\ layout' = places /\ dirty' = TRUE
  /\ history' = Append(history, Snapshot(next, places))
  /\ index' = index + 1
  /\ raced' = (raced \/ saves # {})
  /\ UNCHANGED <<booted, path, loads, saves, unheard, files, overlapped, saved, crashes>>

\* Mutant of RecordSnapshot: the current snapshot goes too.
RecordOverCurrent(next, places) ==
  /\ document' = next /\ layout' = places /\ dirty' = TRUE
  /\ history' = Append(SubSeq(history, 1, index - 1), Snapshot(next, places))
  /\ index' = Len(history')
  /\ raced' = (raced \/ saves # {})
  /\ UNCHANGED <<booted, path, loads, saves, unheard, files, overlapped, saved, crashes>>

\* What was undone before is forgotten.
RecordSnapshot(next, places) ==
  /\ document' = next /\ layout' = places /\ dirty' = TRUE
  /\ history' = Append(SubSeq(history, 1, index), Snapshot(next, places))
  /\ index' = Len(history')
  /\ raced' = (raced \/ saves # {})
  /\ UNCHANGED <<booted, path, loads, saves, unheard, files, overlapped, saved, crashes>>

Edit(next, places) ==
  /\ edits < MaxEdits /\ Counts
  /\ edits' = edits + 1
  /\ RecordSnapshot(next, places)
  /\ UNCHANGED <<window, relayout>>

\* A field that is left or a target that is chosen; leaving a field unchanged
\* records what it finds.
CommitField ==
  /\ Loaded
  /\ \E next \in FieldEdits(document) \cup TargetEdits(document) :
       Edit(next, MergeLayout(next, layout))

CommitId ==
  /\ Loaded
  /\ \E i \in DOMAIN document.animations, id \in AnimationId :
       LET next == RenameAnimation(document, i, id)
       IN  Edit(next, MergeLayout(next, MoveKey(layout, document.animations[i].id, id)))

EditTransitions ==
  /\ Loaded
  /\ \E next \in TransitionEdits(document) : Edit(next, layout)

\* A node has been dragged to another place.
DragNode ==
  /\ Loaded
  /\ \E id \in Ids(document) : Edit(document, layout \cup {id})

\* A frame from the picker can make an animation fit, and no other unfit.
AddFrame ==
  /\ Loaded
  /\ \E i \in DOMAIN document.animations, fits \in BOOLEAN :
       Edit(SetEntryFit(document, i, document.animations[i].fit \/ fits), layout)

\* The selection may name an animation an undo has taken away.
DeleteSelection ==
  /\ Loaded
  /\ \E id \in AnimationId : Edit(DeleteAnimation(document, id), layout \ {id})

\* Going to the i-th snapshot is a change like any other.
Visit(i, changed) ==
  /\ document' = history[i].document
  /\ layout' = MergeLayout(history[i].document, history[i].layout)
  /\ dirty' = changed
  /\ index' = i
  /\ raced' = (raced \/ saves # {})
  /\ UNCHANGED <<window, booted, path, history, requests, unheard, files, overlapped, bounds>>

\* Mutant of Undo: back at the first snapshot the document counts as saved.
UndoToClean == Loaded /\ index > 1 /\ Visit(index - 1, index > 2)

Undo == Loaded /\ index > 1 /\ Visit(index - 1, TRUE)

Redo == Loaded /\ index < Len(history) /\ Visit(index + 1, TRUE)

\* The layout engine works beside the editor, on the document it was given.
Relayout ==
  /\ Loaded /\ relayout = Idle
  /\ Counts
  /\ relayout' = [stage |-> "asked", snapshot |-> Snapshot(document, layout)]
  /\ UNCHANGED <<window, booted, session, loads, saves, unheard, files, raced, overlapped,
                 edits, saved, crashes>>

\* The snapshot it was given becomes the document; a rejection is not handled.
RelayoutAnswer ==
  /\ relayout # Idle
  /\ LET asked == relayout.snapshot
     IN  IF LaidOut(asked.document)
         THEN /\ RecordSnapshot(asked.document, asked.layout \cup Ids(asked.document))
              /\ UNCHANGED window
         ELSE /\ window' = "wiped"
              /\ UNCHANGED <<booted, session, loads, saves, unheard, files, raced,
                             overlapped, saved, crashes>>
  /\ relayout' = Idle
  /\ UNCHANGED <<edits, inputs>>

-----------------------------------------------------------------------------
(* Saving *)

\* What the window holds is captured; Save As asks for a path.
Save(target) ==
  /\ Loaded /\ saved < MaxSaves
  /\ Counts
  /\ saved' = saved + 1
  /\ saves' = saves \cup {[n |-> saved', to |-> target, stage |-> "asked",
                           snapshot |-> Snapshot(document, layout), inode |-> 0]}
  /\ raced' = (raced \/ loads # {} \/ \E s \in saves : s.to = target)
  /\ overlapped' = (overlapped \/ \E s \in saves : s.to = target)
  /\ UNCHANGED <<window, booted, session, loads, unheard, relayout, files, edits, crashes>>

\* A failed save is only reported.
Fails(s) == saves' = saves \ {s}

Goes(s, stage, inode) ==
  saves' = (saves \ {s}) \cup {[s EXCEPT !.stage = stage, !.inode = inode]}

Opens(s, inode) ==
  /\ disk' = [disk EXCEPT ![s.to].tmp = inode]
  /\ content' = [content EXCEPT ![inode] = Torn]
  /\ Goes(s, "write", inode)

\* A new file gets an inode of its own.
InodeOf(name, s) == IF name = 0 THEN s.n + 1 ELSE name

\* Mutant of OpenTemporary: the document is not validated.
OpenUnchecked(s) ==
  /\ s.stage = "asked"
  /\ \/ Opens(s, InodeOf(disk[s.to].tmp, s))
     \/ Fails(s) /\ UNCHANGED files

\* A document with errors is refused; the save may be cancelled at a warning and
\* may miss an asset.  Opening the temporary file truncates the one that is there.
\* Before that a copy of the file is made; a save that fails to make one removes
\* the temporary file.
OpenTemporary(s) ==
  /\ s.stage = "asked"
  /\ \/ /\ Valid(NormalizeDocument(s.snapshot.document))
        /\ \/ Opens(s, InodeOf(disk[s.to].tmp, s))
           \/ Fails(s) /\ disk' = [disk EXCEPT ![s.to].tmp = 0] /\ UNCHANGED content
     \/ Fails(s) /\ UNCHANGED files

\* Mutant of WriteTemporary: a failed write leaves the temporary file, and it is
\* renamed all the same.
WriteAnyway(s) ==
  /\ s.stage = "write"
  /\ \/ content' = [content EXCEPT ![s.inode] = NormalizeDocument(s.snapshot.document)]
     \/ UNCHANGED content
  /\ Goes(s, "rename", s.inode) /\ UNCHANGED disk

\* A write that fails removes the temporary file, whoever it belongs to.
WriteTemporary(s) ==
  /\ s.stage = "write"
  /\ \/ /\ content' = [content EXCEPT ![s.inode] = NormalizeDocument(s.snapshot.document)]
        /\ Goes(s, "rename", s.inode) /\ UNCHANGED disk
     \/ disk' = [disk EXCEPT ![s.to].tmp = 0] /\ Fails(s) /\ UNCHANGED content

\* Without the layout sidecar the save counts as failed although the document is
\* in place.  A rename that fails removes the temporary file.
RenameTemporary(s) ==
  LET renamed == [disk EXCEPT ![s.to].main = disk[s.to].tmp, ![s.to].tmp = 0]
  IN
  /\ s.stage = "rename"
  /\ IF disk[s.to].tmp = 0 THEN Fails(s) /\ UNCHANGED disk
     ELSE \/ /\ disk' = [renamed EXCEPT ![Resolved[s.to]].places = s.snapshot.layout]
             /\ Goes(s, "done", s.inode)
          \/ disk' = renamed /\ Fails(s)
          \/ disk' = [disk EXCEPT ![s.to].tmp = 0] /\ Fails(s)
  /\ UNCHANGED content

SaveStep(s) ==
  /\ OpenTemporary(s) \/ WriteTemporary(s) \/ RenameTemporary(s)
  /\ UNCHANGED <<window, booted, session, loads, unheard, relayout, raced, overlapped, bounds>>

\* The document of the page counts as saved, whichever it is by now; the answer to a
\* page that is gone reaches no other.
SaveAnswer(s) ==
  /\ s.stage = "done"
  /\ saves' = saves \ {s}
  /\ IF s.n \notin unheard
     THEN path' = s.to /\ dirty' = FALSE
     ELSE UNCHANGED <<path, dirty>>
  /\ UNCHANGED <<window, booted, document, layout, history, index, loads, unheard, relayout,
                 files, raced, overlapped, bounds>>

-----------------------------------------------------------------------------
Next ==
  \/ Show \/ Bootstrap \/ Close \/ Crash
  \/ \E p \in Path : RequestLoad(p) \/ Save(p)
  \/ \E l \in loads : ReadDocument(l) \/ LoadAnswer(l)
  \/ CommitField \/ CommitId \/ EditTransitions \/ DeleteSelection
  \/ DragNode \/ AddFrame
  \/ Undo \/ Redo \/ Relayout \/ RelayoutAnswer
  \/ \E s \in saves : SaveStep(s) \/ SaveAnswer(s)

Spec == Init /\ [][Next]_vars

-----------------------------------------------------------------------------
(* Properties *)

Snapshots == [document : Document, layout : SUBSET AnimationId]

\* A load holds what it read.
LoadRequest == [n : 0..MaxInputs, at : Path, stage : {"asked", "read"},
                got : Snapshots \cup {Torn}, discards : BOOLEAN, confirmed : BOOLEAN]

SaveRequest == [n : 1..MaxSaves, to : Path, stage : {"asked", "write", "rename", "done"},
                snapshot : Snapshots, inode : Inode \cup {0}]

TypeOK ==
  /\ window \in {"closed", "open", "wiped"}
  /\ booted \in BOOLEAN /\ dirty \in BOOLEAN /\ raced \in BOOLEAN /\ overlapped \in BOOLEAN
  /\ document \in Document \cup {NoDocument} /\ layout \subseteq AnimationId
  /\ path \in Path /\ unheard \subseteq 1..MaxSaves
  /\ history \in Seq(Snapshots) /\ index \in 0..Len(history)
  /\ loads \subseteq LoadRequest /\ \A l \in loads : l.stage = "read" => l.got \in Snapshots
  /\ saves \subseteq SaveRequest
  /\ relayout \in {Idle} \cup [stage : {"asked"}, snapshot : Snapshots]
  /\ disk \in [Path -> [main : Inode \cup {0}, tmp : Inode \cup {0},
                       places : SUBSET AnimationId]]
  /\ content \in [Inode -> Document \cup {Torn}]
  /\ edits \in 0..MaxEdits /\ saved \in 0..MaxSaves
  /\ inputs \in 0..MaxInputs /\ crashes \in 0..MaxCrashes

\* Undo and redo work on the document on the screen: it is the snapshot of
\* historyIndex, whatever loads, edits and layouts came in which order.
HistoryHoldsDocument ==
  document # NoDocument => index \in DOMAIN history /\ history[index].document = document

\* Editing keeps the document together: a reference the user did not pick from a
\* target list, and a sound, leads to an animation of the document, and every
\* animation has a place in the layout, which "Center" relies on.
ReferencesResolve ==
  document # NoDocument =>
    /\ \A r \in References(document) : r.picked \/ r.value \in Ids(document)
    /\ ToSet(document.sounds) \subseteq Ids(document)
    /\ Ids(document) \subseteq layout

\* A document without the star in the title is what the file the title names holds, as
\* long as nothing was edited or opened during a save.  Opening the path shows it only
\* if that is where opening leads, Resolved[path] = path.
CleanMatchesFile ==
  Loaded /\ ~dirty /\ ~raced =>
    FileAt(path) # Torn /\ NormalizeDocument(FileAt(path)) = document

\* A crash at any moment leaves every file as the editor found it or whole and
\* valid, as long as no two saves write the same file at the same time.
FilesWhole ==
  ~overlapped =>
    \A p \in Path : disk[p].main # 0 =>
      LET found == content[disk[p].main]
      IN  found = Original \/ (found # Torn /\ Valid(found))

\* No edit is lost beyond undo: a document that is replaced while the window is
\* open stays among the snapshots, or makes way for one whose load the user asked
\* for, or confirmed, if there were unsaved changes then. Showing the window again
\* asks for none.
EditsAreKept ==
  [][ (document' # document /\ window = "open" /\ window' = "open")
        => \/ \E i \in DOMAIN history' : history'[i].document = document
           \/ \E l \in loads \ loads' : l.discards => l.confirmed ]_vars
=============================================================================
