--------------------------- MODULE EditorDocument ---------------------------
(***************************************************************************)
(* What the animation editor does to a pet's document: renaming and         *)
(* deleting animations with the references to them, the values its fields   *)
(* produce, normalisation, validation, the graph it draws and the places it *)
(* keeps for the graph's nodes.                                             *)
(*                                                                         *)
(* Kept of a document is what refers to animations.  The scalar fields of   *)
(* an animation, and those of header and image, count as fit or not: fit is *)
(* what validation has no error for.  A layout is the set of animations     *)
(* that have a place in it; spawns and children are laid out like them.     *)
(***************************************************************************)
EXTENDS Filters, SequencesExt

CONSTANT AnimationId   \* the ids animations and references may have; 0 is never valid

ASSUME IdsAreNumbers == AnimationId \subseteq Nat

Group == {"sequence", "border", "gravity"}

\* A reference chosen in a target list holds the string of the <select>.
Reference == [value : AnimationId \cup {0}, picked : BOOLEAN]

To(id) == [value |-> id, picked |-> FALSE]

AnimationEntry == [id : AnimationId, fit : BOOLEAN, links : [Group -> Seq(Reference)]]

Document == [fit        : BOOLEAN,
             animations : Seq(AnimationEntry),
             spawns     : Seq(Reference),
             children   : Seq([animation : AnimationId, next : Reference]),
             sounds     : Seq(AnimationId)]

Ids(document) == {document.animations[i].id : i \in DOMAIN document.animations}

\* Every reference that transitions, spawns and children hold.
References(document) ==
  (UNION {UNION {ToSet(document.animations[i].links[g]) : g \in Group} :
            i \in DOMAIN document.animations})
    \cup ToSet(document.spawns)
    \cup {document.children[i].next : i \in DOMAIN document.children}

-----------------------------------------------------------------------------
(* Editing *)

MapSeq(Op(_), s) == [i \in DOMAIN s |-> Op(s[i])]

\* A string is never equal to the number it stands for.
Redirect(reference, previous, next) ==
  IF reference = To(previous) THEN To(next) ELSE reference

\* Mutant of RewriteAnimationReferences: forgets the spawns.
RewriteWithoutSpawns(document, previous, next) ==
  LET redirect(r) == Redirect(r, previous, next)
      renamed(id) == IF id = previous THEN next ELSE id
  IN  [document EXCEPT
         !.animations = MapSeq(LAMBDA a : [a EXCEPT !.links =
                                 [g \in Group |-> MapSeq(redirect, @[g])]], @),
         !.children = MapSeq(LAMBDA c : [animation |-> renamed(c.animation),
                                         next |-> redirect(c.next)], @),
         !.sounds = MapSeq(renamed, @)]

RewriteAnimationReferences(document, previous, next) ==
  LET redirect(r) == Redirect(r, previous, next)
      renamed(id) == IF id = previous THEN next ELSE id
  IN  [document EXCEPT
         !.animations = MapSeq(LAMBDA a : [a EXCEPT !.links =
                                 [g \in Group |-> MapSeq(redirect, @[g])]], @),
         !.spawns = MapSeq(redirect, @),
         !.children = MapSeq(LAMBDA c : [animation |-> renamed(c.animation),
                                         next |-> redirect(c.next)], @),
         !.sounds = MapSeq(renamed, @)]

\* The ID field of the i-th animation; another animation may have the id already.
RenameAnimation(document, i, id) ==
  RewriteAnimationReferences([document EXCEPT !.animations[i].id = id],
                             document.animations[i].id, id)

\* Deleting removes every animation of the id, every number that refers to it,
\* and the spawns, children and sounds that do.
DeleteAnimation(document, id) ==
  LET others(references) == Without(references, {To(id)})
  IN  [document EXCEPT
         !.animations = MapSeq(LAMBDA a : [a EXCEPT !.links =
                                 [g \in Group |-> others(@[g])]],
                               Without(@, {a \in ToSet(@) : a.id = id})),
         !.spawns = others(@),
         !.children = Without(@, {c \in ToSet(@) : c.animation = id \/ c.next = To(id)}),
         !.sounds = Without(@, {id})]

\* The new transition leads back to its owner.
AddTransition(document, i, g) ==
  [document EXCEPT !.animations[i].links[g] = Append(@, To(document.animations[i].id))]

DeleteTransition(document, i, g, k) ==
  [document EXCEPT !.animations[i].links[g] = RemoveAt(@, k)]

\* The target lists of transitions and spawns are <select> elements, whose value
\* parseInputValue passes on as it is.
Picked(id) == [value |-> id, picked |-> TRUE]

\* Where a document has transitions: owner, group and place in the list.
TransitionsOf(document) ==
  UNION {{<<i, g, k>> : k \in DOMAIN document.animations[i].links[g]} :
           i \in DOMAIN document.animations, g \in Group}

\* A choice in the target list of a transition, of a spawn and of a child.
PickTransition(document, t, id) ==
  [document EXCEPT !.animations[t[1]].links[t[2]][t[3]] = Picked(id)]

PickSpawn(document, k, id) == [document EXCEPT !.spawns[k] = Picked(id)]

PickNext(document, k, id) == [document EXCEPT !.children[k].next = Picked(id)]

TargetEdits(document) ==
  {PickTransition(document, t, id) : t \in TransitionsOf(document), id \in Ids(document)}
  \cup {PickSpawn(document, k, id) : k \in DOMAIN document.spawns, id \in Ids(document)}
  \cup {PickNext(document, k, id) : k \in DOMAIN document.children, id \in Ids(document)}

\* What the other fields commit.  A commit that changes nothing is one too:
\* leaving a field commits it.
SetFit(document, fit) == [document EXCEPT !.fit = fit]

SetEntryFit(document, i, fit) == [document EXCEPT !.animations[i].fit = fit]

SetParent(document, k, id) == [document EXCEPT !.children[k].animation = id]

FieldEdits(document) ==
  {document} \cup {SetFit(document, fit) : fit \in BOOLEAN}
  \cup {SetEntryFit(document, i, fit) : i \in DOMAIN document.animations, fit \in BOOLEAN}
  \cup {SetParent(document, k, id) : k \in DOMAIN document.children, id \in AnimationId}

TransitionEdits(document) ==
  {AddTransition(document, i, g) : i \in DOMAIN document.animations, g \in Group}
  \cup {DeleteTransition(document, t[1], t[2], t[3]) : t \in TransitionsOf(document)}

-----------------------------------------------------------------------------
(* Normalisation and validation *)

\* A value that is no number becomes 0.
NormalizeDocument(document) ==
  LET number(r) == IF r.picked THEN To(0) ELSE r
  IN  [document EXCEPT
         !.animations = MapSeq(LAMBDA a : [a EXCEPT !.links =
                                 [g \in Group |-> MapSeq(number, @[g])]], @),
         !.spawns = MapSeq(number, @),
         !.children = MapSeq(LAMBDA c : [c EXCEPT !.next = number(@)], @)]

ValidTarget(document, reference) ==
  ~reference.picked /\ reference.value > 0 /\ reference.value \in Ids(document)

\* No errors; sounds are not looked at.
Valid(document) ==
  LET animations == document.animations
  IN
  /\ document.fit
  /\ \A i \in DOMAIN animations :
       /\ animations[i].fit /\ animations[i].id > 0
       /\ \A j \in DOMAIN animations : animations[i].id = animations[j].id => i = j
  /\ \A r \in References(document) : ValidTarget(document, r)
  /\ \A i \in DOMAIN document.children : document.children[i].animation \in Ids(document) \ {0}

-----------------------------------------------------------------------------
(* The graph and its layout *)

\* An edge is drawn to the node named by the reference, number or string.
EdgeTargets(document) == {r.value : r \in References(document)}

\* The layout engine refuses a graph with an edge to a node that is not there.
LaidOut(document) == EdgeTargets(document) \subseteq Ids(document)

DefaultLayout(document) == Ids(document)

MergeLayout(document, saved) == DefaultLayout(document) \cup saved

\* Renaming moves the place; an id committed unchanged loses it until the merge.
MoveKey(layout, previous, next) ==
  IF previous \in layout THEN (layout \cup {next}) \ {previous} ELSE layout
=============================================================================
