------------------------ MODULE EditorSessionProofs ------------------------
(***************************************************************************)
(* Proofs about the editor window, for every original document, every set   *)
(* of paths and ids, and any number of edits, saves and crashes.            *)
(*                                                                         *)
(* The invariants come in layers, each of which uses those before: the page *)
(* (types, history, requests), the files, what a clean document has to do   *)
(* with its file, and the references.  They rest on what the operators on   *)
(* documents return, preserve and rely on, which comes first.               *)
(***************************************************************************)
EXTENDS EditorSession, FiltersProofs

Links == [Group -> Seq(Reference)]
Child == [animation : AnimationId, next : Reference]

-----------------------------------------------------------------------------
(* Types *)

\* A document is known by its fields.
LEMMA DocumentFields ==
  ASSUME NEW d \in Document
  PROVE  /\ d.fit \in BOOLEAN /\ d.animations \in Seq(AnimationEntry)
         /\ d.spawns \in Seq(Reference) /\ d.children \in Seq(Child)
         /\ d.sounds \in Seq(AnimationId)
         /\ d = [fit |-> d.fit, animations |-> d.animations, spawns |-> d.spawns,
                 children |-> d.children, sounds |-> d.sounds]
BY DEF Document, Child

\* An animation of a document is known by its fields.
LEMMA AnimationFields ==
  ASSUME NEW d \in Document, NEW i \in DOMAIN d.animations
  PROVE  /\ d.animations[i] \in AnimationEntry
         /\ d.animations[i].id \in AnimationId /\ d.animations[i].fit \in BOOLEAN
         /\ d.animations[i].links \in Links
         /\ \A g \in Group : d.animations[i].links[g] \in Seq(Reference)
<1>1. d.animations[i] \in AnimationEntry
  BY DocumentFields
<1> QED BY <1>1 DEF AnimationEntry, Links

\* A reference is a number, or the text of one.
LEMMA ReferenceFields ==
  ASSUME NEW r \in Reference
  PROVE  r.value \in AnimationId \cup {0} /\ r.picked \in BOOLEAN
         /\ r = [value |-> r.value, picked |-> r.picked]
BY DEF Reference

\* Applying a function to each element.
LEMMA MapSeqTypes ==
  ASSUME NEW S, NEW T, NEW s \in Seq(S), NEW t,
         t = [i \in DOMAIN s |-> t[i]],
         \A i \in DOMAIN s : t[i] \in T
  PROVE  t \in Seq(T) /\ DOMAIN t = DOMAIN s /\ Len(t) = Len(s)
<1>1. Len(s) \in Nat /\ DOMAIN s = 1..Len(s)
  OBVIOUS
<1>2. t \in [1..Len(s) -> T]
  BY <1>1
<1> QED BY <1>1, <1>2, SeqDef

\* A record with the domain and the fields of a document.
LEMMA DocumentBuilt ==
  ASSUME NEW e, e = [x \in DOMAIN e |-> e[x]],
         DOMAIN e = {"fit", "animations", "spawns", "children", "sounds"}
  PROVE  e = [fit |-> e.fit, animations |-> e.animations, spawns |-> e.spawns,
              children |-> e.children, sounds |-> e.sounds]
OBVIOUS

\* Replacing fields of a document.
LEMMA DocumentWith ==
  ASSUME NEW d \in Document, NEW animations, NEW spawns, NEW children, NEW sounds
  PROVE  /\ [d EXCEPT !.animations = animations, !.spawns = spawns, !.children = children]
              = [fit |-> d.fit, animations |-> animations, spawns |-> spawns,
                 children |-> children, sounds |-> d.sounds]
         /\ [d EXCEPT !.animations = animations, !.spawns = spawns, !.children = children,
                      !.sounds = sounds]
              = [fit |-> d.fit, animations |-> animations, spawns |-> spawns,
                 children |-> children, sounds |-> sounds]
<1> DEFINE three == [d EXCEPT !.animations = animations, !.spawns = spawns,
                              !.children = children]
           four == [d EXCEPT !.animations = animations, !.spawns = spawns,
                             !.children = children, !.sounds = sounds]
<1>1. DOMAIN d = {"fit", "animations", "spawns", "children", "sounds"}
  BY DocumentFields
<1>2. /\ three = [x \in DOMAIN three |-> three[x]] /\ DOMAIN three = DOMAIN d
      /\ three.fit = d.fit /\ three.animations = animations /\ three.spawns = spawns
      /\ three.children = children /\ three.sounds = d.sounds
  BY <1>1
<1>3. /\ four = [x \in DOMAIN four |-> four[x]] /\ DOMAIN four = DOMAIN d
      /\ four.fit = d.fit /\ four.animations = animations /\ four.spawns = spawns
      /\ four.children = children /\ four.sounds = sounds
  BY <1>1
<1> HIDE DEF three, four
<1>4. /\ three = [fit |-> d.fit, animations |-> animations, spawns |-> spawns,
                  children |-> children, sounds |-> d.sounds]
      /\ four = [fit |-> d.fit, animations |-> animations, spawns |-> spawns,
                 children |-> children, sounds |-> sounds]
  BY <1>1, <1>2, <1>3, DocumentBuilt
<1> QED BY <1>4 DEF three, four

Number(r) == IF r.picked THEN To(0) ELSE r

\* Normalising goes over the references one by one.
LEMMA NormalizeFields ==
  ASSUME NEW d \in Document, NEW n, n = NormalizeDocument(d)
  PROVE  /\ n = [fit |-> d.fit, animations |-> n.animations, spawns |-> n.spawns,
                 children |-> n.children, sounds |-> d.sounds]
         /\ n.animations = [i \in DOMAIN d.animations |->
              [id |-> d.animations[i].id, fit |-> d.animations[i].fit,
               links |-> [g \in Group |->
                 [k \in DOMAIN d.animations[i].links[g] |->
                   Number(d.animations[i].links[g][k])]]]]
         /\ n.spawns = [k \in DOMAIN d.spawns |-> Number(d.spawns[k])]
         /\ n.children = [k \in DOMAIN d.children |->
              [animation |-> d.children[k].animation, next |-> Number(d.children[k].next)]]
<1> DEFINE links(a) == [g \in Group |-> [k \in DOMAIN a.links[g] |-> Number(a.links[g][k])]]
           animations == [i \in DOMAIN d.animations |->
                            [d.animations[i] EXCEPT !.links = links(d.animations[i])]]
           spawns == [k \in DOMAIN d.spawns |-> Number(d.spawns[k])]
           children == [k \in DOMAIN d.children |->
                            [d.children[k] EXCEPT !.next = Number(d.children[k].next)]]
<1>1. n = [d EXCEPT !.animations = animations, !.spawns = spawns, !.children = children]
  BY DEF NormalizeDocument, MapSeq, Number
<1>2. \A i \in DOMAIN d.animations :
        [d.animations[i] EXCEPT !.links = links(d.animations[i])] =
        [id |-> d.animations[i].id, fit |-> d.animations[i].fit,
         links |-> links(d.animations[i])]
  <2> TAKE i \in DOMAIN d.animations
  <2> HIDE DEF links
  <2> QED BY AnimationFields DEF AnimationEntry
<1>3. \A k \in DOMAIN d.children :
        [d.children[k] EXCEPT !.next = Number(d.children[k].next)] =
        [animation |-> d.children[k].animation, next |-> Number(d.children[k].next)]
  <2> TAKE k \in DOMAIN d.children
  <2>1. d.children[k] \in Child
    BY DocumentFields
  <2> QED BY <2>1 DEF Child
<1>4. animations = [i \in DOMAIN d.animations |->
        [id |-> d.animations[i].id, fit |-> d.animations[i].fit,
         links |-> links(d.animations[i])]]
  BY <1>2
<1>5. children = [k \in DOMAIN d.children |->
        [animation |-> d.children[k].animation, next |-> Number(d.children[k].next)]]
  BY <1>3
<1>6. n = [fit |-> d.fit, animations |-> animations, spawns |-> spawns,
           children |-> children, sounds |-> d.sounds]
  <2> HIDE DEF animations, spawns, children
  <2> QED BY <1>1, DocumentWith
<1>7. n.animations = animations /\ n.spawns = spawns /\ n.children = children
  <2> HIDE DEF animations, spawns, children
  <2> QED BY <1>6
<1>8. n = [fit |-> d.fit, animations |-> n.animations, spawns |-> n.spawns,
           children |-> n.children, sounds |-> d.sounds]
  <2> HIDE DEF animations, spawns, children
  <2> QED BY <1>6, <1>7
<1> QED BY <1>4, <1>5, <1>7, <1>8

\* A sequence with the elements of another is that one.
LEMMA SameElements ==
  ASSUME NEW S, NEW s \in Seq(S), NEW t,
         t = [i \in DOMAIN s |-> t[i]],
         \A i \in DOMAIN s : t[i] = s[i]
  PROVE  t = s
<1>1. s = [i \in DOMAIN s |-> s[i]]
  OBVIOUS
<1> QED BY <1>1

\* Normalising makes a document of a document.
LEMMA NormalizeTypes ==
  ASSUME NEW d \in Document
  PROVE  NormalizeDocument(d) \in Document
<1> DEFINE n == NormalizeDocument(d)
           links(i) == [g \in Group |->
                         [k \in DOMAIN d.animations[i].links[g] |->
                           Number(d.animations[i].links[g][k])]]
           entry(i) == [id |-> d.animations[i].id, fit |-> d.animations[i].fit,
                        links |-> links(i)]
           child(k) == [animation |-> d.children[k].animation,
                        next |-> Number(d.children[k].next)]
<1>1. \A r \in Reference : Number(r) \in Reference
  BY DEF Number, Reference, To
<1>2. \A s \in Seq(Reference) : [k \in DOMAIN s |-> Number(s[k])] \in Seq(Reference)
  <2> TAKE s \in Seq(Reference)
  <2>1. \A k \in DOMAIN s : Number(s[k]) \in Reference
    BY <1>1
  <2> QED BY <2>1, MapSeqTypes
<1>3. \A i \in DOMAIN d.animations : entry(i) \in AnimationEntry
  <2> TAKE i \in DOMAIN d.animations
  <2>1. links(i) \in Links
    BY <1>2, AnimationFields DEF Links
  <2> HIDE DEF links
  <2> QED BY <2>1, AnimationFields DEF AnimationEntry, Links
<1>4. \A k \in DOMAIN d.children : child(k) \in Child
  <2> TAKE k \in DOMAIN d.children
  <2>1. d.children[k] \in Child
    BY DocumentFields
  <2> QED BY <1>1, <2>1 DEF Child
<1>5. n.animations = [i \in DOMAIN d.animations |-> entry(i)]
      /\ n.children = [k \in DOMAIN d.children |-> child(k)]
      /\ n.spawns = [k \in DOMAIN d.spawns |-> Number(d.spawns[k])]
      /\ n = [fit |-> d.fit, animations |-> n.animations, spawns |-> n.spawns,
              children |-> n.children, sounds |-> d.sounds]
  BY NormalizeFields
<1> HIDE DEF n, entry, child
<1>6. n.animations \in Seq(AnimationEntry)
  <2>1. /\ n.animations = [i \in DOMAIN d.animations |-> n.animations[i]]
        /\ \A i \in DOMAIN d.animations : n.animations[i] \in AnimationEntry
    BY <1>3, <1>5
  <2> QED BY <2>1, DocumentFields, MapSeqTypes
<1>7. n.children \in Seq(Child)
  <2>1. /\ n.children = [k \in DOMAIN d.children |-> n.children[k]]
        /\ \A k \in DOMAIN d.children : n.children[k] \in Child
    BY <1>4, <1>5
  <2> QED BY <2>1, DocumentFields, MapSeqTypes
<1>8. n.spawns \in Seq(Reference)
  BY <1>2, <1>5, DocumentFields
<1>9. n \in Document
  BY <1>5, <1>6, <1>7, <1>8, DocumentFields DEF Document, Child
<1> QED BY <1>9 DEF n

-----------------------------------------------------------------------------
(* References *)

\* Where the references of a document are.
LEMMA ReferencesAre ==
  ASSUME NEW d
  PROVE  /\ \A i \in DOMAIN d.animations, g \in Group :
              \A k \in DOMAIN d.animations[i].links[g] :
                d.animations[i].links[g][k] \in References(d)
         /\ \A k \in DOMAIN d.spawns : d.spawns[k] \in References(d)
         /\ \A k \in DOMAIN d.children : d.children[k].next \in References(d)
         /\ \A r \in References(d) :
              \/ \E i \in DOMAIN d.animations, g \in Group :
                   \E k \in DOMAIN d.animations[i].links[g] :
                     r = d.animations[i].links[g][k]
              \/ \E k \in DOMAIN d.spawns : r = d.spawns[k]
              \/ \E k \in DOMAIN d.children : r = d.children[k].next
<1> DEFINE Linked(i) == UNION {ToSet(d.animations[i].links[g]) : g \in Group}
           InLinks == UNION {Linked(i) : i \in DOMAIN d.animations}
           InSpawns == ToSet(d.spawns)
           InChildren == {d.children[k].next : k \in DOMAIN d.children}
<1>1. References(d) = InLinks \cup InSpawns \cup InChildren
  BY DEF References
<1>2. \A r : r \in InLinks <=> \E i \in DOMAIN d.animations : r \in Linked(i)
  OBVIOUS
<1>3. \A r, i : r \in Linked(i) <=>
        \E g \in Group : \E k \in DOMAIN d.animations[i].links[g] :
          r = d.animations[i].links[g][k]
  BY DEF ToSet
<1>4. \A r : r \in InSpawns <=> \E k \in DOMAIN d.spawns : r = d.spawns[k]
  BY DEF ToSet
<1>5. \A r : r \in InChildren <=> \E k \in DOMAIN d.children : r = d.children[k].next
  OBVIOUS
<1> HIDE DEF Linked, InLinks, InSpawns, InChildren
<1>6. ASSUME NEW i \in DOMAIN d.animations, NEW g \in Group,
             NEW k \in DOMAIN d.animations[i].links[g]
      PROVE  d.animations[i].links[g][k] \in References(d)
  BY <1>1, <1>2, <1>3
<1> QED BY <1>1, <1>2, <1>3, <1>4, <1>5, <1>6

\* Normalising leaves the ids alone.
LEMMA NormalizeIds ==
  ASSUME NEW d \in Document
  PROVE  Ids(NormalizeDocument(d)) = Ids(d)
<1> DEFINE n == NormalizeDocument(d)
           links(i) == [g \in Group |->
                         [k \in DOMAIN d.animations[i].links[g] |->
                           Number(d.animations[i].links[g][k])]]
<1>1. n.animations = [i \in DOMAIN d.animations |->
                       [id |-> d.animations[i].id, fit |-> d.animations[i].fit,
                        links |-> links(i)]]
  BY NormalizeFields
<1> HIDE DEF n, links
<1>2. Ids(n) = Ids(d)
  BY <1>1 DEF Ids
<1> QED BY <1>2 DEF n

\* What passes validation has no string in the place of a number, so that
\* normalisation changed nothing.
LEMMA ValidIsNormal ==
  ASSUME NEW d \in Document, Valid(NormalizeDocument(d))
  PROVE  NormalizeDocument(d) = d
<1> DEFINE n == NormalizeDocument(d)
<1>1. \A r \in References(n) : ~r.picked /\ r.value # 0
  BY DEF Valid, ValidTarget
<1>2. \A r \in Reference : Number(r) \in References(n) => Number(r) = r
  BY <1>1 DEF Number, To
<1> HIDE DEF n
<1>3. /\ n.animations = [i \in DOMAIN d.animations |->
           [id |-> d.animations[i].id, fit |-> d.animations[i].fit,
            links |-> [g \in Group |->
              [k \in DOMAIN d.animations[i].links[g] |->
                Number(d.animations[i].links[g][k])]]]]
      /\ n.spawns = [k \in DOMAIN d.spawns |-> Number(d.spawns[k])]
      /\ n.children = [k \in DOMAIN d.children |->
           [animation |-> d.children[k].animation, next |-> Number(d.children[k].next)]]
      /\ n = [fit |-> d.fit, animations |-> n.animations, spawns |-> n.spawns,
              children |-> n.children, sounds |-> d.sounds]
  BY NormalizeFields DEF n
<1>4. n.spawns = d.spawns
  <2>1. \A k \in DOMAIN d.spawns : n.spawns[k] = d.spawns[k]
    <3> TAKE k \in DOMAIN d.spawns
    <3>1. n.spawns[k] \in References(n) /\ n.spawns[k] = Number(d.spawns[k])
      BY <1>3, ReferencesAre
    <3>2. d.spawns[k] \in Reference
      BY DocumentFields
    <3> QED BY <1>2, <3>1, <3>2
  <2>2. n.spawns = [k \in DOMAIN d.spawns |-> n.spawns[k]]
    BY <1>3
  <2> QED BY <2>1, <2>2, DocumentFields, SameElements
<1>5. n.children = d.children
  <2>1. \A k \in DOMAIN d.children : n.children[k] = d.children[k]
    <3> TAKE k \in DOMAIN d.children
    <3>1. /\ n.children[k].next \in References(n)
          /\ n.children[k].next = Number(d.children[k].next)
          /\ n.children[k] = [animation |-> d.children[k].animation,
                              next |-> Number(d.children[k].next)]
      BY <1>3, ReferencesAre
    <3>2. d.children[k] \in Child
      BY DocumentFields
    <3>3. d.children[k].next \in Reference
          /\ d.children[k] = [animation |-> d.children[k].animation,
                              next |-> d.children[k].next]
      BY <3>2 DEF Child
    <3> QED BY <1>2, <3>1, <3>3
  <2>2. n.children = [k \in DOMAIN d.children |-> n.children[k]]
    BY <1>3
  <2> QED BY <2>1, <2>2, DocumentFields, SameElements
<1>6. n.animations = d.animations
  <2>1. \A i \in DOMAIN d.animations : n.animations[i] = d.animations[i]
    <3> TAKE i \in DOMAIN d.animations
    <3> DEFINE links == [g \in Group |->
                          [k \in DOMAIN d.animations[i].links[g] |->
                            Number(d.animations[i].links[g][k])]]
    <3>0. n.animations[i] = [id |-> d.animations[i].id, fit |-> d.animations[i].fit,
                             links |-> links]
      BY <1>3
    <3>a. n.animations[i].links = links
      <4> HIDE DEF links
      <4> QED BY <3>0
    <3>1. /\ DOMAIN n.animations = DOMAIN d.animations
          /\ n.animations[i] = [id |-> d.animations[i].id, fit |-> d.animations[i].fit,
                                links |-> n.animations[i].links]
          /\ n.animations[i].links = [g \in Group |->
               [k \in DOMAIN d.animations[i].links[g] |->
                 Number(d.animations[i].links[g][k])]]
      BY <1>3, <3>0, <3>a
    <3>2. d.animations[i] = [id |-> d.animations[i].id, fit |-> d.animations[i].fit,
                             links |-> d.animations[i].links]
          /\ d.animations[i].links \in Links
      BY AnimationFields DEF AnimationEntry
    <3>3. \A g \in Group : n.animations[i].links[g] = d.animations[i].links[g]
      <4> TAKE g \in Group
      <4> DEFINE old == d.animations[i].links[g]
                 new == n.animations[i].links[g]
      <4>1. new = [k \in DOMAIN old |-> Number(old[k])] /\ old \in Seq(Reference)
        BY <3>1, AnimationFields
      <4>2. \A k \in DOMAIN new : new[k] \in References(n)
        BY <3>1, ReferencesAre
      <4> HIDE DEF old, new
      <4>3. \A k \in DOMAIN old : new[k] = old[k]
        <5> TAKE k \in DOMAIN old
        <5>1. old[k] \in Reference /\ new[k] = Number(old[k]) /\ new[k] \in References(n)
          BY <4>1, <4>2
        <5> QED BY <1>2, <5>1
      <4>4. new = old
        BY <4>1, <4>3
      <4> QED BY <4>4 DEF old, new
    <3>4. n.animations[i].links = d.animations[i].links
      BY <3>1, <3>2, <3>3 DEF Links
    <3> QED BY <3>1, <3>2, <3>4
  <2>2. n.animations = [i \in DOMAIN d.animations |-> n.animations[i]]
    BY <1>3
  <2> QED BY <2>1, <2>2, DocumentFields, SameElements
<1>7. n = d
  BY <1>3, <1>4, <1>5, <1>6, DocumentFields
<1> QED BY <1>7 DEF n

-----------------------------------------------------------------------------
(* Documents that hold together *)

Leads(d, r) == r.picked \/ r.value \in Ids(d)

Together(d) ==
  /\ \A r \in References(d) : Leads(d, r)
  /\ ToSet(d.sounds) \subseteq Ids(d)

\* Together, from the four kinds of references one by one.
LEMMA TogetherBy ==
  ASSUME NEW e,
         \A i \in DOMAIN e.animations, g \in Group :
           \A k \in DOMAIN e.animations[i].links[g] : Leads(e, e.animations[i].links[g][k]),
         \A k \in DOMAIN e.spawns : Leads(e, e.spawns[k]),
         \A k \in DOMAIN e.children : Leads(e, e.children[k].next),
         \A k \in DOMAIN e.sounds : e.sounds[k] \in Ids(e)
  PROVE  Together(e)
<1>1. \A r \in References(e) : Leads(e, r)
  BY ReferencesAre
<1>2. ToSet(e.sounds) \subseteq Ids(e)
  BY DEF ToSet
<1> QED BY <1>1, <1>2 DEF Together

\* What Together says of each of the four kinds.
LEMMA TogetherMeans ==
  ASSUME NEW d \in Document, Together(d)
  PROVE  /\ \A i \in DOMAIN d.animations, g \in Group :
              \A k \in DOMAIN d.animations[i].links[g] :
                Leads(d, d.animations[i].links[g][k])
         /\ \A k \in DOMAIN d.spawns : Leads(d, d.spawns[k])
         /\ \A k \in DOMAIN d.children : Leads(d, d.children[k].next)
         /\ \A k \in DOMAIN d.sounds : d.sounds[k] \in Ids(d)
<1>1. \A r \in References(d) : Leads(d, r)
  BY DEF Together
<1>2. \A k \in DOMAIN d.sounds : d.sounds[k] \in Ids(d)
  BY DEF Together, ToSet
<1> QED BY <1>1, <1>2, ReferencesAre

\* An animation in the place of another.
Put(d, i, a) == [d EXCEPT !.animations = [d.animations EXCEPT ![i] = a]]

\* Replacing one animation changes nothing else, and no id if it keeps its own.
LEMMA AnimationReplaced ==
  ASSUME NEW d \in Document, NEW i \in DOMAIN d.animations, NEW a \in AnimationEntry
  PROVE  /\ Put(d, i, a) \in Document
         /\ Put(d, i, a).fit = d.fit /\ Put(d, i, a).spawns = d.spawns
         /\ Put(d, i, a).children = d.children /\ Put(d, i, a).sounds = d.sounds
         /\ DOMAIN Put(d, i, a).animations = DOMAIN d.animations
         /\ \A j \in DOMAIN d.animations :
              Put(d, i, a).animations[j] = IF j = i THEN a ELSE d.animations[j]
         /\ a.id = d.animations[i].id => Ids(Put(d, i, a)) = Ids(d)
<1> DEFINE animations == [d.animations EXCEPT ![i] = a]
           e == Put(d, i, a)
<1>1. animations \in Seq(AnimationEntry) /\ DOMAIN animations = DOMAIN d.animations
  BY DocumentFields
<1>2. \A j \in DOMAIN d.animations : animations[j] = IF j = i THEN a ELSE d.animations[j]
  OBVIOUS
<1>3. e = [d EXCEPT !.animations = animations]
  BY DEF Put
<1> HIDE DEF animations, e
<1>4. /\ e \in Document
      /\ e.fit = d.fit /\ e.spawns = d.spawns /\ e.children = d.children
      /\ e.sounds = d.sounds /\ e.animations = animations
  BY <1>1, <1>3 DEF Document
<1>5. ASSUME a.id = d.animations[i].id
      PROVE  Ids(e) = Ids(d)
  BY <1>1, <1>2, <1>4, <1>5 DEF Ids
<1>6. /\ e \in Document
      /\ e.fit = d.fit /\ e.spawns = d.spawns /\ e.children = d.children
      /\ e.sounds = d.sounds /\ DOMAIN e.animations = DOMAIN d.animations
      /\ \A j \in DOMAIN d.animations :
           e.animations[j] = IF j = i THEN a ELSE d.animations[j]
      /\ a.id = d.animations[i].id => Ids(e) = Ids(d)
  BY <1>1, <1>2, <1>4, <1>5
<1> QED BY <1>6 DEF e

\* Another list of transitions, all of which lead somewhere.
Relink(d, i, g, list) == [d EXCEPT !.animations[i].links[g] = list]

\* New transitions of an animation keep a document together if they lead somewhere.
LEMMA LinksReplaced ==
  ASSUME NEW d \in Document, NEW i \in DOMAIN d.animations, NEW g \in Group,
         NEW list \in Seq(Reference), NEW e, e = Relink(d, i, g, list)
  PROVE  /\ e \in Document /\ Ids(e) = Ids(d)
         /\ Together(d) /\ (\A k \in DOMAIN list : Leads(d, list[k])) => Together(e)
<1> DEFINE old == d.animations[i]
           a == [old EXCEPT !.links = [old.links EXCEPT ![g] = list]]
<1>1. old \in AnimationEntry /\ old.links \in Links
  BY AnimationFields
<1> HIDE DEF old
<1>2. /\ a \in AnimationEntry /\ a.id = old.id
      /\ \A h \in Group : a.links[h] = IF h = g THEN list ELSE old.links[h]
  BY <1>1 DEF AnimationEntry, Links
<1>3. e = Put(d, i, a)
  BY DEF Put, Relink, old
<1> HIDE DEF a
<1>4. /\ e \in Document /\ Ids(e) = Ids(d)
      /\ e.spawns = d.spawns /\ e.children = d.children /\ e.sounds = d.sounds
      /\ DOMAIN e.animations = DOMAIN d.animations
      /\ \A j \in DOMAIN d.animations :
           e.animations[j] = IF j = i THEN a ELSE d.animations[j]
  <2>1. a \in AnimationEntry /\ a.id = d.animations[i].id
    BY <1>2 DEF old
  <2> QED BY <1>3, <2>1, AnimationReplaced
<1>5. ASSUME Together(d), \A k \in DOMAIN list : Leads(d, list[k])
      PROVE  Together(e)
  <2>1. \A r : Leads(e, r) <=> Leads(d, r)
    BY <1>4 DEF Leads
  <2>2. ASSUME NEW j \in DOMAIN e.animations, NEW h \in Group,
               NEW k \in DOMAIN e.animations[j].links[h]
        PROVE  Leads(e, e.animations[j].links[h][k])
    <3>1. CASE j = i /\ h = g
      <4>1. e.animations[j].links[h] = list
        BY <1>2, <1>4, <3>1
      <4> QED BY <1>5, <2>1, <2>2, <4>1
    <3>2. CASE ~(j = i /\ h = g)
      <4>1. e.animations[j].links[h] = d.animations[j].links[h] /\ j \in DOMAIN d.animations
        BY <1>2, <1>4, <2>2, <3>2 DEF old
      <4> QED BY <1>5, <2>1, <2>2, <4>1, TogetherMeans
    <3> QED BY <3>1, <3>2
  <2>3. /\ \A k \in DOMAIN e.spawns : Leads(e, e.spawns[k])
        /\ \A k \in DOMAIN e.children : Leads(e, e.children[k].next)
        /\ \A k \in DOMAIN e.sounds : e.sounds[k] \in Ids(e)
    BY <1>4, <1>5, <2>1, TogetherMeans
  <2> QED BY <2>2, <2>3, TogetherBy
<1> QED BY <1>4, <1>5

\* An edit that keeps a document together, and its animations in it.
Keeps(d, e) ==
  e \in Document /\ Ids(e) = Ids(d) /\ (Together(d) => Together(e))

\* Other fields of a document, whose references lead somewhere.
LEMMA FieldsReplaced ==
  ASSUME NEW d \in Document, NEW e,
         e = [fit |-> e.fit, animations |-> e.animations, spawns |-> e.spawns,
              children |-> e.children, sounds |-> e.sounds],
         e.fit \in BOOLEAN, e.spawns \in Seq(Reference), e.children \in Seq(Child),
         e.animations = d.animations, e.sounds = d.sounds,
         Together(d) => /\ \A k \in DOMAIN e.spawns : Leads(d, e.spawns[k])
                        /\ \A k \in DOMAIN e.children : Leads(d, e.children[k].next)
  PROVE  Keeps(d, e)
<1>1. e \in Document
  BY DocumentFields DEF Document, Child
<1>2. Ids(e) = Ids(d)
  BY DEF Ids
<1>3. ASSUME Together(d)
      PROVE  Together(e)
  <2>1. \A r : Leads(e, r) <=> Leads(d, r)
    BY <1>2 DEF Leads
  <2>2. /\ \A j \in DOMAIN e.animations, g \in Group :
             \A k \in DOMAIN e.animations[j].links[g] : Leads(e, e.animations[j].links[g][k])
        /\ \A k \in DOMAIN e.sounds : e.sounds[k] \in Ids(e)
    BY <1>2, <1>3, <2>1, TogetherMeans
  <2>3. /\ \A k \in DOMAIN e.spawns : Leads(e, e.spawns[k])
        /\ \A k \in DOMAIN e.children : Leads(e, e.children[k].next)
    BY <1>3, <2>1
  <2> QED BY <2>2, <2>3, TogetherBy
<1> QED BY <1>1, <1>2, <1>3 DEF Keeps

\* So do new spawns.
LEMMA SpawnsReplaced ==
  ASSUME NEW d \in Document, NEW spawns \in Seq(Reference),
         Together(d) => \A k \in DOMAIN spawns : Leads(d, spawns[k])
  PROVE  Keeps(d, [d EXCEPT !.spawns = spawns])
<1> DEFINE e == [d EXCEPT !.spawns = spawns]
<1>1. /\ e = [fit |-> e.fit, animations |-> e.animations, spawns |-> e.spawns,
              children |-> e.children, sounds |-> e.sounds]
      /\ e.fit = d.fit /\ e.animations = d.animations /\ e.spawns = spawns
      /\ e.children = d.children /\ e.sounds = d.sounds
  BY DocumentFields
<1> HIDE DEF e
<1>2. Keeps(d, e)
  BY <1>1, DocumentFields, TogetherMeans, FieldsReplaced
<1> QED BY <1>2 DEF e

\* So do new children.
LEMMA ChildrenReplaced ==
  ASSUME NEW d \in Document, NEW children \in Seq(Child),
         Together(d) => \A k \in DOMAIN children : Leads(d, children[k].next)
  PROVE  Keeps(d, [d EXCEPT !.children = children])
<1> DEFINE e == [d EXCEPT !.children = children]
<1>1. /\ e = [fit |-> e.fit, animations |-> e.animations, spawns |-> e.spawns,
              children |-> e.children, sounds |-> e.sounds]
      /\ e.fit = d.fit /\ e.animations = d.animations /\ e.spawns = d.spawns
      /\ e.children = children /\ e.sounds = d.sounds
  BY DocumentFields
<1> HIDE DEF e
<1>2. Keeps(d, e)
  BY <1>1, DocumentFields, TogetherMeans, FieldsReplaced
<1> QED BY <1>2 DEF e

\* A scalar field refers to nothing.
LEMMA FitReplaced ==
  ASSUME NEW d \in Document, NEW fit \in BOOLEAN
  PROVE  Keeps(d, [d EXCEPT !.fit = fit])
<1> DEFINE e == [d EXCEPT !.fit = fit]
<1>1. /\ e = [fit |-> e.fit, animations |-> e.animations, spawns |-> e.spawns,
              children |-> e.children, sounds |-> e.sounds]
      /\ e.fit = fit /\ e.animations = d.animations /\ e.spawns = d.spawns
      /\ e.children = d.children /\ e.sounds = d.sounds
  BY DocumentFields
<1> HIDE DEF e
<1>2. Keeps(d, e)
  BY <1>1, DocumentFields, TogetherMeans, FieldsReplaced
<1> QED BY <1>2 DEF e

\* An animation that only becomes fit or unfit.
LEMMA EntryFitReplaced ==
  ASSUME NEW d \in Document, NEW i \in DOMAIN d.animations, NEW fit \in BOOLEAN
  PROVE  Keeps(d, [d EXCEPT !.animations[i].fit = fit])
<1> DEFINE old == d.animations[i]
           a == [old EXCEPT !.fit = fit]
           e == Put(d, i, a)
<1>1. old \in AnimationEntry
  BY AnimationFields
<1>2. [d EXCEPT !.animations[i].fit = fit] = e
  BY DEF Put
<1> HIDE DEF old
<1>3. a \in AnimationEntry /\ a.id = old.id /\ a.links = old.links
  BY <1>1 DEF AnimationEntry
<1>4. a \in AnimationEntry /\ a.id = d.animations[i].id /\ a.links = d.animations[i].links
  BY <1>3 DEF old
<1> HIDE DEF a, e
<1>5. /\ e \in Document /\ Ids(e) = Ids(d)
      /\ e.spawns = d.spawns /\ e.children = d.children /\ e.sounds = d.sounds
      /\ DOMAIN e.animations = DOMAIN d.animations
      /\ \A j \in DOMAIN d.animations :
           e.animations[j] = IF j = i THEN a ELSE d.animations[j]
  BY <1>4, AnimationReplaced DEF e
<1>6. ASSUME Together(d)
      PROVE  Together(e)
  <2>1. \A r : Leads(e, r) <=> Leads(d, r)
    BY <1>5 DEF Leads
  <2>2. \A j \in DOMAIN e.animations :
          j \in DOMAIN d.animations /\ e.animations[j].links = d.animations[j].links
    BY <1>4, <1>5
  <2>3. /\ \A j \in DOMAIN e.animations, g \in Group :
             \A k \in DOMAIN e.animations[j].links[g] : Leads(e, e.animations[j].links[g][k])
        /\ \A k \in DOMAIN e.spawns : Leads(e, e.spawns[k])
        /\ \A k \in DOMAIN e.children : Leads(e, e.children[k].next)
        /\ \A k \in DOMAIN e.sounds : e.sounds[k] \in Ids(e)
    BY <1>5, <1>6, <2>1, <2>2, TogetherMeans
  <2> QED BY <2>3, TogetherBy
<1> QED BY <1>2, <1>5, <1>6 DEF Keeps

-----------------------------------------------------------------------------
(* The edits *)

\* A list from which an element is taken out is one of the same elements.
LEMMA RemoveAtTypes ==
  ASSUME NEW S, NEW s \in Seq(S), NEW k \in DOMAIN s
  PROVE  RemoveAt(s, k) \in Seq(S)
<1>1. k \in 1..Len(s) /\ Len(s) \in Nat /\ \A i \in 1..Len(s) : s[i] \in S
  OBVIOUS
<1>2. SubSeq(s, 1, k - 1) \in Seq(S) /\ SubSeq(s, k + 1, Len(s)) \in Seq(S)
  <2>1. /\ \A i \in 1..(k - 1) : s[i] \in S
        /\ \A i \in (k + 1)..Len(s) : s[i] \in S
        /\ {1, k - 1, k + 1, Len(s)} \subseteq Int
    BY <1>1
  <2> QED BY <2>1, SubSeqProperties
<1> QED BY <1>2, ConcatProperties DEF RemoveAt

\* The references that lead somewhere.
Leading(d) == {r \in Reference : Leads(d, r)}

\* What is picked in a target list, or added for an animation of the document.
LEMMA PickedLeads ==
  ASSUME NEW d \in Document, NEW id \in Ids(d)
  PROVE  /\ id \in AnimationId
         /\ Picked(id) \in Leading(d) /\ To(id) \in Leading(d)
<1>1. id \in AnimationId
  BY AnimationFields DEF Ids
<1> QED BY <1>1 DEF Picked, To, Leading, Leads, Reference

\* A list of transitions of which all lead somewhere if those before did.
LEMMA LinksKept ==
  ASSUME NEW d \in Document, NEW i \in DOMAIN d.animations, NEW g \in Group,
         NEW list \in Seq(Reference),
         d.animations[i].links[g] \in Seq(Leading(d)) => list \in Seq(Leading(d))
  PROVE  Keeps(d, Relink(d, i, g, list))
<1>1. ASSUME Together(d)
      PROVE  \A k \in DOMAIN list : Leads(d, list[k])
  <2> DEFINE old == d.animations[i].links[g]
  <2>1. old \in Seq(Reference) /\ \A k \in DOMAIN old : Leads(d, old[k])
    BY <1>1, AnimationFields, TogetherMeans
  <2> HIDE DEF old
  <2>2. \A k \in DOMAIN old : old[k] \in Leading(d)
    BY <2>1 DEF Leading
  <2>3. old = [k \in DOMAIN old |-> old[k]]
    BY <2>1
  <2>4. old \in Seq(Leading(d))
    BY <2>1, <2>2, <2>3, MapSeqTypes
  <2>5. list \in Seq(Leading(d))
    BY <2>4 DEF old
  <2> QED BY <2>5 DEF Leading
<1> QED BY <1>1, LinksReplaced DEF Keeps

\* Adding and deleting a transition keep a document together.
LEMMA TransitionEditsKeep ==
  ASSUME NEW d \in Document, NEW e \in TransitionEdits(d)
  PROVE  Keeps(d, e)
<1>1. CASE \E i \in DOMAIN d.animations, g \in Group : e = AddTransition(d, i, g)
  <2>1. PICK i \in DOMAIN d.animations, g \in Group : e = AddTransition(d, i, g)
    BY <1>1
  <2> DEFINE old == d.animations[i].links[g]
             list == Append(old, To(d.animations[i].id))
  <2>2. e = Relink(d, i, g, list)
    BY <2>1 DEF AddTransition, Relink
  <2>3. d.animations[i].id \in Ids(d)
    BY DEF Ids
  <2>4. old \in Seq(Reference) /\ To(d.animations[i].id) \in Leading(d)
    BY <2>3, AnimationFields, PickedLeads
  <2>5. list \in Seq(Reference) /\ (old \in Seq(Leading(d)) => list \in Seq(Leading(d)))
    <3> HIDE DEF old
    <3> QED BY <2>4, AppendProperties DEF Leading
  <2> HIDE DEF list
  <2> QED BY <2>2, <2>5, LinksKept
<1>2. CASE \E t \in TransitionsOf(d) : e = DeleteTransition(d, t[1], t[2], t[3])
  <2>1. PICK i \in DOMAIN d.animations, g \in Group :
          \E k \in DOMAIN d.animations[i].links[g] : e = DeleteTransition(d, i, g, k)
    BY <1>2 DEF TransitionsOf
  <2>2. PICK k \in DOMAIN d.animations[i].links[g] : e = DeleteTransition(d, i, g, k)
    BY <2>1
  <2> DEFINE old == d.animations[i].links[g]
             list == RemoveAt(old, k)
  <2>3. e = Relink(d, i, g, list)
    BY <2>2 DEF DeleteTransition, Relink
  <2>4. old \in Seq(Reference)
    BY AnimationFields
  <2>5. list \in Seq(Reference) /\ (old \in Seq(Leading(d)) => list \in Seq(Leading(d)))
    BY <2>2, <2>4, RemoveAtTypes
  <2> HIDE DEF list
  <2> QED BY <2>3, <2>5, LinksKept
<1> QED BY <1>1, <1>2 DEF TransitionEdits

\* A transition has an animation, a group and a place in it.
LEMMA TransitionPlaces ==
  ASSUME NEW d, NEW t \in TransitionsOf(d)
  PROVE  /\ t[1] \in DOMAIN d.animations /\ t[2] \in Group
         /\ t[3] \in DOMAIN d.animations[t[1]].links[t[2]]
BY DEF TransitionsOf

\* Choosing the target of a transition, spawn or child keeps a document together.
LEMMA TargetEditsKeep ==
  ASSUME NEW d \in Document, NEW e \in TargetEdits(d)
  PROVE  Keeps(d, e)
<1>0. \/ \E t \in TransitionsOf(d), id \in Ids(d) : e = PickTransition(d, t, id)
      \/ \E k \in DOMAIN d.spawns, id \in Ids(d) : e = PickSpawn(d, k, id)
      \/ \E k \in DOMAIN d.children, id \in Ids(d) : e = PickNext(d, k, id)
  BY DEF TargetEdits
<1>1. CASE \E t \in TransitionsOf(d), id \in Ids(d) : e = PickTransition(d, t, id)
  <2>1. PICK t \in TransitionsOf(d), id \in Ids(d) : e = PickTransition(d, t, id)
    BY <1>1
  <2> DEFINE i == t[1]
             g == t[2]
             k == t[3]
  <2>2. i \in DOMAIN d.animations /\ g \in Group /\ k \in DOMAIN d.animations[i].links[g]
    BY TransitionPlaces
  <2> DEFINE old == d.animations[i].links[g]
             list == [old EXCEPT ![k] = Picked(id)]
  <2>3. e = Relink(d, i, g, list)
    BY <2>1 DEF PickTransition, Relink
  <2> HIDE DEF i, g, k
  <2>4. old \in Seq(Reference) /\ k \in DOMAIN old /\ Picked(id) \in Leading(d)
    BY <2>2, AnimationFields, PickedLeads
  <2>5. list \in Seq(Reference) /\ (old \in Seq(Leading(d)) => list \in Seq(Leading(d)))
    <3> HIDE DEF old
    <3> QED BY <2>4 DEF Leading
  <2> HIDE DEF list
  <2> QED BY <2>2, <2>3, <2>5, LinksKept
<1>2. CASE \E k \in DOMAIN d.spawns, id \in Ids(d) : e = PickSpawn(d, k, id)
  <2>1. PICK k \in DOMAIN d.spawns, id \in Ids(d) : e = PickSpawn(d, k, id)
    BY <1>2
  <2> DEFINE spawns == [d.spawns EXCEPT ![k] = Picked(id)]
  <2>2. e = [d EXCEPT !.spawns = spawns]
    BY <2>1 DEF PickSpawn
  <2>3. spawns \in Seq(Reference) /\ DOMAIN spawns = DOMAIN d.spawns
    BY DocumentFields, PickedLeads DEF Leading
  <2>4. \A j \in DOMAIN spawns : spawns[j] = IF j = k THEN Picked(id) ELSE d.spawns[j]
    BY <2>3
  <2> HIDE DEF spawns
  <2>5. Together(d) => \A j \in DOMAIN spawns : Leads(d, spawns[j])
    BY <2>3, <2>4, PickedLeads, TogetherMeans DEF Leading
  <2> QED BY <2>2, <2>3, <2>5, SpawnsReplaced
<1>3. CASE \E k \in DOMAIN d.children, id \in Ids(d) : e = PickNext(d, k, id)
  <2>1. PICK k \in DOMAIN d.children, id \in Ids(d) :
          e = PickNext(d, k, id)
    BY <1>3
  <2> DEFINE child == [d.children[k] EXCEPT !.next = Picked(id)]
             children == [d.children EXCEPT ![k] = child]
  <2>2. e = [d EXCEPT !.children = children]
    BY <2>1 DEF PickNext
  <2>3. d.children[k] \in Child /\ Picked(id) \in Reference
    BY DocumentFields, PickedLeads DEF Leading
  <2>4. child \in Child /\ child.next = Picked(id)
    BY <2>3 DEF Child
  <2> HIDE DEF child
  <2>5. children \in Seq(Child) /\ DOMAIN children = DOMAIN d.children
    BY <2>4, DocumentFields
  <2>6. \A j \in DOMAIN children : children[j] = IF j = k THEN child ELSE d.children[j]
    BY <2>5
  <2> HIDE DEF children
  <2>7. Together(d) => \A j \in DOMAIN children : Leads(d, children[j].next)
    BY <2>4, <2>5, <2>6, PickedLeads, TogetherMeans DEF Leading
  <2> QED BY <2>2, <2>5, <2>7, ChildrenReplaced
<1> QED BY <1>0, <1>1, <1>2, <1>3

\* The scalar fields of an animation refer to nothing.
LEMMA SetEntryFitKeeps ==
  ASSUME NEW d \in Document, NEW i \in DOMAIN d.animations, NEW fit \in BOOLEAN
  PROVE  Keeps(d, SetEntryFit(d, i, fit))
BY EntryFitReplaced DEF SetEntryFit

\* So does leaving a field, whichever it is.
LEMMA FieldEditsKeep ==
  ASSUME NEW d \in Document, NEW e \in FieldEdits(d)
  PROVE  Keeps(d, e)
<1>1. \/ e = d
      \/ \E fit \in BOOLEAN : e = SetFit(d, fit)
      \/ \E i \in DOMAIN d.animations, fit \in BOOLEAN : e = SetEntryFit(d, i, fit)
      \/ \E k \in DOMAIN d.children, id \in AnimationId : e = SetParent(d, k, id)
  BY DEF FieldEdits
<1>2. CASE e = d
  BY <1>2 DEF Keeps
<1>3. ASSUME NEW fit \in BOOLEAN, e = SetFit(d, fit)
      PROVE  Keeps(d, e)
  BY <1>3, FitReplaced DEF SetFit
<1>4. ASSUME NEW k \in DOMAIN d.children, NEW id \in AnimationId, e = SetParent(d, k, id)
      PROVE  Keeps(d, e)
  <2> DEFINE child == [d.children[k] EXCEPT !.animation = id]
             children == [d.children EXCEPT ![k] = child]
  <2>1. e = [d EXCEPT !.children = children]
    BY <1>4 DEF SetParent
  <2>2. d.children[k] \in Child
    BY DocumentFields
  <2>3. child \in Child /\ child.next = d.children[k].next
    BY <2>2 DEF Child
  <2> HIDE DEF child
  <2>4. children \in Seq(Child) /\ DOMAIN children = DOMAIN d.children
    BY <2>3, DocumentFields
  <2>5. \A j \in DOMAIN children : children[j] = IF j = k THEN child ELSE d.children[j]
    BY <2>4
  <2> HIDE DEF children
  <2>6. Together(d) => \A j \in DOMAIN children : Leads(d, children[j].next)
    BY <2>3, <2>4, <2>5, TogetherMeans
  <2> QED BY <2>1, <2>4, <2>6, ChildrenReplaced
<1> QED BY <1>1, <1>2, <1>3, <1>4, SetEntryFitKeeps

-----------------------------------------------------------------------------
(* Renaming an animation *)

Renamed(id, previous, next) == IF id = previous THEN next ELSE id

RenamedList(s, previous, next) == [k \in DOMAIN s |-> Renamed(s[k], previous, next)]

RedirectedList(s, previous, next) == [k \in DOMAIN s |-> Redirect(s[k], previous, next)]

RedirectedEntry(a, previous, next) ==
  [a EXCEPT !.links = [g \in Group |-> RedirectedList(a.links[g], previous, next)]]

RedirectedChild(c, previous, next) ==
  [animation |-> Renamed(c.animation, previous, next),
   next |-> Redirect(c.next, previous, next)]

\* Renaming makes ids of ids and references of references.
LEMMA RedirectTypes ==
  ASSUME NEW previous, NEW next \in AnimationId
  PROVE  /\ \A id \in AnimationId : Renamed(id, previous, next) \in AnimationId
         /\ \A r \in Reference : Redirect(r, previous, next) \in Reference
BY DEF Redirect, Renamed, Reference, To

\* Renaming makes lists of lists.
LEMMA RedirectedListTypes ==
  ASSUME NEW previous, NEW next \in AnimationId
  PROVE  /\ \A s \in Seq(AnimationId) : RenamedList(s, previous, next) \in Seq(AnimationId)
         /\ \A s \in Seq(Reference) : RedirectedList(s, previous, next) \in Seq(Reference)
<1>1. ASSUME NEW s \in Seq(AnimationId)
      PROVE  RenamedList(s, previous, next) \in Seq(AnimationId)
  <2>1. \A k \in DOMAIN s : s[k] \in AnimationId
    OBVIOUS
  <2>2. \A k \in DOMAIN s : Renamed(s[k], previous, next) \in AnimationId
    BY <2>1, RedirectTypes
  <2> QED BY <2>2, MapSeqTypes DEF RenamedList
<1>2. ASSUME NEW s \in Seq(Reference)
      PROVE  RedirectedList(s, previous, next) \in Seq(Reference)
  <2>1. \A k \in DOMAIN s : s[k] \in Reference
    OBVIOUS
  <2>2. \A k \in DOMAIN s : Redirect(s[k], previous, next) \in Reference
    BY <2>1, RedirectTypes
  <2> QED BY <2>2, MapSeqTypes DEF RedirectedList
<1> QED BY <1>1, <1>2

\* Renaming in an animation changes its transitions, not its id.
LEMMA RedirectedEntryFields ==
  ASSUME NEW a \in AnimationEntry, NEW previous, NEW next \in AnimationId
  PROVE  LET b == RedirectedEntry(a, previous, next)
         IN  /\ b \in AnimationEntry /\ b.id = a.id
             /\ \A g \in Group : b.links[g] = RedirectedList(a.links[g], previous, next)
<1> DEFINE links == [g \in Group |-> RedirectedList(a.links[g], previous, next)]
<1>1. a.links \in Links /\ \A g \in Group : a.links[g] \in Seq(Reference)
  BY DEF AnimationEntry, Links
<1>2. links \in [Group -> Seq(Reference)]
  BY <1>1, RedirectedListTypes
<1>3. \A g \in Group : links[g] = RedirectedList(a.links[g], previous, next)
  OBVIOUS
<1>4. RedirectedEntry(a, previous, next) = [a EXCEPT !.links = links]
  BY DEF RedirectedEntry
<1> HIDE DEF links
<1> QED BY <1>2, <1>3, <1>4 DEF AnimationEntry

\* Renaming in a child makes a child.
LEMMA RedirectedChildFields ==
  ASSUME NEW c \in Child, NEW previous, NEW next \in AnimationId
  PROVE  RedirectedChild(c, previous, next) \in Child
<1>1. c.animation \in AnimationId /\ c.next \in Reference
  BY DEF Child
<1>2. Renamed(c.animation, previous, next) \in AnimationId
      /\ Redirect(c.next, previous, next) \in Reference
  BY <1>1, RedirectTypes
<1> QED BY <1>2 DEF RedirectedChild, Child

\* Rewriting goes over the references one by one.
LEMMA RewriteFields ==
  ASSUME NEW d \in Document, NEW previous, NEW next
  PROVE  RewriteAnimationReferences(d, previous, next) =
           [fit |-> d.fit,
            animations |-> [i \in DOMAIN d.animations |->
                             RedirectedEntry(d.animations[i], previous, next)],
            spawns |-> RedirectedList(d.spawns, previous, next),
            children |-> [k \in DOMAIN d.children |->
                           RedirectedChild(d.children[k], previous, next)],
            sounds |-> RenamedList(d.sounds, previous, next)]
<1> DEFINE animations == [i \in DOMAIN d.animations |->
                             RedirectedEntry(d.animations[i], previous, next)]
           spawns == RedirectedList(d.spawns, previous, next)
           children == [k \in DOMAIN d.children |->
                           RedirectedChild(d.children[k], previous, next)]
           sounds == RenamedList(d.sounds, previous, next)
<1>1. RewriteAnimationReferences(d, previous, next) =
        [d EXCEPT !.animations = animations, !.spawns = spawns, !.children = children,
                  !.sounds = sounds]
  BY DEF RewriteAnimationReferences, MapSeq, Renamed, RenamedList, RedirectedList,
         RedirectedEntry, RedirectedChild
<1> HIDE DEF animations, spawns, children, sounds
<1>2. RewriteAnimationReferences(d, previous, next) =
        [fit |-> d.fit, animations |-> animations, spawns |-> spawns,
         children |-> children, sounds |-> sounds]
  BY <1>1, DocumentWith
<1> QED BY <1>2 DEF animations, spawns, children, sounds

\* What renaming does to each part of a document.
LEMMA RewriteKeeps ==
  ASSUME NEW d \in Document, NEW previous, NEW next \in AnimationId,
         NEW e, e = RewriteAnimationReferences(d, previous, next)
  PROVE  /\ e \in Document
         /\ DOMAIN e.animations = DOMAIN d.animations
         /\ \A i \in DOMAIN d.animations :
              /\ e.animations[i].id = d.animations[i].id
              /\ \A g \in Group : e.animations[i].links[g] =
                                  RedirectedList(d.animations[i].links[g], previous, next)
         /\ e.spawns = RedirectedList(d.spawns, previous, next)
         /\ DOMAIN e.children = DOMAIN d.children
         /\ \A k \in DOMAIN d.children :
              e.children[k].next = Redirect(d.children[k].next, previous, next)
         /\ e.sounds = RenamedList(d.sounds, previous, next)
<1> DEFINE animations == [i \in DOMAIN d.animations |->
                             RedirectedEntry(d.animations[i], previous, next)]
           children == [k \in DOMAIN d.children |->
                           RedirectedChild(d.children[k], previous, next)]
           spawns == RedirectedList(d.spawns, previous, next)
           sounds == RenamedList(d.sounds, previous, next)
<1>1. \A i \in DOMAIN d.animations :
        /\ animations[i] \in AnimationEntry /\ animations[i].id = d.animations[i].id
        /\ \A g \in Group : animations[i].links[g] =
                            RedirectedList(d.animations[i].links[g], previous, next)
  BY AnimationFields, RedirectedEntryFields
<1>2. \A k \in DOMAIN d.children :
        /\ children[k] \in Child
        /\ children[k].next = Redirect(d.children[k].next, previous, next)
  <2> TAKE k \in DOMAIN d.children
  <2>1. d.children[k] \in Child
    BY DocumentFields
  <2>2. children[k] = RedirectedChild(d.children[k], previous, next)
    OBVIOUS
  <2> QED BY <2>1, <2>2, RedirectedChildFields DEF RedirectedChild
<1>3. /\ animations = [i \in DOMAIN d.animations |-> animations[i]]
      /\ children = [k \in DOMAIN d.children |-> children[k]]
  OBVIOUS
<1>4. spawns \in Seq(Reference) /\ sounds \in Seq(AnimationId)
  BY DocumentFields, RedirectedListTypes
<1>5. e = [fit |-> d.fit, animations |-> animations, spawns |-> spawns,
           children |-> children, sounds |-> sounds]
  BY RewriteFields
<1> HIDE DEF animations, spawns, children, sounds
<1>6. animations \in Seq(AnimationEntry) /\ DOMAIN animations = DOMAIN d.animations
  BY <1>1, <1>3, DocumentFields, MapSeqTypes
<1>7. children \in Seq(Child) /\ DOMAIN children = DOMAIN d.children
  BY <1>2, <1>3, DocumentFields, MapSeqTypes
<1>8. e \in Document
  BY <1>4, <1>5, <1>6, <1>7, DocumentFields DEF Document, Child
<1>9. /\ e.animations = animations /\ e.spawns = spawns
      /\ e.children = children /\ e.sounds = sounds
  BY <1>5
<1> QED BY <1>1, <1>2, <1>6, <1>7, <1>8, <1>9 DEF spawns, sounds

\* Renaming redirects every reference and sound to the animation; another animation
\* of the same id keeps its own.
LEMMA RenameKeepsTogether ==
  ASSUME NEW d \in Document, NEW i \in DOMAIN d.animations, NEW id \in AnimationId
  PROVE  /\ RenameAnimation(d, i, id) \in Document
         /\ Together(d) => Together(RenameAnimation(d, i, id))
<1> DEFINE previous == d.animations[i].id
           a == [d.animations[i] EXCEPT !.id = id]
           m == Put(d, i, a)
           e == RewriteAnimationReferences(m, previous, id)
<1>1. d.animations[i] \in AnimationEntry
  BY AnimationFields
<1>2. a \in AnimationEntry /\ a.id = id /\ a.links = d.animations[i].links
  BY <1>1 DEF AnimationEntry
<1>3. RenameAnimation(d, i, id) = e
  BY DEF RenameAnimation, Put
<1> HIDE DEF a
<1>4. /\ m \in Document
      /\ m.spawns = d.spawns /\ m.children = d.children /\ m.sounds = d.sounds
      /\ DOMAIN m.animations = DOMAIN d.animations
      /\ \A j \in DOMAIN d.animations :
           m.animations[j] = IF j = i THEN a ELSE d.animations[j]
  BY <1>2, AnimationReplaced
<1> HIDE DEF m, previous
<1>5. /\ e \in Document
      /\ DOMAIN e.animations = DOMAIN m.animations
      /\ \A j \in DOMAIN m.animations :
           /\ e.animations[j].id = m.animations[j].id
           /\ \A g \in Group : e.animations[j].links[g] =
                               RedirectedList(m.animations[j].links[g], previous, id)
      /\ e.spawns = RedirectedList(m.spawns, previous, id)
      /\ DOMAIN e.children = DOMAIN m.children
      /\ \A k \in DOMAIN m.children :
           e.children[k].next = Redirect(m.children[k].next, previous, id)
      /\ e.sounds = RenamedList(m.sounds, previous, id)
  BY <1>4, RewriteKeeps
<1> HIDE DEF e
<1>6. /\ DOMAIN e.animations = DOMAIN d.animations
      /\ \A j \in DOMAIN d.animations :
           /\ e.animations[j].id = IF j = i THEN id ELSE d.animations[j].id
           /\ \A g \in Group : e.animations[j].links[g] =
                               RedirectedList(d.animations[j].links[g], previous, id)
  BY <1>2, <1>4, <1>5
<1>7. \A n \in Ids(d) : n # previous => n \in Ids(e)
  <2> TAKE n \in Ids(d)
  <2> HAVE n # previous
  <2>1. PICK j \in DOMAIN d.animations : d.animations[j].id = n
    BY DEF Ids
  <2>2. j # i /\ e.animations[j].id = n /\ j \in DOMAIN e.animations
    BY <1>6, <2>1 DEF previous
  <2> QED BY <2>2 DEF Ids
<1>8. id \in Ids(e)
  BY <1>6 DEF Ids
<1>9. \A r \in Reference : Leads(d, r) => Leads(e, Redirect(r, previous, id))
  <2> TAKE r \in Reference
  <2> HAVE Leads(d, r)
  <2>1. CASE r = To(previous)
    BY <1>8, <2>1 DEF Redirect, Leads, To
  <2>2. CASE r # To(previous)
    <3>1. Redirect(r, previous, id) = r
      BY <2>2 DEF Redirect
    <3>2. r.picked \/ r.value # previous
      BY <2>2, ReferenceFields DEF To
    <3> QED BY <1>7, <3>1, <3>2 DEF Leads
  <2> QED BY <2>1, <2>2
<1>10. \A s \in Seq(Reference) :
         (\A k \in DOMAIN s : Leads(d, s[k])) =>
         \A k \in DOMAIN RedirectedList(s, previous, id) :
           Leads(e, RedirectedList(s, previous, id)[k])
  BY <1>9 DEF RedirectedList
<1>11. ASSUME Together(d)
       PROVE  Together(e)
  <2>1. \A j \in DOMAIN e.animations, g \in Group :
          \A k \in DOMAIN e.animations[j].links[g] : Leads(e, e.animations[j].links[g][k])
    <3> TAKE j \in DOMAIN e.animations, g \in Group
    <3> DEFINE s == d.animations[j].links[g]
    <3>1. s \in Seq(Reference) /\ \A k \in DOMAIN s : Leads(d, s[k])
      BY <1>6, <1>11, AnimationFields, TogetherMeans
    <3>2. e.animations[j].links[g] = RedirectedList(s, previous, id)
      BY <1>6
    <3> HIDE DEF s
    <3> QED BY <1>10, <3>1, <3>2
  <2>2. \A k \in DOMAIN e.spawns : Leads(e, e.spawns[k])
    BY <1>4, <1>5, <1>10, <1>11, DocumentFields, TogetherMeans
  <2>3. \A k \in DOMAIN e.children : Leads(e, e.children[k].next)
    <3> TAKE k \in DOMAIN e.children
    <3>1. k \in DOMAIN d.children /\ d.children[k] \in Child
      BY <1>4, <1>5, DocumentFields
    <3>2. Leads(d, d.children[k].next) /\ d.children[k].next \in Reference
      BY <1>11, <3>1, TogetherMeans DEF Child
    <3> QED BY <1>4, <1>5, <1>9, <3>1, <3>2
  <2>4. \A k \in DOMAIN e.sounds : e.sounds[k] \in Ids(e)
    BY <1>4, <1>5, <1>7, <1>8, <1>11, TogetherMeans DEF Renamed, RenamedList
  <2> QED BY <2>1, <2>2, <2>3, <2>4, TogetherBy
<1> QED BY <1>3, <1>5, <1>11

-----------------------------------------------------------------------------
(* Deleting an animation *)

\* The elements of a list, by their places.
LEMMA InToSet ==
  ASSUME NEW s
  PROVE  /\ \A k \in DOMAIN s : s[k] \in ToSet(s)
         /\ \A x \in ToSet(s) : \E k \in DOMAIN s : x = s[k]
BY DEF ToSet

Others(s, id) == Without(s, {To(id)})

Stripped(a, id) == [a EXCEPT !.links = [g \in Group |-> Others(a.links[g], id)]]

\* What is left of a list of references.
LEMMA OthersAre ==
  ASSUME NEW s \in Seq(Reference), NEW id \in AnimationId
  PROVE  /\ Others(s, id) \in Seq(Reference)
         /\ \A k \in DOMAIN Others(s, id) :
              Others(s, id)[k] # To(id) /\ \E j \in DOMAIN s : Others(s, id)[k] = s[j]
<1>1. Others(s, id) \in Seq(Reference) /\ ToSet(Others(s, id)) = ToSet(s) \ {To(id)}
  BY WithoutElements DEF Others
<1>2. ASSUME NEW k \in DOMAIN Others(s, id)
      PROVE  Others(s, id)[k] # To(id) /\ \E j \in DOMAIN s : Others(s, id)[k] = s[j]
  <2>1. Others(s, id)[k] \in ToSet(s) \ {To(id)}
    BY <1>1, InToSet
  <2> QED BY <2>1, InToSet
<1> QED BY <1>1, <1>2

\* Deleting an id from an animation changes its transitions, not its own id.
LEMMA StrippedFields ==
  ASSUME NEW a \in AnimationEntry, NEW id \in AnimationId
  PROVE  /\ Stripped(a, id) \in AnimationEntry /\ Stripped(a, id).id = a.id
         /\ \A g \in Group : Stripped(a, id).links[g] = Others(a.links[g], id)
<1> DEFINE links == [g \in Group |-> Others(a.links[g], id)]
<1>1. a.links \in Links /\ \A g \in Group : a.links[g] \in Seq(Reference)
  BY DEF AnimationEntry, Links
<1>2. links \in [Group -> Seq(Reference)]
  BY <1>1, OthersAre
<1>3. \A g \in Group : links[g] = Others(a.links[g], id)
  OBVIOUS
<1>4. Stripped(a, id) = [a EXCEPT !.links = links]
  BY DEF Stripped
<1> HIDE DEF links
<1> QED BY <1>2, <1>3, <1>4 DEF AnimationEntry

\* What is left of the animations, the children and the sounds.
LeftAnimations(d, id) ==
  Without(d.animations, {a \in ToSet(d.animations) : a.id = id})

LeftChildren(d, id) ==
  Without(d.children, {c \in ToSet(d.children) : c.animation = id \/ c.next = To(id)})

LeftSounds(d, id) == Without(d.sounds, {id})

\* The animations that a deletion leaves are the others, all of them.
LEMMA LeftAnimationsAre ==
  ASSUME NEW d \in Document, NEW id \in AnimationId
  PROVE  /\ LeftAnimations(d, id) \in Seq(AnimationEntry)
         /\ \A k \in DOMAIN LeftAnimations(d, id) :
              /\ LeftAnimations(d, id)[k].id # id
              /\ \E j \in DOMAIN d.animations : LeftAnimations(d, id)[k] = d.animations[j]
         /\ \A j \in DOMAIN d.animations : d.animations[j].id # id =>
              \E k \in DOMAIN LeftAnimations(d, id) :
                LeftAnimations(d, id)[k] = d.animations[j]
<1> DEFINE left == LeftAnimations(d, id)
<1>1. left \in Seq(AnimationEntry) /\ ToSet(left) = {a \in ToSet(d.animations) : a.id # id}
  <2>1. /\ left \in Seq(AnimationEntry)
        /\ ToSet(left) = ToSet(d.animations) \ {a \in ToSet(d.animations) : a.id = id}
    BY DocumentFields, WithoutElements DEF LeftAnimations
  <2> QED BY <2>1
<1> HIDE DEF left
<1>2. ASSUME NEW k \in DOMAIN left
      PROVE  left[k].id # id /\ \E j \in DOMAIN d.animations : left[k] = d.animations[j]
  <2>1. left[k] \in ToSet(d.animations) /\ left[k].id # id
    BY <1>1, InToSet
  <2> QED BY <2>1, InToSet
<1>3. ASSUME NEW j \in DOMAIN d.animations, d.animations[j].id # id
      PROVE  \E k \in DOMAIN left : left[k] = d.animations[j]
  <2>1. d.animations[j] \in ToSet(left)
    BY <1>1, <1>3, InToSet
  <2> QED BY <2>1, InToSet
<1> QED BY <1>1, <1>2, <1>3 DEF left

\* The children that a deletion leaves do not lead to the deleted animation.
LEMMA LeftChildrenAre ==
  ASSUME NEW d \in Document, NEW id \in AnimationId
  PROVE  /\ LeftChildren(d, id) \in Seq(Child)
         /\ \A k \in DOMAIN LeftChildren(d, id) :
              /\ LeftChildren(d, id)[k].next # To(id)
              /\ \E j \in DOMAIN d.children : LeftChildren(d, id)[k] = d.children[j]
<1> DEFINE left == LeftChildren(d, id)
<1>1. /\ left \in Seq(Child)
      /\ ToSet(left) = {c \in ToSet(d.children) : ~(c.animation = id \/ c.next = To(id))}
  <2>1. /\ left \in Seq(Child)
        /\ ToSet(left) = ToSet(d.children)
                           \ {c \in ToSet(d.children) : c.animation = id \/ c.next = To(id)}
    BY DocumentFields, WithoutElements DEF LeftChildren
  <2> QED BY <2>1
<1> HIDE DEF left
<1>2. ASSUME NEW k \in DOMAIN left
      PROVE  left[k].next # To(id) /\ \E j \in DOMAIN d.children : left[k] = d.children[j]
  <2>1. left[k] \in ToSet(d.children) /\ left[k].next # To(id)
    BY <1>1, InToSet
  <2> QED BY <2>1, InToSet
<1> QED BY <1>1, <1>2 DEF left

\* Nor are the sounds that it leaves those of the deleted animation.
LEMMA LeftSoundsAre ==
  ASSUME NEW d \in Document, NEW id \in AnimationId
  PROVE  /\ LeftSounds(d, id) \in Seq(AnimationId)
         /\ \A k \in DOMAIN LeftSounds(d, id) :
              /\ LeftSounds(d, id)[k] # id
              /\ \E j \in DOMAIN d.sounds : LeftSounds(d, id)[k] = d.sounds[j]
<1> DEFINE left == LeftSounds(d, id)
<1>1. left \in Seq(AnimationId) /\ ToSet(left) = ToSet(d.sounds) \ {id}
  BY DocumentFields, WithoutElements DEF LeftSounds
<1> HIDE DEF left
<1>2. ASSUME NEW k \in DOMAIN left
      PROVE  left[k] # id /\ \E j \in DOMAIN d.sounds : left[k] = d.sounds[j]
  <2>1. left[k] \in ToSet(d.sounds) \ {id}
    BY <1>1, InToSet
  <2> QED BY <2>1, InToSet
<1> QED BY <1>1, <1>2 DEF left

\* What a deletion does to each part of a document.
LEMMA DeleteFields ==
  ASSUME NEW d \in Document, NEW id \in AnimationId
  PROVE  DeleteAnimation(d, id) =
           [fit |-> d.fit,
            animations |-> [i \in DOMAIN LeftAnimations(d, id) |->
                             Stripped(LeftAnimations(d, id)[i], id)],
            spawns |-> Others(d.spawns, id),
            children |-> LeftChildren(d, id),
            sounds |-> LeftSounds(d, id)]
<1> DEFINE left == LeftAnimations(d, id)
           animations == [i \in DOMAIN left |-> Stripped(left[i], id)]
           spawns == Others(d.spawns, id)
           children == LeftChildren(d, id)
           sounds == LeftSounds(d, id)
<1>1. DeleteAnimation(d, id) =
        [d EXCEPT !.animations = animations, !.spawns = spawns, !.children = children,
                  !.sounds = sounds]
  BY DEF DeleteAnimation, MapSeq, LeftAnimations, LeftChildren, LeftSounds, Others, Stripped
<1> HIDE DEF animations, spawns, children, sounds
<1>2. DeleteAnimation(d, id) =
        [fit |-> d.fit, animations |-> animations, spawns |-> spawns,
         children |-> children, sounds |-> sounds]
  BY <1>1, DocumentWith
<1> QED BY <1>2 DEF animations, spawns, children, sounds

\* Nothing is left that led to an animation that was deleted, and nothing led
\* to it that leads elsewhere.
LEMMA DeleteKeepsTogether ==
  ASSUME NEW d \in Document, NEW id \in AnimationId
  PROVE  /\ DeleteAnimation(d, id) \in Document
         /\ Ids(DeleteAnimation(d, id)) = Ids(d) \ {id}
         /\ Together(d) => Together(DeleteAnimation(d, id))
<1> DEFINE e == DeleteAnimation(d, id)
           left == LeftAnimations(d, id)
           animations == [i \in DOMAIN left |-> Stripped(left[i], id)]
           spawns == Others(d.spawns, id)
           children == LeftChildren(d, id)
           sounds == LeftSounds(d, id)
<1>0. /\ \A k \in DOMAIN left :
           left[k].id # id /\ \E j \in DOMAIN d.animations : left[k] = d.animations[j]
      /\ \A j \in DOMAIN d.animations : d.animations[j].id # id =>
           \E k \in DOMAIN left : left[k] = d.animations[j]
      /\ \A k \in DOMAIN children :
           /\ children[k].next # To(id)
           /\ \E j \in DOMAIN d.children : children[k] = d.children[j]
      /\ \A k \in DOMAIN sounds :
           sounds[k] # id /\ \E j \in DOMAIN d.sounds : sounds[k] = d.sounds[j]
  <2> HIDE DEF e, animations, spawns
  <2>1. /\ \A k \in DOMAIN left :
             left[k].id # id /\ \E j \in DOMAIN d.animations : left[k] = d.animations[j]
        /\ \A j \in DOMAIN d.animations : d.animations[j].id # id =>
             \E k \in DOMAIN left : left[k] = d.animations[j]
    BY LeftAnimationsAre
  <2>2. \A k \in DOMAIN children :
          /\ children[k].next # To(id)
          /\ \E j \in DOMAIN d.children : children[k] = d.children[j]
    BY LeftChildrenAre
  <2>3. \A k \in DOMAIN sounds :
          sounds[k] # id /\ \E j \in DOMAIN d.sounds : sounds[k] = d.sounds[j]
    BY LeftSoundsAre
  <2> HIDE DEF left, children, sounds
  <2> QED BY <2>1, <2>2, <2>3
<1>1. /\ left \in Seq(AnimationEntry) /\ children \in Seq(Child)
      /\ sounds \in Seq(AnimationId) /\ spawns \in Seq(Reference)
  BY LeftAnimationsAre, LeftChildrenAre, LeftSoundsAre, OthersAre, DocumentFields
<1>2. e = [fit |-> d.fit, animations |-> animations, spawns |-> spawns,
           children |-> children, sounds |-> sounds]
  BY DeleteFields
<1> HIDE DEF e, left, spawns, children, sounds
<1>3. /\ DOMAIN animations = DOMAIN left
      /\ \A i \in DOMAIN left :
           /\ animations[i] \in AnimationEntry /\ animations[i].id = left[i].id
           /\ \A g \in Group : animations[i].links[g] = Others(left[i].links[g], id)
  <2>1. \A i \in DOMAIN left : left[i] \in AnimationEntry
    BY <1>1
  <2> QED BY <2>1, StrippedFields
<1>4. animations \in Seq(AnimationEntry)
  BY <1>1, <1>3, MapSeqTypes
<1> HIDE DEF animations
<1>5. /\ e.fit = d.fit /\ e.animations = animations /\ e.spawns = spawns
      /\ e.children = children /\ e.sounds = sounds
  BY <1>2
<1>6. e \in Document
  BY <1>1, <1>2, <1>4, DocumentFields DEF Document, Child
<1>7. Ids(e) = Ids(d) \ {id}
  <2>1. ASSUME NEW n \in Ids(e)
        PROVE  n \in Ids(d) \ {id}
    <3>1. PICK k \in DOMAIN left : left[k].id = n
      BY <1>3, <1>5 DEF Ids
    <3>2. \E j \in DOMAIN d.animations : left[k] = d.animations[j]
      BY <1>0, <3>1
    <3>3. left[k].id # id
      BY <1>0, <3>1
    <3> QED BY <3>1, <3>2, <3>3 DEF Ids
  <2>2. ASSUME NEW n \in Ids(d) \ {id}
        PROVE  n \in Ids(e)
    <3>1. PICK j \in DOMAIN d.animations : d.animations[j].id = n
      BY <2>2 DEF Ids
    <3>2. PICK k \in DOMAIN left : left[k] = d.animations[j]
      BY <1>0, <2>2, <3>1
    <3> QED BY <1>3, <1>5, <3>1, <3>2 DEF Ids
  <2> QED BY <2>1, <2>2
<1>8. \A r \in Reference : Leads(d, r) /\ r # To(id) => Leads(e, r)
  <2> TAKE r \in Reference
  <2> HAVE Leads(d, r) /\ r # To(id)
  <2>1. r.picked \/ r.value # id
    BY ReferenceFields DEF To
  <2> QED BY <1>7, <2>1 DEF Leads
<1>9. \A s \in Seq(Reference) :
        (\A k \in DOMAIN s : Leads(d, s[k])) =>
        \A k \in DOMAIN Others(s, id) : Leads(e, Others(s, id)[k])
  <2> TAKE s \in Seq(Reference)
  <2> HAVE \A k \in DOMAIN s : Leads(d, s[k])
  <2> TAKE k \in DOMAIN Others(s, id)
  <2>1. PICK j \in DOMAIN s : Others(s, id)[k] = s[j] /\ s[j] # To(id)
    BY OthersAre
  <2> QED BY <1>8, <2>1
<1>10. ASSUME Together(d)
       PROVE  Together(e)
  <2>1. \A j \in DOMAIN e.animations, g \in Group :
          \A k \in DOMAIN e.animations[j].links[g] : Leads(e, e.animations[j].links[g][k])
    <3> TAKE j \in DOMAIN e.animations, g \in Group
    <3>1. PICK i \in DOMAIN d.animations : left[j] = d.animations[i]
      BY <1>0, <1>3, <1>5
    <3> DEFINE s == d.animations[i].links[g]
    <3>2. s \in Seq(Reference) /\ \A k \in DOMAIN s : Leads(d, s[k])
      BY <1>10, AnimationFields, TogetherMeans
    <3>3. e.animations[j].links[g] = Others(s, id)
      BY <1>3, <1>5, <3>1
    <3> HIDE DEF s
    <3> QED BY <1>9, <3>2, <3>3
  <2>2. \A k \in DOMAIN e.spawns : Leads(e, e.spawns[k])
    BY <1>5, <1>9, <1>10, DocumentFields, TogetherMeans DEF spawns
  <2>3. \A k \in DOMAIN e.children : Leads(e, e.children[k].next)
    <3> TAKE k \in DOMAIN e.children
    <3>1. PICK j \in DOMAIN d.children : children[k] = d.children[j]
      BY <1>0, <1>5
    <3>2. children[k].next # To(id)
      BY <1>0, <1>5
    <3>3. d.children[j] \in Child
      BY DocumentFields
    <3>4. Leads(d, d.children[j].next) /\ d.children[j].next \in Reference
      BY <1>10, <3>3, TogetherMeans DEF Child
    <3> QED BY <1>5, <1>8, <3>1, <3>2, <3>4
  <2>4. \A k \in DOMAIN e.sounds : e.sounds[k] \in Ids(e)
    <3> TAKE k \in DOMAIN e.sounds
    <3>1. PICK j \in DOMAIN d.sounds : sounds[k] = d.sounds[j]
      BY <1>0, <1>5
    <3>2. sounds[k] # id
      BY <1>0, <1>5
    <3> QED BY <1>5, <1>7, <1>10, <3>1, <3>2, TogetherMeans
  <2> QED BY <2>1, <2>2, <2>3, <2>4, TogetherBy
<1> QED BY <1>6, <1>7, <1>10 DEF e

-----------------------------------------------------------------------------
(* What holds of the page *)

\* What is asked for while there is a page to ask, and a page that has not asked
\* for its document has none.
PageFresh ==
  /\ window = "closed" => loads = {} /\ relayout = Idle
  /\ window = "open" /\ ~booted =>
       document = NoDocument /\ ~dirty /\ loads = {} /\ relayout = Idle
  /\ relayout # Idle => document # NoDocument

\* A load that discards changes has been confirmed.
DiscardsConfirmed == \A l \in loads : l.discards => l.confirmed

PageInv == TypeOK /\ PageFresh /\ DiscardsConfirmed /\ HistoryHoldsDocument

\* The edits of the user, and the moves among the snapshots.
Editing == \/ CommitField \/ CommitId \/ EditTransitions \/ DragNode \/ AddFrame
           \/ DeleteSelection

Visiting == Undo \/ Redo

Sound(snapshot) ==
  Together(snapshot.document) /\ Ids(snapshot.document) \subseteq snapshot.layout

-----------------------------------------------------------------------------
(* Constants and helpers *)

\* The bounds are numbers; 0 is no inode.
LEMMA BoundsAreNumbers ==
  /\ MaxEdits \in Nat /\ MaxSaves \in Nat /\ MaxInputs \in Nat /\ MaxCrashes \in Nat
  /\ Inode = 1..MaxSaves + 1 /\ 1 \in Inode /\ 0 \notin Inode
BY EditorBounds DEF Inode

\* The ids of a document are ids.
LEMMA IdsAreIds ==
  ASSUME NEW d \in Document
  PROVE  Ids(d) \subseteq AnimationId
BY AnimationFields DEF Ids

\* A snapshot holds what it was made of.
LEMMA SnapshotTypes ==
  ASSUME NEW d \in Document, NEW places \in SUBSET AnimationId
  PROVE  /\ Snapshot(d, places) \in Snapshots
         /\ Snapshot(d, places).document = d /\ Snapshot(d, places).layout = places
BY DEF Snapshot, Snapshots

\* A merged layout has a place for every animation.
LEMMA MergeTypes ==
  ASSUME NEW d \in Document, NEW places \in SUBSET AnimationId
  PROVE  MergeLayout(d, places) \in SUBSET AnimationId /\ Ids(d) \subseteq MergeLayout(d, places)
BY IdsAreIds DEF MergeLayout, DefaultLayout

\* Each edit makes a document, and one that is as sound as the one before.
LEMMA EditsMake ==
  ASSUME TypeOK, Editing
  PROVE  \E next \in Document, places \in SUBSET AnimationId :
           /\ Loaded /\ Edit(next, places)
           /\ Sound(Snapshot(document, layout)) => Sound(Snapshot(next, places))
<1> DEFINE Made(next, places) ==
             /\ next \in Document /\ places \in SUBSET AnimationId
             /\ Edit(next, places)
             /\ Sound(Snapshot(document, layout)) => Sound(Snapshot(next, places))
<1>1. Loaded /\ document \in Document /\ layout \in SUBSET AnimationId
  BY DEF Editing, TypeOK, Loaded, CommitField, CommitId, EditTransitions, DragNode,
         AddFrame, DeleteSelection
<1>2. Ids(document) \subseteq AnimationId
  BY <1>1, IdsAreIds
<1>3. Sound(Snapshot(document, layout)) <=> Together(document) /\ Ids(document) \subseteq layout
  BY DEF Sound, Snapshot
<1>4. ASSUME NEW next \in Document, NEW places \in SUBSET AnimationId, Edit(next, places),
             Together(document) /\ Ids(document) \subseteq layout =>
               Together(next) /\ Ids(next) \subseteq places
      PROVE  Made(next, places)
  <2>1. Together(next) /\ Ids(next) \subseteq places => Sound(Snapshot(next, places))
    BY DEF Sound, Snapshot
  <2> QED BY <1>3, <1>4, <2>1
<1> HIDE DEF Made
<1>5. CASE CommitField
  <2>1. PICK next \in FieldEdits(document) \cup TargetEdits(document) :
          Edit(next, MergeLayout(next, layout))
    BY <1>5 DEF CommitField
  <2>2. Keeps(document, next)
    BY <1>1, FieldEditsKeep, TargetEditsKeep
  <2>3. next \in Document /\ (Together(document) => Together(next))
    BY <2>2 DEF Keeps
  <2>4. /\ MergeLayout(next, layout) \in SUBSET AnimationId
        /\ Ids(next) \subseteq MergeLayout(next, layout)
    BY <1>1, <2>3, MergeTypes
  <2>5. Made(next, MergeLayout(next, layout))
    BY <1>4, <2>1, <2>3, <2>4
  <2> QED BY <1>1, <2>5 DEF Made
<1>6. CASE CommitId
  <2>1. PICK i \in DOMAIN document.animations, id \in AnimationId :
          Edit(RenameAnimation(document, i, id),
               MergeLayout(RenameAnimation(document, i, id),
                           MoveKey(layout, document.animations[i].id, id)))
    BY <1>6 DEF CommitId
  <2> DEFINE next == RenameAnimation(document, i, id)
             moved == MoveKey(layout, document.animations[i].id, id)
  <2>2. next \in Document /\ (Together(document) => Together(next))
    BY <1>1, RenameKeepsTogether
  <2>3. moved \in SUBSET AnimationId
    BY <1>1 DEF MoveKey
  <2> HIDE DEF next, moved
  <2>4. /\ MergeLayout(next, moved) \in SUBSET AnimationId
        /\ Ids(next) \subseteq MergeLayout(next, moved)
    BY <2>2, <2>3, MergeTypes
  <2>5. Edit(next, MergeLayout(next, moved))
    BY <2>1 DEF next, moved
  <2>6. Made(next, MergeLayout(next, moved))
    BY <1>4, <2>2, <2>4, <2>5
  <2> QED BY <1>1, <2>6 DEF Made
<1>7. CASE EditTransitions
  <2>1. PICK next \in TransitionEdits(document) : Edit(next, layout)
    BY <1>7 DEF EditTransitions
  <2>2. Keeps(document, next)
    BY <1>1, TransitionEditsKeep
  <2>3. Made(next, layout)
    BY <1>1, <1>4, <2>1, <2>2 DEF Keeps
  <2> QED BY <1>1, <2>3 DEF Made
<1>8. CASE DragNode
  <2>1. PICK id \in Ids(document) : Edit(document, layout \cup {id})
    BY <1>8 DEF DragNode
  <2>2. layout \cup {id} \in SUBSET AnimationId
    BY <1>1, <1>2
  <2>3. Made(document, layout \cup {id})
    BY <1>1, <1>4, <2>1, <2>2
  <2> QED BY <1>1, <2>3 DEF Made
<1>9. CASE AddFrame
  <2>1. PICK i \in DOMAIN document.animations, fits \in BOOLEAN :
          Edit(SetEntryFit(document, i, document.animations[i].fit \/ fits), layout)
    BY <1>9 DEF AddFrame
  <2> DEFINE fit == document.animations[i].fit \/ fits
             next == SetEntryFit(document, i, fit)
  <2>2. fit \in BOOLEAN
    BY Zenon
  <2>3. Edit(next, layout)
    BY <2>1
  <2> HIDE DEF fit
  <2>4. Keeps(document, next)
    BY <1>1, <2>2, SetEntryFitKeeps
  <2> HIDE DEF next
  <2>5. Made(next, layout)
    BY <1>1, <1>4, <2>3, <2>4 DEF Keeps
  <2> QED BY <1>1, <2>5 DEF Made
<1>10. CASE DeleteSelection
  <2>1. PICK id \in AnimationId : Edit(DeleteAnimation(document, id), layout \ {id})
    BY <1>10 DEF DeleteSelection
  <2> DEFINE next == DeleteAnimation(document, id)
  <2>2. /\ next \in Document /\ Ids(next) = Ids(document) \ {id}
        /\ Together(document) => Together(next)
    BY <1>1, DeleteKeepsTogether
  <2>3. Edit(next, layout \ {id})
    BY <2>1
  <2> HIDE DEF next
  <2>4. Made(next, layout \ {id})
    BY <1>1, <1>4, <2>2, <2>3
  <2> QED BY <1>1, <2>4 DEF Made
<1> QED BY <1>5, <1>6, <1>7, <1>8, <1>9, <1>10 DEF Editing

\* Recording keeps the snapshots up to the current one and adds one.
LEMMA RecordKeeps ==
  ASSUME TypeOK, HistoryHoldsDocument, document # NoDocument,
         NEW next \in Document, NEW places \in SUBSET AnimationId,
         RecordSnapshot(next, places)
  PROVE  /\ document' = next /\ layout' = places /\ dirty'
         /\ history' \in Seq(Snapshots) /\ index' = Len(history') /\ index' \in DOMAIN history'
         /\ history'[index'] = Snapshot(next, places)
         /\ index \in DOMAIN history' /\ history'[index] = history[index]
         /\ \A i \in DOMAIN history' :
              i = index' \/ (i \in DOMAIN history /\ history'[i] = history[i])
<1> DEFINE new == Snapshot(next, places)
           kept == SubSeq(history, 1, index)
<1>1. /\ document' = next /\ layout' = places /\ dirty' = TRUE
      /\ history' = Append(kept, new) /\ index' = Len(history')
  BY DEF RecordSnapshot
<1>2. new \in Snapshots
  BY SnapshotTypes
<1>3. history \in Seq(Snapshots) /\ index \in DOMAIN history /\ index \in 1..Len(history)
  BY DEF TypeOK, HistoryHoldsDocument
<1>4. /\ kept \in Seq(Snapshots) /\ Len(kept) = index
      /\ \A i \in 1..index : kept[i] = history[i]
  BY <1>3, SubSeqProperties
<1> HIDE DEF new, kept
<1>5. /\ history' \in Seq(Snapshots) /\ Len(history') = index + 1
      /\ history'[index + 1] = new
      /\ \A i \in 1..index : history'[i] = kept[i]
  BY <1>1, <1>2, <1>3, <1>4, AppendProperties
<1>6. DOMAIN history' = 1..index + 1 /\ DOMAIN history = 1..Len(history)
  BY <1>3, <1>5, LenProperties
<1> QED BY <1>1, <1>3, <1>4, <1>5, <1>6 DEF new

-----------------------------------------------------------------------------
(* The page *)

\* PageInv is inductive: it holds of the closed window, and each action keeps it.
LEMMA PageStarts == Init => PageInv
<1> SUFFICES ASSUME Init PROVE PageInv
  OBVIOUS
<1>1. TypeOK
  <2>1. /\ \A p \in Path : disk[p] \in [main : Inode \cup {0}, tmp : Inode \cup {0},
                                        places : SUBSET AnimationId]
        /\ disk \in [Path -> [main : Inode \cup {0}, tmp : Inode \cup {0},
                              places : SUBSET AnimationId]]
    BY BoundsAreNumbers DEF Init
  <2>2. content \in [Inode -> Document \cup {Torn}]
    BY OriginalIsDocument DEF Init
  <2>3. history \in Seq(Snapshots) /\ index \in 0..Len(history)
    BY DEF Init
  <2>4. path \in Path /\ document = NoDocument /\ layout = {}
    BY HomeIsPath DEF Init
  <2>5. /\ edits \in 0..MaxEdits /\ saved \in 0..MaxSaves
        /\ inputs \in 0..MaxInputs /\ crashes \in 0..MaxCrashes
    BY BoundsAreNumbers DEF Init
  <2>6. /\ window = "closed" /\ ~booted /\ ~dirty /\ ~raced /\ ~overlapped
        /\ loads = {} /\ saves = {} /\ relayout = Idle /\ unheard = {}
    BY DEF Init
  <2>7. /\ booted \in BOOLEAN /\ dirty \in BOOLEAN /\ raced \in BOOLEAN
        /\ overlapped \in BOOLEAN
    BY DEF Init
  <2> QED BY <2>1, <2>2, <2>3, <2>4, <2>5, <2>6, <2>7 DEF TypeOK
<1>2. PageFresh /\ DiscardsConfirmed /\ HistoryHoldsDocument
  BY DEF Init, PageFresh, DiscardsConfirmed, HistoryHoldsDocument
<1> QED BY <1>1, <1>2 DEF PageInv

\* Opening, closing and losing the page.
LEMMA ShowKeepsPage ==
  ASSUME PageInv, Show
  PROVE  PageInv'
<1>1. /\ window' = "open" /\ booted' = FALSE /\ dirty' = FALSE
      /\ document' = NoDocument /\ layout' = {} /\ path' = Home
      /\ history' = << >> /\ index' = 0
      /\ UNCHANGED <<loads, saves, unheard, relayout, disk, content, overlapped, edits,
                     saved, inputs, crashes>>
  BY DEF Show, requests, files, bounds
<1>2. booted' \in BOOLEAN /\ dirty' \in BOOLEAN /\ raced' \in BOOLEAN
  BY DEF Show
<1>3. history' \in Seq(Snapshots) /\ index' \in 0..Len(history')
  BY <1>1
<1>4. TypeOK'
  BY <1>1, <1>2, <1>3, HomeIsPath DEF PageInv, TypeOK
<1>5. PageFresh' /\ DiscardsConfirmed' /\ HistoryHoldsDocument'
  BY <1>1 DEF PageInv, PageFresh, DiscardsConfirmed, HistoryHoldsDocument, Show
<1> QED BY <1>4, <1>5 DEF PageInv

\* The page asks for its document.
LEMMA BootstrapKeepsPage ==
  ASSUME PageInv, Bootstrap
  PROVE  PageInv'
<1> DEFINE l == [n |-> 0, at |-> Home, stage |-> "asked", got |-> Torn,
                 discards |-> dirty, confirmed |-> FALSE]
<1>1. ~dirty /\ document = NoDocument /\ relayout = Idle /\ loads = {} /\ window = "open"
  BY DEF PageInv, PageFresh, Bootstrap
<1>2. l \in LoadRequest /\ l.stage = "asked" /\ l.discards = dirty
  BY HomeIsPath, BoundsAreNumbers DEF PageInv, TypeOK, LoadRequest
<1>3. /\ booted' = TRUE /\ raced' \in BOOLEAN
      /\ \/ loads' = {l} /\ window' = window
         \/ loads' = {} /\ window' = "wiped"
  BY <1>1 DEF Bootstrap, PageInv, TypeOK
<1>4. UNCHANGED <<document, layout, path, dirty, history, index, saves, unheard, relayout,
                  disk, content, overlapped, edits, saved, inputs, crashes>>
  BY DEF Bootstrap, session, files, bounds
<1> HIDE DEF l
<1>5. TypeOK'
  BY <1>2, <1>3, <1>4 DEF PageInv, TypeOK
<1>6. PageFresh' /\ DiscardsConfirmed' /\ HistoryHoldsDocument'
  BY <1>1, <1>2, <1>3, <1>4 DEF PageInv, PageFresh, DiscardsConfirmed, HistoryHoldsDocument
<1> QED BY <1>5, <1>6 DEF PageInv

\* The page goes, and what it had asked for with it.
LEMMA LeavingKeepsPage ==
  ASSUME PageInv, Close \/ Crash
  PROVE  PageInv'
<1>1. /\ window' = "closed" /\ loads' = {} /\ relayout' = Idle
      /\ saves' \in {saves, {}} /\ crashes' \in 0..MaxCrashes
      /\ unheard' \in {{s.n : s \in saves}, {}}
      /\ UNCHANGED <<booted, document, layout, path, dirty, history, index, disk, content,
                     raced, overlapped, edits, saved, inputs>>
  BY BoundsAreNumbers DEF Close, Crash, session, files, bounds, PageInv, TypeOK
<1>2. unheard' \subseteq 1..MaxSaves
  BY <1>1 DEF PageInv, TypeOK, SaveRequest
<1>3. TypeOK'
  BY <1>1, <1>2 DEF PageInv, TypeOK
<1>4. PageFresh' /\ DiscardsConfirmed' /\ HistoryHoldsDocument'
  BY <1>1 DEF PageInv, PageFresh, DiscardsConfirmed, HistoryHoldsDocument
<1> QED BY <1>3, <1>4 DEF PageInv

\* An input is counted within its bound.
LEMMA CountsCounts ==
  ASSUME TypeOK, Counts
  PROVE  inputs' \in 0..MaxInputs
BY BoundsAreNumbers DEF TypeOK, Counts

\* The user opens a document, over unsaved changes only once that is confirmed.
LEMMA RequestLoadKeepsPage ==
  ASSUME PageInv, NEW p \in Path, RequestLoad(p)
  PROVE  PageInv'
<1> DEFINE l == [n |-> inputs', at |-> p, stage |-> "asked", got |-> Torn,
                 discards |-> dirty, confirmed |-> dirty]
<1>1. inputs' \in 0..MaxInputs /\ dirty \in BOOLEAN
  BY CountsCounts DEF RequestLoad, PageInv, TypeOK
<1>2. l \in LoadRequest /\ l.stage = "asked" /\ (l.discards => l.confirmed)
  BY <1>1 DEF LoadRequest
<1>3. /\ loads' = loads \cup {l} /\ raced' \in BOOLEAN /\ window = "open" /\ booted
  BY DEF RequestLoad, PageInv, TypeOK
<1>4. UNCHANGED <<window, booted, document, layout, path, dirty, history, index, saves,
                  unheard, relayout, disk, content, overlapped, edits, saved, crashes>>
  BY DEF RequestLoad, session, files
<1> HIDE DEF l
<1>5. TypeOK'
  BY <1>1, <1>2, <1>3, <1>4 DEF PageInv, TypeOK
<1>6. PageFresh' /\ DiscardsConfirmed' /\ HistoryHoldsDocument'
  BY <1>2, <1>3, <1>4 DEF PageInv, PageFresh, DiscardsConfirmed, HistoryHoldsDocument
<1> QED BY <1>5, <1>6 DEF PageInv

\* Answers of the main process.
LEMMA FileTypes ==
  ASSUME TypeOK, NEW p \in Path
  PROVE  FileAt(p) \in Document \cup {Torn}
BY DEF TypeOK, FileAt

\* What a load that was read carries.
LEMMA LoadFields ==
  ASSUME TypeOK, NEW l \in loads
  PROVE  /\ l \in LoadRequest /\ l.at \in Path /\ Resolved[l.at] \in Path
         /\ l.stage = "read" =>
              /\ l.got \in Snapshots /\ l.got.document \in Document
              /\ l.got.layout \in SUBSET AnimationId
BY HomeIsPath DEF TypeOK, LoadRequest, Snapshots

\* What reading a document does to the requests.
LEMMA ReadDoes ==
  ASSUME TypeOK, NEW l \in loads, ReadDocument(l)
  PROVE  /\ \/ window' = "wiped" /\ loads' = loads \ {l}
            \/ \E m \in LoadRequest :
                 /\ window' = window /\ loads' = (loads \ {l}) \cup {m}
                 /\ m.stage = "read" /\ m.got \in Snapshots /\ m.at = l.at
                 /\ m.discards = l.discards /\ m.confirmed = l.confirmed
                 /\ FileAt(Resolved[l.at]) \in Document
                 /\ m.got.document = NormalizeDocument(FileAt(Resolved[l.at]))
                 /\ Ids(m.got.document) \subseteq m.got.layout
         /\ UNCHANGED <<booted, document, layout, path, dirty, history, index, saves,
                        unheard, relayout, disk, content, raced, overlapped, edits, saved,
                        inputs, crashes>>
<1> DEFINE p == Resolved[l.at]
           read == NormalizeDocument(FileAt(p))
           got == Snapshot(read, MergeLayout(read, disk[p].places))
           m == [l EXCEPT !.stage = "read", !.got = got]
<1>1. p \in Path /\ l \in LoadRequest /\ FileAt(p) \in Document \cup {Torn}
  BY FileTypes, LoadFields
<1>2. CASE FileAt(p) = Torn
  BY <1>2 DEF ReadDocument, session, files, bounds
<1>3. CASE FileAt(p) # Torn
  <2>1. FileAt(p) \in Document /\ read \in Document
    BY <1>1, <1>3, NormalizeTypes
  <2>2. disk[p].places \in SUBSET AnimationId
    BY <1>1 DEF TypeOK
  <2>3. /\ loads' = (loads \ {l}) \cup {m} /\ window' = window
        /\ UNCHANGED <<booted, document, layout, path, dirty, history, index, saves,
                       unheard, relayout, disk, content, raced, overlapped, edits, saved,
                       inputs, crashes>>
    BY <1>3 DEF ReadDocument, session, files, bounds
  <2> HIDE DEF p, read
  <2>4. /\ got \in Snapshots /\ got.document = read /\ Ids(read) \subseteq got.layout
    BY <2>1, <2>2, MergeTypes, SnapshotTypes
  <2> HIDE DEF got
  <2>5. /\ m \in LoadRequest /\ m.stage = "read" /\ m.got = got /\ m.at = l.at
        /\ m.discards = l.discards /\ m.confirmed = l.confirmed
    BY <1>1, <2>4 DEF LoadRequest
  <2> HIDE DEF m
  <2>6. m.got \in Snapshots /\ m.got.document = read /\ Ids(m.got.document) \subseteq m.got.layout
    BY <2>4, <2>5
  <2> QED BY <2>1, <2>3, <2>5, <2>6 DEF p, read
<1> QED BY <1>2, <1>3

\* The main process reads what was asked for.
LEMMA ReadKeepsPage ==
  ASSUME PageInv, NEW l \in loads, ReadDocument(l)
  PROVE  PageInv'
<1>1. TypeOK'
  BY ReadDoes DEF PageInv, TypeOK
<1>2. window # "closed" /\ ~(window = "open" /\ ~booted)
  BY DEF PageInv, PageFresh
<1>3. \A k \in loads' : k.discards => k.confirmed
  BY ReadDoes DEF PageInv, DiscardsConfirmed
<1>4. window' \in {window, "wiped"} /\ UNCHANGED <<booted, document, history, index, relayout>>
  BY ReadDoes DEF PageInv
<1>5. PageFresh' /\ DiscardsConfirmed' /\ HistoryHoldsDocument'
  BY <1>2, <1>3, <1>4 DEF PageInv, PageFresh, DiscardsConfirmed, HistoryHoldsDocument
<1> QED BY <1>1, <1>5 DEF PageInv

\* The page starts a new history with the document it gets.
LEMMA LoadAnswerKeepsPage ==
  ASSUME PageInv, NEW l \in loads, LoadAnswer(l)
  PROVE  PageInv'
<1>1. /\ l.got \in Snapshots /\ l.got.document \in Document
      /\ l.got.layout \in SUBSET AnimationId /\ Resolved[l.at] \in Path
  BY LoadFields DEF PageInv, LoadAnswer
<1>2. /\ document' = l.got.document /\ layout' = l.got.layout
      /\ path' = Resolved[l.at] /\ dirty' = FALSE
      /\ history' = <<l.got>> /\ index' = 1 /\ loads' = loads \ {l}
      /\ raced' \in BOOLEAN
      /\ UNCHANGED <<window, booted, saves, unheard, relayout, disk, content, overlapped,
                     edits, saved, inputs, crashes>>
  BY DEF LoadAnswer, files, bounds, PageInv, TypeOK
<1>3. /\ history' \in Seq(Snapshots) /\ Len(history') = 1 /\ history'[1] = l.got
      /\ index' \in DOMAIN history' /\ index' \in 0..Len(history') /\ dirty' \in BOOLEAN
  <2>1. <<l.got>> \in Seq(Snapshots) /\ Len(<<l.got>>) = 1 /\ <<l.got>>[1] = l.got
        /\ 1 \in DOMAIN <<l.got>>
    BY <1>1
  <2>2. index' = 1 /\ 1 \in 0..1
    BY <1>2
  <2>3. dirty' \in BOOLEAN
    BY <1>2
  <2> QED BY <1>2, <2>1, <2>2, <2>3
<1>4. TypeOK'
  BY <1>1, <1>2, <1>3 DEF PageInv, TypeOK
<1>5. window # "closed" /\ ~(window = "open" /\ ~booted)
  BY DEF PageInv, PageFresh
<1>6. PageFresh' /\ DiscardsConfirmed'
  BY <1>1, <1>2, <1>5, MarkersApart DEF PageInv, PageFresh, DiscardsConfirmed
<1>7. HistoryHoldsDocument'
  BY <1>2, <1>3 DEF HistoryHoldsDocument
<1> QED BY <1>4, <1>6, <1>7 DEF PageInv

\* A recorded snapshot is the document, whoever made it.
LEMMA RecordKeepsPage ==
  ASSUME PageInv, document # NoDocument, NEW next \in Document,
         NEW places \in SUBSET AnimationId, RecordSnapshot(next, places),
         window # "closed", relayout' \in {relayout, Idle}, window' \in {window, "wiped"},
         edits' \in 0..MaxEdits, inputs' \in 0..MaxInputs
  PROVE  PageInv'
<1>1. /\ document' = next /\ layout' = places /\ dirty'
      /\ history' \in Seq(Snapshots) /\ index' = Len(history') /\ index' \in DOMAIN history'
      /\ history'[index'] = Snapshot(next, places)
  BY RecordKeeps DEF PageInv
<1>2. /\ UNCHANGED <<booted, path, loads, saves, unheard, disk, content, overlapped, saved,
                     crashes>>
      /\ raced' \in BOOLEAN /\ dirty' \in BOOLEAN
  BY DEF RecordSnapshot, files, PageInv, TypeOK
<1>3. history'[index'].document = next
  BY <1>1 DEF Snapshot
<1>4. index' \in 0..Len(history')
  BY <1>1
<1>5. TypeOK'
  BY <1>1, <1>2, <1>4 DEF PageInv, TypeOK
<1>6. document' # NoDocument /\ ~(window = "open" /\ ~booted)
  BY <1>1, MarkersApart DEF PageInv, PageFresh
<1>7. PageFresh' /\ DiscardsConfirmed'
  BY <1>2, <1>6 DEF PageInv, PageFresh, DiscardsConfirmed
<1>8. HistoryHoldsDocument'
  BY <1>1, <1>3 DEF HistoryHoldsDocument
<1> QED BY <1>5, <1>7, <1>8 DEF PageInv

\* Every edit ends in RecordSnapshot.
LEMMA EditingKeepsPage ==
  ASSUME PageInv, Editing
  PROVE  PageInv'
<1>1. PICK next \in Document, places \in SUBSET AnimationId : Loaded /\ Edit(next, places)
  BY EditsMake DEF PageInv
<1>2. edits' \in 0..MaxEdits /\ inputs' \in 0..MaxInputs
  BY <1>1, CountsCounts, BoundsAreNumbers DEF Edit, PageInv, TypeOK
<1> QED BY <1>1, <1>2, RecordKeepsPage DEF Edit, Loaded

\* Undo and redo go to a snapshot of the history.
LEMMA VisitingGoes ==
  ASSUME TypeOK, Visiting
  PROVE  \E i \in DOMAIN history :
           /\ Loaded /\ history[i] \in Snapshots
           /\ document' = history[i].document /\ document' \in Document
           /\ layout' = MergeLayout(history[i].document, history[i].layout)
           /\ layout' \in SUBSET AnimationId /\ Ids(document') \subseteq layout'
           /\ dirty' = TRUE /\ index' = i /\ raced' = (raced \/ saves # {})
           /\ UNCHANGED <<window, booted, path, history, loads, saves, unheard, relayout,
                          disk, content, overlapped, edits, saved, inputs, crashes>>
<1>1. PICK i \in {index - 1, index + 1} :
        /\ Loaded /\ i \in 1..Len(history)
        /\ document' = history[i].document
        /\ layout' = MergeLayout(history[i].document, history[i].layout)
        /\ dirty' = TRUE /\ index' = i /\ raced' = (raced \/ saves # {})
        /\ UNCHANGED <<window, booted, path, history, loads, saves, unheard, relayout,
                       disk, content, overlapped, edits, saved, inputs, crashes>>
  <2>1. history \in Seq(Snapshots) /\ Len(history) \in Nat /\ index \in 0..Len(history)
    BY DEF TypeOK
  <2>2. CASE Undo
    BY <2>1, <2>2 DEF Undo, Visit, requests, files, bounds
  <2>3. CASE Redo
    BY <2>1, <2>3 DEF Redo, Visit, requests, files, bounds
  <2> QED BY <2>2, <2>3 DEF Visiting
<1>2. i \in DOMAIN history /\ history[i] \in Snapshots
  BY <1>1 DEF TypeOK
<1>3. history[i].document \in Document /\ history[i].layout \in SUBSET AnimationId
  BY <1>2 DEF Snapshots
<1>4. /\ MergeLayout(history[i].document, history[i].layout) \in SUBSET AnimationId
      /\ Ids(history[i].document) \subseteq MergeLayout(history[i].document, history[i].layout)
  BY <1>3, MergeTypes
<1> QED BY <1>1, <1>2, <1>3, <1>4

\* Undo and redo show the snapshot they go to.
LEMMA VisitingKeepsPage ==
  ASSUME PageInv, Visiting
  PROVE  PageInv'
<1>1. PICK i \in DOMAIN history :
           /\ Loaded /\ history[i] \in Snapshots
           /\ document' = history[i].document /\ document' \in Document
           /\ layout' \in SUBSET AnimationId
           /\ dirty' = TRUE /\ index' = i /\ raced' = (raced \/ saves # {})
           /\ UNCHANGED <<window, booted, path, history, loads, saves, unheard, relayout,
                          disk, content, overlapped, edits, saved, inputs, crashes>>
  BY VisitingGoes DEF PageInv
<1>2. index' \in 0..Len(history') /\ dirty' \in BOOLEAN /\ raced' \in BOOLEAN
  BY <1>1 DEF PageInv, TypeOK
<1>3. TypeOK'
  BY <1>1, <1>2 DEF PageInv, TypeOK
<1>4. PageFresh' /\ DiscardsConfirmed' /\ HistoryHoldsDocument'
  BY <1>1, MarkersApart
     DEF PageInv, PageFresh, DiscardsConfirmed, HistoryHoldsDocument, Loaded
<1> QED BY <1>3, <1>4 DEF PageInv

\* The layout engine is asked about the document shown.
LEMMA RelayoutKeepsPage ==
  ASSUME PageInv, Relayout
  PROVE  PageInv'
<1>1. Loaded /\ document \in Document /\ layout \in SUBSET AnimationId
  BY DEF PageInv, TypeOK, Loaded, Relayout
<1>2. /\ relayout' = [stage |-> "asked", snapshot |-> Snapshot(document, layout)]
      /\ inputs' \in 0..MaxInputs
      /\ UNCHANGED <<window, booted, document, layout, path, dirty, history, index, loads,
                     saves, unheard, disk, content, raced, overlapped, edits, saved, crashes>>
  BY CountsCounts DEF Relayout, session, files, PageInv
<1>3. relayout' \in [stage : {"asked"}, snapshot : Snapshots]
  BY <1>1, <1>2, SnapshotTypes
<1>4. TypeOK'
  BY <1>2, <1>3 DEF PageInv, TypeOK
<1>5. PageFresh' /\ DiscardsConfirmed' /\ HistoryHoldsDocument'
  BY <1>1, <1>2
     DEF PageInv, PageFresh, DiscardsConfirmed, HistoryHoldsDocument, Loaded
<1> QED BY <1>4, <1>5 DEF PageInv

\* The layout engine's answer brings its snapshot back, or an error page.
LEMMA RelayoutAnswers ==
  ASSUME PageInv, RelayoutAnswer
  PROVE  /\ relayout # Idle /\ relayout' = Idle /\ document # NoDocument
         /\ window # "closed" /\ UNCHANGED <<edits, inputs>>
         /\ \/ \E next \in Document, places \in SUBSET AnimationId :
                 /\ RecordSnapshot(next, places) /\ UNCHANGED window
                 /\ next = relayout.snapshot.document /\ Ids(next) \subseteq places
            \/ /\ window' = "wiped"
               /\ UNCHANGED <<booted, document, layout, path, dirty, history, index, loads,
                              saves, unheard, disk, content, raced, overlapped, saved,
                              crashes>>
<1> DEFINE asked == relayout.snapshot
           places == asked.layout \cup Ids(asked.document)
<1>1. relayout # Idle /\ relayout' = Idle /\ UNCHANGED <<edits, inputs>>
  BY DEF RelayoutAnswer
<1>2. document # NoDocument /\ window # "closed"
  BY <1>1 DEF PageInv, PageFresh
<1>3. asked \in Snapshots
  BY <1>1 DEF PageInv, TypeOK
<1>4. asked.document \in Document /\ asked.layout \in SUBSET AnimationId
  BY <1>3 DEF Snapshots
<1>5. places \in SUBSET AnimationId /\ Ids(asked.document) \subseteq places
  BY <1>4, IdsAreIds
<1>6. \/ RecordSnapshot(asked.document, places) /\ UNCHANGED window
      \/ /\ window' = "wiped"
         /\ UNCHANGED <<booted, document, layout, path, dirty, history, index, loads,
                        saves, unheard, disk, content, raced, overlapped, saved,
                        crashes>>
  BY DEF RelayoutAnswer, session, files
<1> HIDE DEF asked, places
<1> QED BY <1>1, <1>2, <1>4, <1>5, <1>6 DEF asked

\* Its answer records the document it was given.
LEMMA RelayoutAnswerKeepsPage ==
  ASSUME PageInv, RelayoutAnswer
  PROVE  PageInv'
<1>1. /\ relayout' = Idle /\ document # NoDocument /\ window # "closed"
      /\ edits' \in 0..MaxEdits /\ inputs' \in 0..MaxInputs
  BY RelayoutAnswers DEF PageInv, TypeOK
<1>2. CASE \E next \in Document, places \in SUBSET AnimationId :
             RecordSnapshot(next, places) /\ UNCHANGED window
  BY <1>1, <1>2, RecordKeepsPage
<1>3. CASE /\ window' = "wiped"
           /\ UNCHANGED <<booted, document, layout, path, dirty, history, index, loads,
                          saves, unheard, disk, content, raced, overlapped, saved,
                          crashes>>
  <2>1. TypeOK'
    BY <1>1, <1>3 DEF PageInv, TypeOK
  <2>2. PageFresh' /\ DiscardsConfirmed' /\ HistoryHoldsDocument'
    BY <1>1, <1>3 DEF PageInv, PageFresh, DiscardsConfirmed, HistoryHoldsDocument
  <2> QED BY <2>1, <2>2 DEF PageInv
<1> QED BY <1>2, <1>3, RelayoutAnswers

\* Saves do not change what the page shows, except that it is clean.
LEMMA SaveFields ==
  ASSUME TypeOK, NEW s \in saves
  PROVE  /\ s \in SaveRequest /\ s.to \in Path /\ s.n \in 1..MaxSaves
         /\ s.inode \in Inode \cup {0}
         /\ s.snapshot \in Snapshots /\ s.snapshot.document \in Document
         /\ s.snapshot.layout \in SUBSET AnimationId
         /\ NormalizeDocument(s.snapshot.document) \in Document
BY NormalizeTypes DEF TypeOK, SaveRequest, Snapshots

\* The request that a save makes, and what it leaves alone.
LEMMA SaveMakes ==
  ASSUME TypeOK, NEW p \in Path, Save(p)
  PROVE  \E s \in SaveRequest :
           /\ saved' = saved + 1 /\ saved' \in 1..MaxSaves /\ inputs' \in 0..MaxInputs
           /\ saves' = saves \cup {s}
           /\ s.n = saved' /\ s.to = p /\ s.stage = "asked" /\ s.inode = 0
           /\ s.snapshot.document = document /\ s.snapshot.layout = layout
           /\ Loaded
           /\ raced' = (raced \/ loads # {} \/ \E t \in saves : t.to = p)
           /\ overlapped' = (overlapped \/ \E t \in saves : t.to = p)
           /\ UNCHANGED <<window, booted, document, layout, path, dirty, history, index,
                          loads, unheard, relayout, disk, content, edits, crashes>>
<1> DEFINE s == [n |-> saved', to |-> p, stage |-> "asked",
                 snapshot |-> Snapshot(document, layout), inode |-> 0]
<1>1. saved' = saved + 1 /\ saved' \in 1..MaxSaves /\ inputs' \in 0..MaxInputs
  BY CountsCounts, BoundsAreNumbers DEF Save, TypeOK
<1>2. document \in Document /\ layout \in SUBSET AnimationId
  BY DEF Save, Loaded, TypeOK
<1>3. s \in SaveRequest
  BY <1>1, <1>2, SnapshotTypes DEF SaveRequest
<1>4. s.snapshot.document = document /\ s.snapshot.layout = layout
  BY DEF Snapshot
<1>5. saves' = saves \cup {s}
  BY DEF Save
<1>6. s.n = saved' /\ s.to = p /\ s.stage = "asked" /\ s.inode = 0
  OBVIOUS
<1> HIDE DEF s
<1> QED BY <1>1, <1>3, <1>4, <1>5, <1>6 DEF Save, session, files

\* A save changes nothing of the page before its answer.
LEMMA SaveKeepsPage ==
  ASSUME PageInv, NEW p \in Path, Save(p)
  PROVE  PageInv'
<1>1. PICK s \in SaveRequest :
        /\ saved' \in 1..MaxSaves /\ inputs' \in 0..MaxInputs /\ saves' = saves \cup {s}
        /\ UNCHANGED <<window, booted, document, layout, path, dirty, history, index,
                       loads, unheard, relayout, disk, content, edits, crashes>>
  BY SaveMakes DEF PageInv
<1>2. raced' \in BOOLEAN /\ overlapped' \in BOOLEAN
  BY DEF Save, PageInv, TypeOK
<1>3. TypeOK'
  BY <1>1, <1>2 DEF PageInv, TypeOK
<1>4. PageFresh' /\ DiscardsConfirmed' /\ HistoryHoldsDocument'
  BY <1>1 DEF PageInv, PageFresh, DiscardsConfirmed, HistoryHoldsDocument
<1> QED BY <1>3, <1>4 DEF PageInv

-----------------------------------------------------------------------------
(* The steps of a save *)

Written(s) == NormalizeDocument(s.snapshot.document)

\* The request of s becomes t.
Becomes(s, t) ==
  /\ t \in SaveRequest
  /\ saves' = (saves \ {s}) \cup {t}
  /\ t.n = s.n /\ t.to = s.to /\ t.snapshot = s.snapshot

\* A save that has failed may have removed the temporary file.
Ended(s) ==
  /\ saves' = saves \ {s} /\ content' = content
  /\ \A q \in Path :
       /\ disk'[q].main = disk[q].main
       /\ disk'[q].tmp = disk[q].tmp \/ (q = s.to /\ disk'[q].tmp = 0)

Opened(s, t) ==
  /\ s.stage = "asked" /\ t.stage = "write"
  /\ Becomes(s, t) /\ Valid(Written(s))
  /\ t.inode \in Inode /\ t.inode = InodeOf(disk[s.to].tmp, s)
  /\ \A q \in Path : /\ disk'[q].main = disk[q].main
                     /\ disk'[q].tmp = IF q = s.to THEN t.inode ELSE disk[q].tmp
  /\ \A i \in Inode : content'[i] = IF i = t.inode THEN Torn ELSE content[i]

Wrote(s, t) ==
  /\ s.stage = "write" /\ t.stage = "rename"
  /\ Becomes(s, t) /\ t.inode = s.inode
  /\ disk' = disk
  /\ \A i \in Inode : content'[i] = IF i = s.inode THEN Written(s) ELSE content[i]

\* The save goes on or, without the layout sidecar, fails.
RenamedFile(s) ==
  /\ s.stage = "rename" /\ content' = content
  /\ disk[s.to].tmp # 0
  /\ \A q \in Path :
       /\ disk'[q].main = IF q = s.to THEN disk[q].tmp ELSE disk[q].main
       /\ disk'[q].tmp = IF q = s.to THEN 0 ELSE disk[q].tmp
  /\ \/ saves' = saves \ {s}
     \/ \E t \in SaveRequest : Becomes(s, t) /\ t.stage = "done" /\ t.inode = s.inode

DiskType == [Path -> [main : Inode \cup {0}, tmp : Inode \cup {0}, places : SUBSET AnimationId]]

WithTemporary(d, p, inode) == [d EXCEPT ![p].tmp = inode]

\* Giving a path another temporary file changes nothing else.
LEMMA TemporaryReplaced ==
  ASSUME NEW d \in DiskType, NEW p \in Path, NEW inode \in Inode \cup {0}
  PROVE  /\ WithTemporary(d, p, inode) \in DiskType
         /\ \A q \in Path :
              /\ WithTemporary(d, p, inode)[q].main = d[q].main
              /\ WithTemporary(d, p, inode)[q].tmp = IF q = p THEN inode ELSE d[q].tmp
BY DEF DiskType, WithTemporary

\* A save that goes on is replaced by what it has become.
LEMMA GoesBecomes ==
  ASSUME TypeOK, NEW s \in saves, NEW stage \in {"asked", "write", "rename", "done"},
         NEW inode \in Inode \cup {0}, Goes(s, stage, inode)
  PROVE  \E t \in SaveRequest : Becomes(s, t) /\ t.stage = stage /\ t.inode = inode
<1> DEFINE t == [s EXCEPT !.stage = stage, !.inode = inode]
<1>1. /\ t \in SaveRequest /\ t.stage = stage /\ t.inode = inode
      /\ t.n = s.n /\ t.to = s.to /\ t.snapshot = s.snapshot
  <2>1. s \in SaveRequest
    BY SaveFields
  <2> QED BY <2>1 DEF SaveRequest
<1>2. saves' = (saves \ {s}) \cup {t}
  BY DEF Goes
<1> HIDE DEF t
<1> QED BY <1>1, <1>2 DEF Becomes

\* The four things that a step of a save can do.
LEMMA SaveStepDoes ==
  ASSUME TypeOK, NEW s \in saves, SaveStep(s)
  PROVE  /\ \/ Ended(s)
            \/ \E t \in SaveRequest : Opened(s, t) \/ Wrote(s, t)
            \/ RenamedFile(s)
         /\ disk' \in DiskType /\ content' \in [Inode -> Document \cup {Torn}]
<1> DEFINE old == disk[s.to]
<1>1. /\ s.to \in Path /\ s.n \in 1..MaxSaves /\ s.inode \in Inode \cup {0}
      /\ Written(s) \in Document
  BY SaveFields DEF Written
<1>2. disk \in DiskType /\ content \in [Inode -> Document \cup {Torn}]
  BY DEF TypeOK, DiskType
<1>3. old.tmp \in Inode \cup {0} /\ Resolved[s.to] \in Path
  BY <1>1, <1>2, HomeIsPath DEF DiskType
<1>4. ASSUME Fails(s), disk' = [disk EXCEPT ![s.to].tmp = 0], UNCHANGED content
      PROVE  Ended(s) /\ disk' \in DiskType /\ content' \in [Inode -> Document \cup {Torn}]
  <2>1. disk' = WithTemporary(disk, s.to, 0)
    BY <1>4 DEF WithTemporary
  <2>2. /\ disk' \in DiskType
        /\ \A q \in Path : /\ disk'[q].main = disk[q].main
                           /\ disk'[q].tmp = IF q = s.to THEN 0 ELSE disk[q].tmp
    BY <1>1, <1>2, <2>1, TemporaryReplaced
  <2> QED BY <1>2, <1>4, <2>2 DEF Fails, Ended
<1>5. ASSUME Fails(s), UNCHANGED <<disk, content>>
      PROVE  Ended(s) /\ disk' \in DiskType /\ content' \in [Inode -> Document \cup {Torn}]
  BY <1>2, <1>5 DEF Fails, Ended
<1>6. CASE OpenTemporary(s)
  <2> DEFINE inode == InodeOf(disk[s.to].tmp, s)
  <2>1. inode \in Inode
    BY <1>1, <1>3, BoundsAreNumbers DEF InodeOf
  <2>2. ASSUME Valid(Written(s)), Opens(s, inode), s.stage = "asked"
        PROVE  /\ \E t \in SaveRequest : Opened(s, t)
               /\ disk' \in DiskType /\ content' \in [Inode -> Document \cup {Torn}]
    <3>1. /\ disk' = [disk EXCEPT ![s.to].tmp = inode]
          /\ content' = [content EXCEPT ![inode] = Torn] /\ Goes(s, "write", inode)
      BY <2>2 DEF Opens
    <3> HIDE DEF inode
    <3>2. PICK t \in SaveRequest : Becomes(s, t) /\ t.stage = "write" /\ t.inode = inode
      BY <2>1, <3>1, GoesBecomes
    <3>3. /\ content' \in [Inode -> Document \cup {Torn}]
          /\ \A i \in Inode : content'[i] = IF i = inode THEN Torn ELSE content[i]
      BY <1>2, <3>1
    <3>4. /\ disk' \in DiskType
          /\ \A q \in Path : /\ disk'[q].main = disk[q].main
                             /\ disk'[q].tmp = IF q = s.to THEN inode ELSE disk[q].tmp
      <4>1. disk' = WithTemporary(disk, s.to, inode)
        BY <3>1 DEF WithTemporary
      <4> QED BY <1>1, <1>2, <2>1, <4>1, TemporaryReplaced
    <3> QED BY <2>1, <2>2, <3>2, <3>3, <3>4 DEF Opened, inode
  <2>3. \/ Valid(Written(s)) /\ Opens(s, inode) /\ s.stage = "asked"
        \/ Fails(s) /\ disk' = [disk EXCEPT ![s.to].tmp = 0] /\ UNCHANGED content
        \/ Fails(s) /\ UNCHANGED <<disk, content>>
    BY <1>6 DEF OpenTemporary, Written, files
  <2> QED BY <1>4, <1>5, <2>2, <2>3
<1>7. CASE WriteTemporary(s)
  <2>1. ASSUME content' = [content EXCEPT ![s.inode] = Written(s)],
               Goes(s, "rename", s.inode), UNCHANGED disk, s.stage = "write"
        PROVE  /\ \E t \in SaveRequest : Wrote(s, t)
               /\ disk' \in DiskType /\ content' \in [Inode -> Document \cup {Torn}]
    <3>1. PICK t \in SaveRequest : Becomes(s, t) /\ t.stage = "rename" /\ t.inode = s.inode
      BY <1>1, <2>1, GoesBecomes
    <3>2. /\ content' \in [Inode -> Document \cup {Torn}]
          /\ \A i \in Inode : content'[i] = IF i = s.inode THEN Written(s) ELSE content[i]
      BY <1>1, <1>2, <2>1
    <3> QED BY <1>2, <2>1, <3>1, <3>2 DEF Wrote
  <2>2. \/ /\ content' = [content EXCEPT ![s.inode] = Written(s)]
           /\ Goes(s, "rename", s.inode) /\ UNCHANGED disk /\ s.stage = "write"
        \/ Fails(s) /\ disk' = [disk EXCEPT ![s.to].tmp = 0] /\ UNCHANGED content
    BY <1>7 DEF WriteTemporary, Written
  <2> QED BY <1>4, <2>1, <2>2
<1>8. CASE RenameTemporary(s)
  <2> DEFINE renamed == [disk EXCEPT ![s.to].main = disk[s.to].tmp, ![s.to].tmp = 0]
             placed == [renamed EXCEPT ![Resolved[s.to]].places = s.snapshot.layout]
  <2>1. s.stage = "rename" /\ UNCHANGED content
    BY <1>8 DEF RenameTemporary
  <2>2. CASE disk[s.to].tmp = 0
    BY <1>5, <1>8, <2>2 DEF RenameTemporary
  <2>3. CASE disk[s.to].tmp # 0
    <3>0. CASE Fails(s) /\ disk' = [disk EXCEPT ![s.to].tmp = 0]
      BY <1>4, <2>1, <3>0
    <3>1. \/ Fails(s) /\ disk' = [disk EXCEPT ![s.to].tmp = 0]
          \/ disk' = placed /\ Goes(s, "done", s.inode)
          \/ disk' = renamed /\ Fails(s)
      BY <1>8, <2>3 DEF RenameTemporary
    <3>2. /\ renamed \in DiskType
          /\ \A q \in Path :
               /\ renamed[q].main = IF q = s.to THEN disk[q].tmp ELSE disk[q].main
               /\ renamed[q].tmp = IF q = s.to THEN 0 ELSE disk[q].tmp
      BY <1>1, <1>2, <1>3 DEF DiskType
    <3> HIDE DEF renamed
    <3>3. s.snapshot.layout \in SUBSET AnimationId
      BY SaveFields
    <3>4. /\ placed \in DiskType
          /\ \A q \in Path : /\ placed[q].main = renamed[q].main
                             /\ placed[q].tmp = renamed[q].tmp
      BY <1>3, <3>2, <3>3 DEF DiskType
    <3> HIDE DEF placed
    <3>5. ASSUME disk' \in {placed, renamed}, Goes(s, "done", s.inode) \/ Fails(s)
          PROVE  /\ RenamedFile(s) /\ disk' \in DiskType
                 /\ content' \in [Inode -> Document \cup {Torn}]
      <4>1. \/ saves' = saves \ {s}
            \/ \E t \in SaveRequest : Becomes(s, t) /\ t.stage = "done" /\ t.inode = s.inode
        BY <1>1, <3>5, GoesBecomes DEF Fails
      <4>2. /\ disk' \in DiskType
            /\ \A q \in Path :
                 /\ disk'[q].main = IF q = s.to THEN disk[q].tmp ELSE disk[q].main
                 /\ disk'[q].tmp = IF q = s.to THEN 0 ELSE disk[q].tmp
        BY <3>2, <3>4, <3>5
      <4> QED BY <1>2, <2>1, <2>3, <4>1, <4>2 DEF RenamedFile
    <3> QED BY <3>0, <3>1, <3>5
  <2> QED BY <2>2, <2>3
<1> QED BY <1>6, <1>7, <1>8 DEF SaveStep

\* A step of a save leaves requests to save.
LEMMA SavesShrinkOrChange ==
  ASSUME TypeOK, NEW s \in saves, SaveStep(s)
  PROVE  saves' \subseteq SaveRequest
BY SaveStepDoes DEF Ended, Opened, Wrote, RenamedFile, Becomes, TypeOK

\* The steps of a save on the disk do not touch the page.
LEMMA SaveStepKeepsPage ==
  ASSUME PageInv, NEW s \in saves, SaveStep(s)
  PROVE  PageInv'
<1>1. /\ disk' \in DiskType /\ content' \in [Inode -> Document \cup {Torn}]
      /\ saves' \subseteq SaveRequest
  BY SaveStepDoes, SavesShrinkOrChange DEF PageInv
<1>2. UNCHANGED <<window, booted, document, layout, path, dirty, history, index, loads,
                  unheard, relayout, raced, overlapped, edits, saved, inputs, crashes>>
  BY DEF SaveStep, session, bounds
<1>3. TypeOK'
  BY <1>1, <1>2 DEF PageInv, TypeOK, DiskType
<1>4. PageFresh' /\ DiscardsConfirmed' /\ HistoryHoldsDocument'
  BY <1>2 DEF PageInv, PageFresh, DiscardsConfirmed, HistoryHoldsDocument
<1> QED BY <1>3, <1>4 DEF PageInv

\* The answer of a save gives the page a path and clears its star.
LEMMA SaveAnswerKeepsPage ==
  ASSUME PageInv, NEW s \in saves, SaveAnswer(s)
  PROVE  PageInv'
<1>1. /\ saves' = saves \ {s}
      /\ \/ path' = s.to /\ dirty' = FALSE
         \/ UNCHANGED <<path, dirty>>
      /\ UNCHANGED <<window, booted, document, layout, history, index, loads, unheard,
                     relayout, disk, content, raced, overlapped, edits, saved, inputs, crashes>>
  BY DEF SaveAnswer, files, bounds
<1>2. path' \in Path
  BY <1>1, SaveFields DEF PageInv, TypeOK
<1>3. dirty' \in BOOLEAN
  BY <1>1 DEF PageInv, TypeOK
<1>4. TypeOK'
  BY <1>1, <1>2, <1>3 DEF PageInv, TypeOK
<1>5. PageFresh' /\ DiscardsConfirmed' /\ HistoryHoldsDocument'
  BY <1>1 DEF PageInv, PageFresh, DiscardsConfirmed, HistoryHoldsDocument
<1> QED BY <1>4, <1>5 DEF PageInv

\* Nothing changes where nothing happens.
LEMMA StutterKeepsPage ==
  ASSUME PageInv, UNCHANGED vars
  PROVE  PageInv'
<1>1. UNCHANGED <<window, booted, document, layout, path, dirty, history, index, loads,
                  saves, unheard, relayout, disk, content, raced, overlapped, edits, saved,
                  inputs, crashes>>
  BY DEF vars, session, requests, files, bounds
<1>2. TypeOK'
  BY <1>1 DEF PageInv, TypeOK
<1>3. PageFresh' /\ DiscardsConfirmed' /\ HistoryHoldsDocument'
  BY <1>1 DEF PageInv, PageFresh, DiscardsConfirmed, HistoryHoldsDocument
<1> QED BY <1>2, <1>3 DEF PageInv

\* The kinds of steps the window takes.
LEMMA StepKinds ==
  ASSUME [Next]_vars
  PROVE  \/ Show \/ Bootstrap \/ Close \/ Crash
         \/ \E p \in Path : RequestLoad(p)
         \/ \E l \in loads : ReadDocument(l)
         \/ \E l \in loads : LoadAnswer(l)
         \/ Editing \/ Visiting \/ Relayout \/ RelayoutAnswer
         \/ \E p \in Path : Save(p)
         \/ \E s \in saves : SaveStep(s)
         \/ \E s \in saves : SaveAnswer(s)
         \/ UNCHANGED vars
BY DEF Next, Editing, Visiting

\* Every step keeps PageInv.
LEMMA PageStays == PageInv /\ [Next]_vars => PageInv'
<1> SUFFICES ASSUME PageInv, [Next]_vars PROVE PageInv'
  OBVIOUS
<1> QED BY StepKinds, ShowKeepsPage, BootstrapKeepsPage, LeavingKeepsPage,
           RequestLoadKeepsPage, ReadKeepsPage, LoadAnswerKeepsPage, EditingKeepsPage,
           VisitingKeepsPage, RelayoutKeepsPage, RelayoutAnswerKeepsPage, SaveKeepsPage,
           SaveStepKeepsPage, SaveAnswerKeepsPage, StutterKeepsPage

\* So it always holds.
LEMMA PageAlways == Spec => []PageInv
BY PageStarts, PageStays, PTL DEF Spec

\* Every variable of the editor stays in its type: the answers that replace the
\* document are documents, undo and redo stay inside the history.
THEOREM TypeCorrect == Spec => []TypeOK
<1>1. PageInv => TypeOK
  BY DEF PageInv
<1> QED BY <1>1, PageAlways, PTL

\* The document on the screen is the snapshot at historyIndex, in whatever order
\* the answers to loads, saves and layouts come among edits, undo and redo
\* (EditorApp.tsx, recordSnapshot, undo, redo and loadDocument).
THEOREM HistoryHolds == Spec => []HistoryHoldsDocument
<1>1. PageInv => HistoryHoldsDocument
  BY DEF PageInv
<1> QED BY <1>1, PageAlways, PTL

\* A document that is replaced stays among the snapshots, or makes way for one
\* whose load discarded no changes or was confirmed (recordSnapshot cuts off what
\* was undone, never the current snapshot).
THEOREM EditsKept == Spec => EditsAreKept
<1> DEFINE Kept == \/ \E i \in DOMAIN history' : history'[i].document = document
                   \/ \E l \in loads \ loads' : l.discards => l.confirmed
<1>1. ASSUME PageInv, [Next]_vars, document' # document, window = "open", window' = "open"
      PROVE  Kept
  <2>1. CASE \E l \in loads : LoadAnswer(l)
    BY <1>1, <2>1 DEF LoadAnswer, PageInv, DiscardsConfirmed
  <2>2. ASSUME document # NoDocument, NEW next \in Document,
               NEW places \in SUBSET AnimationId, RecordSnapshot(next, places)
        PROVE  Kept
    <3>1. index \in DOMAIN history' /\ history'[index] = history[index]
      BY <1>1, <2>2, RecordKeeps DEF PageInv
    <3> QED BY <1>1, <2>2, <3>1 DEF PageInv, HistoryHoldsDocument
  <2>3. CASE Editing
    BY <1>1, <2>2, <2>3, EditsMake DEF PageInv, Edit, Loaded
  <2>4. CASE RelayoutAnswer
    BY <1>1, <2>2, <2>4, RelayoutAnswers
  <2>5. CASE Visiting
    <3>1. history' = history /\ document # NoDocument
      BY <1>1, <2>5, VisitingGoes DEF PageInv, Loaded
    <3> QED BY <1>1, <3>1 DEF PageInv, HistoryHoldsDocument
  <2>6. CASE Show \/ Bootstrap \/ Close \/ Crash \/ Relayout
    BY <1>1, <2>6 DEF Show, Bootstrap, Close, Crash, Relayout, session
  <2>7. CASE (\E p \in Path : RequestLoad(p) \/ Save(p)) \/ UNCHANGED vars
    BY <1>1, <2>7 DEF RequestLoad, Save, vars, session
  <2>8. CASE \E l \in loads : ReadDocument(l)
    BY <1>1, <2>8, ReadDoes DEF PageInv
  <2>9. CASE \E s \in saves : SaveStep(s) \/ SaveAnswer(s)
    BY <1>1, <2>9 DEF SaveStep, SaveAnswer, session
  <2> QED BY <1>1, StepKinds, <2>1, <2>3, <2>4, <2>5, <2>6, <2>7, <2>8, <2>9
<1>2. PageInv /\ [Next]_vars =>
        [document' # document /\ window = "open" /\ window' = "open" => Kept]_vars
  BY <1>1
<1> QED BY <1>2, PageAlways, PTL DEF Spec, EditsAreKept

-----------------------------------------------------------------------------
(* The files *)

\* No two saves of the same file have got in each other's way since the page was
\* loaded, or nothing has.
Orderly == ~(raced /\ overlapped)

\* No two names share a file.
InodesApart ==
  \A p, q \in Path :
    /\ disk[p].main # 0 =>
         disk[p].main # disk[q].tmp /\ (disk[p].main = disk[q].main => p = q)
    /\ disk[p].tmp # 0 /\ disk[p].tmp = disk[q].tmp => p = q

\* The file a save will make when there is no temporary one is its own.
InodesGiven ==
  /\ \A p \in Path : disk[p].main <= saved + 1 /\ disk[p].tmp <= saved + 1
  /\ \A s \in saves :
       /\ s.n <= saved /\ s.inode <= saved + 1
       /\ s.stage = "asked" =>
            \A p \in Path : disk[p].main # s.n + 1 /\ disk[p].tmp # s.n + 1
  /\ \A s, t \in saves : (s.n = t.n => s = t) /\ (s.stage = "asked" => t.inode # s.n + 1)

SavesChecked == \A s \in saves : s.stage # "asked" => Valid(Written(s))

\* How far a save has got is what its files say.
Holds(s) ==
  /\ s.stage \in {"write", "rename"} => s.inode # 0 /\ disk[s.to].tmp = s.inode
  /\ s.stage = "rename" => content[s.inode] = Written(s)
  /\ s.stage = "done" => disk[s.to].main # 0 /\ content[disk[s.to].main] = Written(s)

SavesHold ==
  Orderly => /\ \A s, t \in saves : s.to = t.to => s = t
             /\ \A s \in saves : Holds(s)

FileInv == InodesApart /\ InodesGiven /\ SavesChecked /\ SavesHold /\ FilesWhole

\* What the types say of the disk.
LEMMA DiskFields ==
  ASSUME TypeOK
  PROVE  /\ \A p \in Path : disk[p].main \in Inode \cup {0} /\ disk[p].tmp \in Inode \cup {0}
         /\ \A i \in Inode : content[i] \in Document \cup {Torn}
         /\ saved \in Nat /\ saved <= MaxSaves
         /\ \A i \in Inode \cup {0} : i \in Nat
BY BoundsAreNumbers DEF TypeOK

\* FileInv is inductive, given PageInv.  At first there is the one file, whole.
LEMMA FilesStart == Init => FileInv
<1> SUFFICES ASSUME Init PROVE FileInv
  OBVIOUS
<1>1. /\ \A p \in Path : disk[p].main = (IF p = Home THEN 1 ELSE 0) /\ disk[p].tmp = 0
      /\ \A p \in Path : disk[p].main # 0 => content[disk[p].main] = Original
      /\ saves = {} /\ saved = 0
  BY BoundsAreNumbers DEF Init
<1>2. InodesApart /\ InodesGiven
  BY <1>1 DEF InodesApart, InodesGiven
<1>3. SavesChecked /\ SavesHold
  BY <1>1 DEF SavesChecked, SavesHold
<1>4. FilesWhole
  BY <1>1 DEF FilesWhole
<1> QED BY <1>2, <1>3, <1>4 DEF FileInv

\* Steps that leave the files and the saves alone.
LEMMA FilesUntouched ==
  ASSUME FileInv, UNCHANGED <<disk, content, saved>>, saves' \in {saves, {}},
         overlapped' = overlapped, raced => raced' \/ saves' = {}
  PROVE  FileInv'
<1>1. InodesApart'
  BY DEF FileInv, InodesApart
<1>2. InodesGiven' /\ SavesChecked'
  BY DEF FileInv, InodesGiven, SavesChecked, Written
<1>3. FilesWhole'
  BY DEF FileInv, FilesWhole
<1>4. SavesHold'
  <2>1. CASE saves' = {}
    BY <2>1 DEF SavesHold
  <2>2. CASE saves' # {}
    <3>1. saves' = saves /\ (Orderly' => Orderly)
      BY <2>2 DEF Orderly
    <3> QED BY <3>1 DEF FileInv, SavesHold, Holds, Written
  <2> QED BY <2>1, <2>2
<1> QED BY <1>1, <1>2, <1>3, <1>4 DEF FileInv

\* A save that is answered has no file open any more.
LEMMA AnsweredKeepsFiles ==
  ASSUME FileInv, NEW s \in saves, SaveAnswer(s)
  PROVE  FileInv'
<1>1. saves' = saves \ {s} /\ UNCHANGED <<disk, content, saved, raced, overlapped>>
  BY DEF SaveAnswer, files, bounds
<1>2. InodesApart'
  BY <1>1 DEF FileInv, InodesApart
<1>3. InodesGiven' /\ SavesChecked'
  BY <1>1 DEF FileInv, InodesGiven, SavesChecked, Written
<1>4. FilesWhole'
  BY <1>1 DEF FileInv, FilesWhole
<1>5. SavesHold'
  BY <1>1 DEF FileInv, SavesHold, Orderly, Holds, Written
<1> QED BY <1>2, <1>3, <1>4, <1>5 DEF FileInv

\* A save that was asked for has none yet.
LEMMA SaveKeepsFiles ==
  ASSUME TypeOK, FileInv, NEW p \in Path, Save(p)
  PROVE  FileInv'
<1>1. PICK s \in SaveRequest :
           /\ saved' = saved + 1 /\ saves' = saves \cup {s}
           /\ s.n = saved' /\ s.to = p /\ s.stage = "asked" /\ s.inode = 0
           /\ raced' = (raced \/ loads # {} \/ \E t \in saves : t.to = p)
           /\ overlapped' = (overlapped \/ \E t \in saves : t.to = p)
           /\ UNCHANGED <<disk, content>>
  BY SaveMakes
<1>2. InodesApart'
  BY <1>1 DEF FileInv, InodesApart
<1>3. InodesGiven'
  <2>1. \A t \in saves : t.n <= saved /\ t.inode <= saved + 1 /\ t.n \in Nat /\ t.inode \in Nat
    BY SaveFields, BoundsAreNumbers DEF FileInv, InodesGiven
  <2>2. saved \in Nat /\ \A q \in Path : /\ disk[q].main \in Nat /\ disk[q].tmp \in Nat
                                         /\ disk[q].main <= saved + 1 /\ disk[q].tmp <= saved + 1
    BY DiskFields DEF FileInv, InodesGiven
  <2>3. \A q \in Path : /\ disk'[q].main <= saved' + 1 /\ disk'[q].tmp <= saved' + 1
                        /\ disk'[q].main # s.n + 1 /\ disk'[q].tmp # s.n + 1
    BY <1>1, <2>2
  <2>4. \A t \in saves : /\ t.n <= saved' /\ t.n # s.n
                         /\ t.inode <= saved' + 1 /\ t.inode # s.n + 1 /\ s.inode # t.n + 1
    BY <1>1, <2>1, <2>2
  <2>5. s.n <= saved' /\ s.inode <= saved' + 1 /\ s.inode # s.n + 1
    BY <1>1, <2>2
  <2> QED BY <1>1, <2>3, <2>4, <2>5 DEF FileInv, InodesGiven
<1>4. SavesChecked'
  BY <1>1 DEF FileInv, SavesChecked, Written
<1>5. FilesWhole'
  BY <1>1 DEF FileInv, FilesWhole
<1>6. SavesHold'
  <2>1. SUFFICES ASSUME Orderly'
                 PROVE  /\ \A t, u \in saves' : t.to = u.to => t = u
                        /\ \A t \in saves' : Holds(t)'
    BY DEF SavesHold
  <2>2. Orderly /\ ~\E t \in saves : t.to = p
    BY <1>1, <2>1 DEF Orderly
  <2>3. Holds(s)'
    BY <1>1 DEF Holds
  <2>4. \A t \in saves : Holds(t)'
    BY <1>1, <2>2 DEF FileInv, SavesHold, Holds, Written
  <2>5. \A t, u \in saves' : t.to = u.to => t = u
    BY <1>1, <2>2 DEF FileInv, SavesHold
  <2> QED BY <1>1, <2>3, <2>4, <2>5
<1> QED BY <1>2, <1>3, <1>4, <1>5, <1>6 DEF FileInv

\* A save that fails leaves its temporary file as it is.
LEMMA EndedKeepsFiles ==
  ASSUME TypeOK, FileInv, NEW s \in saves, Ended(s), UNCHANGED <<saved, raced, overlapped>>
  PROVE  FileInv'
<1>1. saves' = saves \ {s} /\ content' = content
  BY DEF Ended
<1>2. \A q \in Path : /\ disk'[q].main = disk[q].main
                      /\ disk'[q].tmp = disk[q].tmp \/ (q = s.to /\ disk'[q].tmp = 0)
  BY DEF Ended
<1>3. InodesApart'
  BY <1>2 DEF FileInv, InodesApart
<1>4. InodesGiven'
  <2>1. \A q \in Path : disk'[q].main <= saved' + 1 /\ disk'[q].tmp <= saved' + 1
    BY <1>2, DiskFields DEF FileInv, InodesGiven
  <2>2. \A t \in saves : t.n \in Nat /\ t.n + 1 # 0
    BY SaveFields
  <2>3. \A t \in saves : t.stage = "asked" =>
          \A q \in Path : disk'[q].main # t.n + 1 /\ disk'[q].tmp # t.n + 1
    BY <1>2, <2>2 DEF FileInv, InodesGiven
  <2> QED BY <1>1, <2>1, <2>3 DEF FileInv, InodesGiven
<1>5. SavesChecked'
  BY <1>1 DEF FileInv, SavesChecked, Written
<1>6. FilesWhole'
  BY <1>1, <1>2 DEF FileInv, FilesWhole
<1>7. SavesHold'
  <2>1. SUFFICES ASSUME Orderly'
                 PROVE  /\ \A t, u \in saves' : t.to = u.to => t = u
                        /\ \A t \in saves' : Holds(t)'
    BY DEF SavesHold
  <2>2. /\ \A t, u \in saves : t.to = u.to => t = u
        /\ \A t \in saves : Holds(t)
    BY <2>1 DEF Orderly, FileInv, SavesHold
  <2>3. ASSUME NEW t \in saves, t # s
        PROVE  Holds(t)'
    <3>1. t.to \in Path /\ t.to # s.to /\ Holds(t) /\ Written(t)' = Written(t)
      BY <2>2, <2>3, SaveFields DEF Written
    <3> QED BY <1>1, <1>2, <3>1 DEF Holds
  <2> QED BY <1>1, <2>2, <2>3
<1> QED BY <1>3, <1>4, <1>5, <1>6, <1>7 DEF FileInv

\* Opening the temporary file empties it, and no other.
LEMMA OpenedKeepsFiles ==
  ASSUME TypeOK, FileInv, NEW s \in saves, NEW t \in SaveRequest, Opened(s, t),
         UNCHANGED <<saved, raced, overlapped>>
  PROVE  FileInv'
<1>1. /\ saves' = (saves \ {s}) \cup {t} /\ t.n = s.n /\ t.to = s.to
      /\ t.snapshot = s.snapshot /\ s.stage = "asked" /\ t.stage = "write"
      /\ Valid(Written(s)) /\ Written(t) = Written(s)
      /\ t.inode \in Inode
      /\ t.inode = IF disk[s.to].tmp = 0 THEN s.n + 1 ELSE disk[s.to].tmp
      /\ s.to \in Path
  BY SaveFields DEF Opened, Becomes, InodeOf, Written
<1>2. \A q \in Path : /\ disk'[q].main = disk[q].main
                      /\ disk'[q].tmp = IF q = s.to THEN t.inode ELSE disk[q].tmp
  BY DEF Opened
<1>3. \A i \in Inode : content'[i] = IF i = t.inode THEN Torn ELSE content[i]
  BY DEF Opened
<1>4. t.inode # 0
  BY <1>1, BoundsAreNumbers
<1>5. /\ \A q \in Path : disk[q].main # t.inode
      /\ \A q \in Path : q # s.to => disk[q].tmp # t.inode
  BY <1>1, <1>4 DEF FileInv, InodesApart, InodesGiven
<1>6. InodesApart'
  BY <1>2, <1>4, <1>5 DEF FileInv, InodesApart
<1>7. /\ s.n \in Nat /\ s.n <= saved /\ saved \in Nat /\ t.inode <= saved + 1
      /\ \A u \in saves : u.n \in Nat
  BY <1>1, SaveFields, DiskFields DEF FileInv, InodesGiven
<1>8. \A u \in saves : u # s /\ u.stage = "asked" => t.inode # u.n + 1
  BY <1>1, <1>7 DEF FileInv, InodesGiven
<1>9. InodesGiven'
  <2>1. \A q \in Path : disk'[q].main <= saved' + 1 /\ disk'[q].tmp <= saved' + 1
    BY <1>2, <1>7 DEF FileInv, InodesGiven
  <2>2. \A u \in saves' : u.n <= saved' /\ u.inode <= saved' + 1
    BY <1>1, <1>7 DEF FileInv, InodesGiven
  <2>3. \A u \in saves' : u.stage = "asked" =>
          \A q \in Path : disk'[q].main # u.n + 1 /\ disk'[q].tmp # u.n + 1
    BY <1>1, <1>2, <1>8 DEF FileInv, InodesGiven
  <2>4. \A u, v \in saves' :
          (u.n = v.n => u = v) /\ (u.stage = "asked" => v.inode # u.n + 1)
    BY <1>1, <1>8 DEF FileInv, InodesGiven
  <2> QED BY <2>1, <2>2, <2>3, <2>4 DEF InodesGiven
<1>10. SavesChecked'
  BY <1>1 DEF FileInv, SavesChecked, Written
<1>11. \A q \in Path : disk[q].main # 0 => content'[disk[q].main] = content[disk[q].main]
  BY <1>3, <1>5, DiskFields
<1>12. FilesWhole'
  BY <1>2, <1>11 DEF FileInv, FilesWhole
<1>13. SavesHold'
  <2>1. SUFFICES ASSUME Orderly'
                 PROVE  /\ \A u, v \in saves' : u.to = v.to => u = v
                        /\ \A u \in saves' : Holds(u)'
    BY DEF SavesHold
  <2>2. /\ \A u, v \in saves : u.to = v.to => u = v
        /\ \A u \in saves : Holds(u)
    BY <2>1 DEF Orderly, FileInv, SavesHold
  <2>3. \A u, v \in saves' : u.to = v.to => u = v
    BY <1>1, <2>2
  <2>4. Holds(t)'
    BY <1>1, <1>2, <1>4 DEF Holds
  <2>5. ASSUME NEW u \in saves, u # s
        PROVE  Holds(u)'
    <3>1. u.to \in Path /\ u.to # s.to /\ Holds(u) /\ Written(u)' = Written(u)
      BY <2>2, <2>5, SaveFields DEF Written
    <3>2. disk'[u.to].main = disk[u.to].main /\ disk'[u.to].tmp = disk[u.to].tmp
      BY <1>2, <3>1
    <3>3. u.stage = "rename" => u.inode \in Inode /\ u.inode # t.inode
      BY <1>5, <3>1, DiskFields DEF Holds
    <3>4. u.stage = "rename" => content'[u.inode] = content[u.inode]
      BY <1>3, <3>3
    <3> QED BY <1>11, <3>1, <3>2, <3>4 DEF Holds
  <2> QED BY <1>1, <2>3, <2>4, <2>5
<1> QED BY <1>6, <1>9, <1>10, <1>12, <1>13 DEF FileInv

\* What is written goes to the temporary file of the save alone.
LEMMA WroteKeepsFiles ==
  ASSUME TypeOK, FileInv, NEW s \in saves, NEW t \in SaveRequest, Wrote(s, t),
         UNCHANGED <<saved, raced, overlapped>>
  PROVE  FileInv'
<1>1. /\ saves' = (saves \ {s}) \cup {t} /\ t.n = s.n /\ t.to = s.to
      /\ t.snapshot = s.snapshot /\ s.stage = "write" /\ t.stage = "rename"
      /\ Written(t) = Written(s) /\ t.inode = s.inode /\ disk' = disk /\ s.to \in Path
  BY SaveFields DEF Wrote, Becomes, Written
<1>2. \A i \in Inode : content'[i] = IF i = s.inode THEN Written(s) ELSE content[i]
  BY DEF Wrote
<1>3. InodesApart'
  BY <1>1 DEF FileInv, InodesApart
<1>4. InodesGiven'
  BY <1>1 DEF FileInv, InodesGiven
<1>5. SavesChecked'
  BY <1>1 DEF FileInv, SavesChecked, Written
<1>6. ASSUME Orderly
      PROVE  /\ \A q \in Path : disk[q].main # 0 =>
                  content'[disk[q].main] = content[disk[q].main]
             /\ \A q \in Path : q # s.to /\ disk[q].tmp # 0 =>
                  content'[disk[q].tmp] = content[disk[q].tmp]
             /\ s.inode \in Inode /\ disk[s.to].tmp = s.inode
  <2>1. s.inode # 0 /\ disk[s.to].tmp = s.inode
    BY <1>1, <1>6 DEF FileInv, SavesHold, Holds
  <2>2. \A q \in Path : disk[q].main # 0 => disk[q].main # s.inode
    BY <1>1, <2>1 DEF FileInv, InodesApart
  <2>3. \A q \in Path : q # s.to /\ disk[q].tmp # 0 => disk[q].tmp # s.inode
    BY <1>1, <2>1 DEF FileInv, InodesApart
  <2> QED BY <1>1, <1>2, <2>1, <2>2, <2>3, DiskFields
<1>7. FilesWhole'
  BY <1>1, <1>6 DEF FileInv, FilesWhole, Orderly
<1>8. SavesHold'
  <2>1. SUFFICES ASSUME Orderly'
                 PROVE  /\ \A u, v \in saves' : u.to = v.to => u = v
                        /\ \A u \in saves' : Holds(u)'
    BY DEF SavesHold
  <2>2. /\ Orderly /\ \A u, v \in saves : u.to = v.to => u = v
        /\ \A u \in saves : Holds(u)
    BY <2>1 DEF Orderly, FileInv, SavesHold
  <2>3. \A u, v \in saves' : u.to = v.to => u = v
    BY <1>1, <2>2
  <2>4. Holds(t)'
    <3>1. s.inode # 0 /\ disk[s.to].tmp = s.inode /\ content'[s.inode] = Written(s)
      BY <1>2, <1>6, <2>2, BoundsAreNumbers
    <3> QED BY <1>1, <3>1 DEF Holds, Written
  <2>5. ASSUME NEW u \in saves, u # s
        PROVE  Holds(u)'
    <3>1. u.to \in Path /\ u.to # s.to /\ Holds(u) /\ Written(u)' = Written(u)
      BY <2>2, <2>5, SaveFields DEF Written
    <3>2. u.stage = "rename" => content'[u.inode] = content[u.inode]
      BY <1>6, <2>2, <3>1 DEF Holds
    <3> QED BY <1>1, <1>6, <2>2, <3>1, <3>2 DEF Holds
  <2> QED BY <1>1, <2>3, <2>4, <2>5
<1> QED BY <1>3, <1>4, <1>5, <1>7, <1>8 DEF FileInv

\* The temporary file takes the place of the document.
LEMMA RenamedKeepsFiles ==
  ASSUME TypeOK, FileInv, NEW s \in saves, RenamedFile(s),
         UNCHANGED <<saved, raced, overlapped>>
  PROVE  FileInv'
<1>1. s.stage = "rename" /\ content' = content /\ disk[s.to].tmp # 0 /\ s.to \in Path
  BY SaveFields DEF RenamedFile
<1>2. \A q \in Path :
        /\ disk'[q].main = IF q = s.to THEN disk[q].tmp ELSE disk[q].main
        /\ disk'[q].tmp = IF q = s.to THEN 0 ELSE disk[q].tmp
  BY DEF RenamedFile
<1>3. InodesApart'
  BY <1>1, <1>2 DEF FileInv, InodesApart
<1>4. /\ \A q \in Path : disk'[q].main <= saved' + 1 /\ disk'[q].tmp <= saved' + 1
      /\ \A u \in saves : u.stage = "asked" =>
           \A q \in Path : disk'[q].main # u.n + 1 /\ disk'[q].tmp # u.n + 1
  BY <1>2, SaveFields, DiskFields DEF FileInv, InodesGiven
<1>5. ASSUME Orderly
      PROVE  disk[s.to].tmp = s.inode /\ content[s.inode] = Written(s) /\ Valid(Written(s))
  BY <1>1, <1>5 DEF FileInv, SavesHold, Holds, SavesChecked
<1>6. FilesWhole'
  <2>1. SUFFICES ASSUME ~overlapped, NEW q \in Path, disk'[q].main # 0
                 PROVE  \/ content[disk'[q].main] = Original
                        \/ content[disk'[q].main] # Torn /\ Valid(content[disk'[q].main])
    BY <1>1 DEF FilesWhole
  <2>2. CASE q = s.to
    BY <1>2, <1>5, <2>1, <2>2, SaveFields, MarkersApart DEF Orderly, Written
  <2>3. CASE q # s.to
    BY <1>2, <2>1, <2>3 DEF FileInv, FilesWhole
  <2> QED BY <2>2, <2>3
<1>7. ASSUME Orderly, NEW u \in saves, u # s
      PROVE  Holds(u)' /\ u.to # s.to
  <2>1. u.to \in Path /\ u.to # s.to /\ Holds(u) /\ Written(u)' = Written(u)
    BY <1>7, SaveFields DEF Written, FileInv, SavesHold
  <2> QED BY <1>1, <1>2, <2>1 DEF Holds
<1>8. CASE saves' = saves \ {s}
  <2>1. InodesGiven' /\ SavesChecked'
    BY <1>4, <1>8 DEF FileInv, InodesGiven, SavesChecked, Written
  <2>2. SavesHold'
    BY <1>7, <1>8 DEF FileInv, SavesHold, Orderly
  <2> QED BY <1>3, <1>6, <2>1, <2>2 DEF FileInv
<1>9. CASE \E t \in SaveRequest : Becomes(s, t) /\ t.stage = "done" /\ t.inode = s.inode
  <2>1. PICK t \in SaveRequest :
          /\ saves' = (saves \ {s}) \cup {t} /\ t.n = s.n /\ t.to = s.to
          /\ t.snapshot = s.snapshot /\ t.stage = "done" /\ t.inode = s.inode
    BY <1>9 DEF Becomes
  <2>2. InodesGiven'
    BY <1>1, <1>4, <2>1 DEF FileInv, InodesGiven
  <2>3. SavesChecked'
    BY <1>1, <2>1 DEF FileInv, SavesChecked, Written
  <2>4. ASSUME Orderly PROVE Holds(t)'
    BY <1>1, <1>2, <1>5, <2>1, <2>4 DEF Holds, Written
  <2>5. SavesHold'
    <3>1. SUFFICES ASSUME Orderly'
                   PROVE  /\ \A u, v \in saves' : u.to = v.to => u = v
                          /\ \A u \in saves' : Holds(u)'
      BY DEF SavesHold
    <3>2. Orderly /\ \A u, v \in saves : u.to = v.to => u = v
      BY <3>1 DEF Orderly, FileInv, SavesHold
    <3>3. \A u, v \in saves' : u.to = v.to => u = v
      BY <2>1, <3>2
    <3> QED BY <1>7, <2>1, <2>4, <3>2, <3>3
  <2> QED BY <1>3, <1>6, <2>2, <2>3, <2>5 DEF FileInv
<1> QED BY <1>8, <1>9 DEF RenamedFile

\* Every step keeps FileInv.
LEMMA FilesStay == PageInv /\ FileInv /\ [Next]_vars => FileInv'
<1> SUFFICES ASSUME PageInv, FileInv, [Next]_vars PROVE FileInv'
  OBVIOUS
<1>0. TypeOK
  BY DEF PageInv
<1>1. CASE \E s \in saves : SaveStep(s)
  <2>1. PICK s \in saves : SaveStep(s)
    BY <1>1
  <2>2. UNCHANGED <<saved, raced, overlapped>>
    BY <2>1 DEF SaveStep, bounds
  <2> QED BY <1>0, <2>1, <2>2, SaveStepDoes, EndedKeepsFiles, OpenedKeepsFiles,
             WroteKeepsFiles, RenamedKeepsFiles
<1>2. CASE \E p \in Path : Save(p)
  BY <1>0, <1>2, SaveKeepsFiles
<1>3. CASE \E s \in saves : SaveAnswer(s)
  BY <1>3, AnsweredKeepsFiles
<1>4. ASSUME UNCHANGED <<disk, content, saved>>, saves' \in {saves, {}},
             overlapped' = overlapped, raced => raced' \/ saves' = {}
      PROVE  FileInv'
  BY <1>4, FilesUntouched
<1>5. CASE Show \/ Bootstrap \/ Close \/ Crash \/ Relayout
  BY <1>4, <1>5 DEF Show, Bootstrap, Close, Crash, Relayout, requests, files, bounds
<1>6. CASE (\E p \in Path : RequestLoad(p)) \/ (\E l \in loads : LoadAnswer(l))
  BY <1>4, <1>6 DEF RequestLoad, LoadAnswer, files, bounds
<1>7. CASE \E l \in loads : ReadDocument(l)
  BY <1>0, <1>4, <1>7, ReadDoes
<1>8. CASE Editing
  BY <1>0, <1>4, <1>8, EditsMake DEF Edit, RecordSnapshot, files
<1>9. CASE Visiting
  BY <1>0, <1>4, <1>9, VisitingGoes
<1>10. CASE RelayoutAnswer
  BY <1>4, <1>10, RelayoutAnswers DEF RecordSnapshot, files
<1>11. CASE UNCHANGED vars
  BY <1>4, <1>11 DEF vars, requests, files, bounds
<1> QED BY StepKinds, <1>1, <1>2, <1>3, <1>5, <1>6, <1>7, <1>8, <1>9, <1>10, <1>11

\* So it always holds.
LEMMA FilesAlways == Spec => []FileInv
BY FilesStart, FilesStay, PageAlways, PTL DEF Spec

\* A crash between any two steps of a save leaves each file as the editor found
\* it or whole and valid, unless two saves of the same file overlap (editor-window.ts,
\* writeFileAtomic after the document is validated).
THEOREM FilesStayWhole == Spec => []FilesWhole
<1>1. FileInv => FilesWhole
  BY DEF FileInv
<1> QED BY <1>1, FilesAlways, PTL

-----------------------------------------------------------------------------
(* A clean document and its file *)

\* Until edits, loads and saves get in each other's way, they do not go on at the
\* same time, a save has captured the document on the screen, and a load has read
\* what is still in the file.
CleanHolds ==
  ~raced =>
    /\ loads = {} \/ saves = {}
    /\ window = "open" => \A s \in saves : s.snapshot.document = document
    /\ \A l \in loads : l.stage = "read" =>
         /\ FileAt(Resolved[l.at]) # Torn
         /\ l.got.document = NormalizeDocument(FileAt(Resolved[l.at]))

CleanInv == CleanHolds /\ CleanMatchesFile

\* A step of a save leaves the documents alone, or puts its own in place.
LEMMA StepOnFile ==
  ASSUME TypeOK, FileInv, Orderly, NEW s \in saves, SaveStep(s), NEW q \in Path
  PROVE  \/ FileAt(q)' = FileAt(q)
         \/ q = s.to /\ FileAt(q)' = Written(s) /\ Valid(Written(s))
<1>0. /\ disk[q].main \in Inode \cup {0} /\ s.to \in Path
      /\ s.n \in Nat
  BY DiskFields, SaveFields
<1>1. CASE Ended(s)
  BY <1>1 DEF Ended, FileAt
<1>2. ASSUME NEW t \in SaveRequest, Opened(s, t)
      PROVE  FileAt(q)' = FileAt(q)
  <2>1. disk'[q].main = disk[q].main
    BY <1>2 DEF Opened
  <2>2. disk[q].main # 0 => disk[q].main # t.inode
    BY <1>0, <1>2 DEF Opened, InodeOf, FileInv, InodesApart, InodesGiven
  <2>3. disk[q].main # 0 => content'[disk[q].main] = content[disk[q].main]
    BY <1>0, <1>2, <2>2 DEF Opened
  <2> QED BY <2>1, <2>3 DEF FileAt
<1>3. ASSUME NEW t \in SaveRequest, Wrote(s, t)
      PROVE  FileAt(q)' = FileAt(q)
  <2>1. disk[s.to].tmp = s.inode /\ s.inode # 0
    BY <1>3 DEF Wrote, FileInv, SavesHold, Holds
  <2>2. disk[q].main # 0 => disk[q].main # s.inode
    BY <1>0, <2>1 DEF FileInv, InodesApart
  <2>3. disk[q].main # 0 => content'[disk[q].main] = content[disk[q].main]
    BY <1>0, <1>3, <2>2 DEF Wrote
  <2> QED BY <1>3, <2>3 DEF FileAt, Wrote
<1>4. CASE RenamedFile(s)
  <2>1. /\ disk'[q].main = IF q = s.to THEN disk[q].tmp ELSE disk[q].main
        /\ content' = content /\ disk[s.to].tmp # 0 /\ s.stage = "rename"
    BY <1>4 DEF RenamedFile
  <2>2. disk[s.to].tmp = s.inode /\ content[s.inode] = Written(s) /\ Valid(Written(s))
    BY <2>1 DEF FileInv, SavesHold, Holds, SavesChecked
  <2> QED BY <2>1, <2>2 DEF FileAt
<1> QED BY <1>1, <1>2, <1>3, <1>4, SaveStepDoes

\* A save of the document on the screen that passed validation shows it again.
LEMMA WrittenIsShown ==
  ASSUME TypeOK, NEW s \in saves, Valid(Written(s)), s.snapshot.document = document
  PROVE  /\ Written(s) # Torn
         /\ NormalizeDocument(Written(s)) = document
<1>1. document \in Document /\ Written(s) = NormalizeDocument(document)
  BY SaveFields DEF Written
<1>2. Written(s) = document
  BY <1>1, ValidIsNormal
<1> QED BY <1>1, <1>2, MarkersApart

\* CleanInv is inductive, given the layers before.  No document is shown at first.
LEMMA CleanStarts == Init => CleanInv
BY DEF Init, CleanInv, CleanHolds, CleanMatchesFile, Loaded

\* Steps that change the document on the screen make it dirty.
LEMMA DirtyKeepsClean ==
  ASSUME CleanInv, dirty', UNCHANGED <<disk, content, loads, saves>>,
         raced' = (raced \/ saves # {})
  PROVE  CleanInv'
<1>1. \A p : FileAt(p)' = FileAt(p)
  BY DEF FileAt
<1>2. CleanHolds'
  BY <1>1 DEF CleanInv, CleanHolds
<1>3. CleanMatchesFile'
  BY DEF CleanMatchesFile
<1> QED BY <1>2, <1>3 DEF CleanInv

\* Steps that leave the document on the screen and its file.
LEMMA SameKeepsClean ==
  ASSUME CleanInv, UNCHANGED <<document, path, dirty, disk, content>>,
         window' \in {window, "closed", "wiped"}, raced => raced',
         saves' \in {saves, {}},
         \A l \in loads' : l.stage = "read" => l \in loads,
         ~raced' => loads' = {} \/ saves' = {}
  PROVE  CleanInv'
<1>1. \A p : FileAt(p)' = FileAt(p)
  BY DEF FileAt
<1>2. CleanHolds'
  BY <1>1 DEF CleanInv, CleanHolds
<1>3. CleanMatchesFile'
  BY <1>1 DEF CleanInv, CleanMatchesFile, Loaded
<1> QED BY <1>2, <1>3 DEF CleanInv

\* What was read is what the file holds.
LEMMA ReadKeepsClean ==
  ASSUME TypeOK, CleanInv, NEW l \in loads, ReadDocument(l)
  PROVE  CleanInv'
<1>1. UNCHANGED <<document, path, dirty, disk, content, saves, raced>>
  BY ReadDoes
<1>2. \A p : FileAt(p)' = FileAt(p)
  BY <1>1 DEF FileAt
<1>3. window' \in {window, "wiped"}
  BY ReadDoes
<1>4. ~raced => saves = {}
  BY DEF CleanInv, CleanHolds
<1>5. ASSUME ~raced, NEW k \in loads', k.stage = "read"
      PROVE  /\ FileAt(Resolved[k.at]) # Torn
             /\ k.got.document = NormalizeDocument(FileAt(Resolved[k.at]))
  <2>1. CASE k \in loads
    BY <1>5, <2>1 DEF CleanInv, CleanHolds
  <2>2. CASE k \notin loads
    BY <1>5, <2>2, ReadDoes, MarkersApart
  <2> QED BY <2>1, <2>2
<1>6. CleanHolds'
  BY <1>1, <1>2, <1>4, <1>5 DEF CleanHolds
<1>7. CleanMatchesFile'
  BY <1>1, <1>2, <1>3 DEF CleanInv, CleanMatchesFile, Loaded
<1> QED BY <1>6, <1>7 DEF CleanInv

\* A document that was loaded is clean, and its file as it was read.
LEMMA LoadAnswerKeepsClean ==
  ASSUME CleanInv, NEW l \in loads, LoadAnswer(l)
  PROVE  CleanInv'
<1>1. /\ l.stage = "read" /\ document' = l.got.document /\ path' = Resolved[l.at]
      /\ loads' = loads \ {l} /\ raced' = (raced \/ saves # {})
      /\ UNCHANGED <<window, saves, disk, content>>
  BY DEF LoadAnswer, files
<1>2. \A p : FileAt(p)' = FileAt(p)
  BY <1>1 DEF FileAt
<1>3. CleanHolds'
  BY <1>1, <1>2 DEF CleanInv, CleanHolds
<1>4. CleanMatchesFile'
  BY <1>1, <1>2 DEF CleanInv, CleanHolds, CleanMatchesFile
<1> QED BY <1>3, <1>4 DEF CleanInv

\* A save of the page does not change it.
LEMMA SaveKeepsClean ==
  ASSUME TypeOK, CleanInv, NEW p \in Path, Save(p)
  PROVE  CleanInv'
<1>1. PICK s \in SaveRequest :
           /\ saves' = saves \cup {s} /\ s.snapshot.document = document
           /\ raced' = (raced \/ loads # {} \/ \E t \in saves : t.to = p)
           /\ UNCHANGED <<window, document, path, dirty, loads, disk, content>>
  BY SaveMakes
<1>2. \A q : FileAt(q)' = FileAt(q)
  BY <1>1 DEF FileAt
<1>3. CleanHolds'
  BY <1>1, <1>2 DEF CleanInv, CleanHolds
<1>4. CleanMatchesFile'
  BY <1>1, <1>2 DEF CleanInv, CleanMatchesFile, Loaded
<1> QED BY <1>3, <1>4 DEF CleanInv

\* A save replaces the file of the page only by what the page shows.
LEMMA SaveStepKeepsClean ==
  ASSUME TypeOK, FileInv, CleanInv, NEW s \in saves, SaveStep(s)
  PROVE  CleanInv'
<1>1. UNCHANGED <<window, document, path, dirty, loads, raced>>
  BY DEF SaveStep, session
<1>2. \A t \in saves' : \E u \in saves : t.snapshot = u.snapshot
  BY SaveStepDoes DEF Ended, Opened, Wrote, RenamedFile, Becomes
<1>3. CleanHolds'
  BY <1>1, <1>2 DEF CleanInv, CleanHolds
<1>4. CleanMatchesFile'
  <2>1. SUFFICES ASSUME Loaded, ~dirty, ~raced
                 PROVE  FileAt(path)' # Torn /\ NormalizeDocument(FileAt(path)') = document
    BY <1>1 DEF CleanMatchesFile, Loaded
  <2>2. FileAt(path) # Torn /\ NormalizeDocument(FileAt(path)) = document
    BY <2>1 DEF CleanInv, CleanMatchesFile
  <2>3. s.snapshot.document = document
    BY <2>1 DEF CleanInv, CleanHolds, Loaded
  <2>4. path \in Path
    BY DEF TypeOK
  <2>5. \/ FileAt(path)' = FileAt(path)
        \/ FileAt(path)' = Written(s) /\ Valid(Written(s))
    <3>1. \A q \in Path : \/ FileAt(q)' = FileAt(q)
                          \/ FileAt(q)' = Written(s) /\ Valid(Written(s))
      BY <2>1, StepOnFile DEF Orderly
    <3> QED BY <1>1, <2>4, <3>1
  <2> QED BY <2>2, <2>3, <2>5, WrittenIsShown
<1> QED BY <1>3, <1>4 DEF CleanInv

\* The star goes when the file has what was saved, normalised as the page is.
LEMMA SaveAnswerKeepsClean ==
  ASSUME TypeOK, FileInv, CleanInv, NEW s \in saves, SaveAnswer(s)
  PROVE  CleanInv'
<1>1. /\ s.stage = "done" /\ saves' = saves \ {s}
      /\ path' = s.to \/ UNCHANGED <<path, dirty>>
      /\ UNCHANGED <<window, document, loads, disk, content, raced>>
  BY DEF SaveAnswer, files
<1>2. \A q : FileAt(q)' = FileAt(q)
  BY <1>1 DEF FileAt
<1>3. CleanHolds'
  BY <1>1, <1>2 DEF CleanInv, CleanHolds
<1>4. ASSUME Loaded, ~raced
      PROVE  FileAt(s.to) # Torn /\ NormalizeDocument(FileAt(s.to)) = document
  <2>1. Valid(Written(s)) /\ FileAt(s.to) = Written(s)
    BY <1>1, <1>4 DEF FileInv, SavesHold, SavesChecked, Orderly, Holds, FileAt
  <2>2. s.snapshot.document = document
    BY <1>4 DEF CleanInv, CleanHolds, Loaded
  <2> QED BY <2>1, <2>2, WrittenIsShown
<1>5. CleanMatchesFile'
  BY <1>1, <1>2, <1>4 DEF CleanInv, CleanMatchesFile, Loaded
<1> QED BY <1>3, <1>5 DEF CleanInv

\* Every step keeps CleanInv.
LEMMA CleanStays == PageInv /\ FileInv /\ CleanInv /\ [Next]_vars => CleanInv'
<1> SUFFICES ASSUME PageInv, FileInv, CleanInv, [Next]_vars PROVE CleanInv'
  OBVIOUS
<1>0. TypeOK /\ PageFresh
  BY DEF PageInv
<1>1. CASE Show
  <2>1. loads' = {} /\ saves' = saves /\ raced' = (saves # {}) /\ document' = NoDocument
    BY <1>0, <1>1 DEF Show, requests, PageFresh
  <2> QED BY <2>1 DEF CleanInv, CleanHolds, CleanMatchesFile, Loaded
<1>2. CASE Bootstrap
  <2>1. /\ loads = {} /\ UNCHANGED <<document, path, dirty, saves, disk, content>>
    BY <1>0, <1>2 DEF Bootstrap, PageFresh, session, files
  <2>2. CASE Subscribes
    <3>1. /\ window' = window /\ raced' = (raced \/ saves # {})
          /\ \A l \in loads' : l.stage = "asked"
      BY <1>2, <2>1, <2>2 DEF Bootstrap
    <3> QED BY <2>1, <3>1, SameKeepsClean
  <2>3. CASE ~Subscribes
    <3>1. window' = "wiped" /\ loads' = {} /\ raced' = raced
      BY <1>2, <2>1, <2>3 DEF Bootstrap
    <3> QED BY <2>1, <3>1, SameKeepsClean
  <2> QED BY <2>2, <2>3
<1>3. CASE Close \/ Crash
  BY <1>3, SameKeepsClean DEF Close, Crash, session, files
<1>4. CASE \E p \in Path : RequestLoad(p)
  <2>1. /\ raced' = (raced \/ saves # {}) /\ \E l : l.stage = "asked" /\ loads' = loads \cup {l}
        /\ UNCHANGED <<window, document, path, dirty, saves, disk, content>>
    BY <1>4 DEF RequestLoad, session, files
  <2> QED BY <2>1, SameKeepsClean
<1>5. CASE \E l \in loads : ReadDocument(l)
  BY <1>0, <1>5, ReadKeepsClean
<1>6. CASE \E l \in loads : LoadAnswer(l)
  BY <1>6, LoadAnswerKeepsClean
<1>7. ASSUME NEW next, NEW places, RecordSnapshot(next, places)
      PROVE  CleanInv'
  BY <1>7, DirtyKeepsClean DEF RecordSnapshot, files
<1>8. CASE Editing
  BY <1>0, <1>7, <1>8, EditsMake DEF Edit
<1>9. CASE Visiting
  BY <1>0, <1>9, VisitingGoes, DirtyKeepsClean
<1>10. CASE Relayout
  <2>1. UNCHANGED <<window, document, path, dirty, loads, saves, disk, content, raced>>
    BY <1>10 DEF Relayout, session, files
  <2>2. ~raced => loads = {} \/ saves = {}
    BY DEF CleanInv, CleanHolds
  <2> QED BY <2>1, <2>2, SameKeepsClean
<1>11. CASE RelayoutAnswer
  <2>1. CASE \E next, places : RecordSnapshot(next, places)
    BY <1>7, <2>1
  <2>2. CASE /\ window' = "wiped"
             /\ UNCHANGED <<document, path, dirty, loads, saves, disk, content, raced>>
    <3>1. ~raced => loads = {} \/ saves = {}
      BY DEF CleanInv, CleanHolds
    <3> QED BY <2>2, <3>1, SameKeepsClean
  <2> QED BY <1>11, <2>1, <2>2, RelayoutAnswers
<1>12. CASE \E p \in Path : Save(p)
  BY <1>0, <1>12, SaveKeepsClean
<1>13. CASE \E s \in saves : SaveStep(s)
  BY <1>0, <1>13, SaveStepKeepsClean
<1>14. CASE \E s \in saves : SaveAnswer(s)
  BY <1>0, <1>14, SaveAnswerKeepsClean
<1>15. CASE UNCHANGED vars
  <2>1. UNCHANGED <<window, document, path, dirty, loads, saves, disk, content, raced>>
    BY <1>15 DEF vars, session, requests, files
  <2>2. ~raced => loads = {} \/ saves = {}
    BY DEF CleanInv, CleanHolds
  <2> QED BY <2>1, <2>2, SameKeepsClean
<1> QED BY StepKinds, <1>1, <1>2, <1>3, <1>4, <1>5, <1>6, <1>8, <1>9, <1>10, <1>11,
           <1>12, <1>13, <1>14, <1>15

\* So it always holds.
LEMMA CleanAlways == Spec => []CleanInv
BY CleanStarts, CleanStays, PageAlways, FilesAlways, PTL DEF Spec

\* A document without the star is the one in the file the title names, normalised,
\* unless there were edits or loads during a save (EditorApp.tsx, saveDocument and
\* its answer, which counts whatever is on the screen as saved).
THEOREM CleanMatches == Spec => []CleanMatchesFile
<1>1. CleanInv => CleanMatchesFile
  BY DEF CleanInv
<1> QED BY <1>1, CleanAlways, PTL

-----------------------------------------------------------------------------
(* References *)

\* Every document the editor keeps or has under way is sound, and so is every
\* document it can read, as normalisation shows it.
AllSound ==
  /\ \A i \in DOMAIN history : Sound(history[i])
  /\ relayout # Idle => Sound(relayout.snapshot)
  /\ \A s \in saves : Sound(s.snapshot)
  /\ \A l \in loads : l.stage = "read" => Sound(l.got)
  /\ \A i \in Inode : content[i] # Torn => Together(NormalizeDocument(content[i]))

SoundInv == AllSound /\ ReferencesResolve

\* ReferencesResolve is about the snapshot that the page shows.
LEMMA ResolveMeans ==
  ReferencesResolve <=> (document # NoDocument => Sound(Snapshot(document, layout)))
BY DEF ReferencesResolve, Sound, Snapshot, Together, Leads

\* SoundInv is inductive, given the layers before and a sound file to start with.
LEMMA SoundStarts ==
  ASSUME Together(NormalizeDocument(Original)), Init
  PROVE  SoundInv
<1>1. \A i \in Inode : content[i] # Torn => content[i] = Original
  BY DEF Init
<1> QED BY <1>1 DEF Init, SoundInv, AllSound, ReferencesResolve

\* Recording a sound snapshot keeps SoundInv.
LEMMA RecordKeepsSound ==
  ASSUME PageInv, SoundInv, document # NoDocument,
         NEW next \in Document, NEW places \in SUBSET AnimationId,
         RecordSnapshot(next, places), Sound(Snapshot(next, places)),
         relayout' \in {relayout, Idle}
  PROVE  SoundInv'
<1>1. /\ document' = next /\ layout' = places
      /\ history'[index'] = Snapshot(next, places)
      /\ \A i \in DOMAIN history' :
           i = index' \/ (i \in DOMAIN history /\ history'[i] = history[i])
  BY RecordKeeps DEF PageInv
<1>2. UNCHANGED <<loads, saves, content>>
  BY DEF RecordSnapshot, files
<1>3. \A i \in DOMAIN history' : Sound(history'[i])
  BY <1>1 DEF SoundInv, AllSound
<1>4. AllSound'
  BY <1>2, <1>3 DEF SoundInv, AllSound, Sound
<1>5. ReferencesResolve'
  BY <1>1 DEF ReferencesResolve, Sound, Snapshot, Together, Leads
<1> QED BY <1>4, <1>5 DEF SoundInv

\* Steps that leave the document, its history and the files.
LEMMA SameKeepsSound ==
  ASSUME SoundInv, UNCHANGED <<history, content>>,
         document' = NoDocument \/ UNCHANGED <<document, layout>>,
         relayout' = Idle \/ relayout' = relayout \/ Sound(relayout'.snapshot),
         \A s \in saves' : s \in saves \/ Sound(s.snapshot),
         \A l \in loads' : l \in loads \/ (l.stage = "read" => Sound(l.got))
  PROVE  SoundInv'
<1>1. AllSound'
  BY DEF SoundInv, AllSound, Sound
<1>2. ReferencesResolve'
  BY DEF SoundInv, ReferencesResolve
<1> QED BY <1>1, <1>2 DEF SoundInv

\* Undo and redo go to snapshots that are sound.
LEMMA VisitingKeepsSound ==
  ASSUME PageInv, SoundInv, Visiting
  PROVE  SoundInv'
<1>1. PICK i \in DOMAIN history :
           /\ document' = history[i].document
           /\ Ids(document') \subseteq layout'
           /\ UNCHANGED <<history, loads, saves, relayout, content>>
  BY VisitingGoes DEF PageInv
<1>2. Together(document')
  BY <1>1 DEF SoundInv, AllSound, Sound
<1>3. AllSound'
  BY <1>1 DEF SoundInv, AllSound, Sound
<1>4. ReferencesResolve'
  BY <1>1, <1>2 DEF ReferencesResolve, Together, Leads
<1> QED BY <1>3, <1>4 DEF SoundInv

\* What is read from a file is sound when normalised.
LEMMA ReadKeepsSound ==
  ASSUME TypeOK, SoundInv, NEW l \in loads, ReadDocument(l)
  PROVE  SoundInv'
<1>1. UNCHANGED <<document, layout, history, saves, relayout, content>>
  BY ReadDoes
<1>2. \A p \in Path : FileAt(p) \in Document => Together(NormalizeDocument(FileAt(p)))
  <2>1. ASSUME NEW p \in Path, FileAt(p) \in Document
        PROVE  Together(NormalizeDocument(FileAt(p)))
    <3>1. disk[p].main \in Inode /\ FileAt(p) = content[disk[p].main] /\ FileAt(p) # Torn
      BY <2>1, DiskFields, MarkersApart DEF FileAt
    <3> QED BY <3>1 DEF SoundInv, AllSound
  <2> QED BY <2>1
<1>3. \A k \in loads' : k \in loads \/ Sound(k.got)
  <2>1. Resolved[l.at] \in Path
    BY LoadFields
  <2> QED BY <1>2, <2>1, ReadDoes DEF Sound
<1> QED BY <1>1, <1>3, SameKeepsSound

\* A history starts with the sound document that was read.
LEMMA LoadAnswerKeepsSound ==
  ASSUME SoundInv, NEW l \in loads, LoadAnswer(l)
  PROVE  SoundInv'
<1>1. /\ document' = l.got.document /\ layout' = l.got.layout
      /\ history' = <<l.got>> /\ loads' = loads \ {l} /\ Sound(l.got)
      /\ UNCHANGED <<saves, relayout, content>>
  BY DEF LoadAnswer, files, SoundInv, AllSound
<1>2. \A i \in DOMAIN history' : history'[i] = l.got
  BY <1>1
<1>3. AllSound'
  BY <1>1, <1>2 DEF SoundInv, AllSound, Sound
<1>4. ReferencesResolve'
  BY <1>1 DEF ReferencesResolve, Sound, Together, Leads
<1> QED BY <1>3, <1>4 DEF SoundInv

\* A save writes a document with every reference as it is on the screen.
LEMMA SaveStepKeepsSound ==
  ASSUME TypeOK, FileInv, SoundInv, NEW s \in saves, SaveStep(s)
  PROVE  SoundInv'
<1>1. UNCHANGED <<document, layout, history, loads, relayout>>
  BY DEF SaveStep, session
<1>2. \A t \in saves' : \E u \in saves : t.snapshot = u.snapshot
  BY SaveStepDoes DEF Ended, Opened, Wrote, RenamedFile, Becomes
<1>3. \A i \in Inode :
        \/ content'[i] \in {content[i], Torn}
        \/ s.stage = "write" /\ content'[i] = Written(s)
  BY SaveStepDoes DEF Ended, Opened, Wrote, RenamedFile
<1>4. ASSUME s.stage = "write"
      PROVE  Together(NormalizeDocument(Written(s)))
  <2>1. Valid(Written(s)) /\ s.snapshot.document \in Document
    BY <1>4, SaveFields DEF FileInv, SavesChecked
  <2>2. Written(s) = s.snapshot.document
    BY <2>1, ValidIsNormal DEF Written
  <2>3. NormalizeDocument(Written(s)) = s.snapshot.document
    BY <2>2 DEF Written
  <2> QED BY <2>3 DEF SoundInv, AllSound, Sound
<1>5. AllSound'
  BY <1>1, <1>2, <1>3, <1>4 DEF SoundInv, AllSound, Sound
<1>6. ReferencesResolve'
  BY <1>1 DEF SoundInv, ReferencesResolve
<1> QED BY <1>5, <1>6 DEF SoundInv

\* Every step keeps SoundInv.
LEMMA SoundStays == PageInv /\ FileInv /\ SoundInv /\ [Next]_vars => SoundInv'
<1> SUFFICES ASSUME PageInv, FileInv, SoundInv, [Next]_vars PROVE SoundInv'
  OBVIOUS
<1>0. TypeOK
  BY DEF PageInv
<1>1. document # NoDocument => Sound(Snapshot(document, layout))
  BY ResolveMeans DEF SoundInv
<1>2. CASE Show
  <2>1. /\ document' = NoDocument /\ history' = << >>
        /\ UNCHANGED <<loads, saves, relayout, content>>
    BY <1>2 DEF Show, requests, files
  <2>2. AllSound'
    BY <2>1 DEF SoundInv, AllSound, Sound
  <2> QED BY <2>1, <2>2 DEF SoundInv, ReferencesResolve
<1>3. CASE Bootstrap \/ Close \/ Crash \/ \E p \in Path : RequestLoad(p)
  BY <1>3, SameKeepsSound DEF Bootstrap, Close, Crash, RequestLoad, session, files
<1>4. CASE \E l \in loads : ReadDocument(l)
  BY <1>0, <1>4, ReadKeepsSound
<1>5. CASE \E l \in loads : LoadAnswer(l)
  BY <1>5, LoadAnswerKeepsSound
<1>6. CASE Editing
  BY <1>0, <1>1, <1>6, EditsMake, RecordKeepsSound DEF Edit, Loaded
<1>7. CASE Visiting
  BY <1>7, VisitingKeepsSound
<1>8. CASE Relayout
  <2>1. /\ document # NoDocument
        /\ relayout' = [stage |-> "asked", snapshot |-> Snapshot(document, layout)]
        /\ UNCHANGED <<document, layout, history, loads, saves, content>>
    BY <1>8 DEF Relayout, Loaded, session, files
  <2> QED BY <1>1, <2>1, SameKeepsSound
<1>9. CASE RelayoutAnswer
  <2>1. relayout # Idle /\ relayout' = Idle /\ document # NoDocument
    BY <1>9, RelayoutAnswers
  <2>2. ASSUME NEW next \in Document, NEW places \in SUBSET AnimationId,
               RecordSnapshot(next, places), next = relayout.snapshot.document,
               Ids(next) \subseteq places
        PROVE  SoundInv'
    <3>1. Sound(Snapshot(next, places))
      BY <2>1, <2>2 DEF SoundInv, AllSound, Sound, Snapshot
    <3> QED BY <2>1, <2>2, <3>1, RecordKeepsSound
  <2>3. CASE UNCHANGED <<document, layout, history, loads, saves, content>>
    BY <2>1, <2>3, SameKeepsSound
  <2> QED BY <1>9, <2>2, <2>3, RelayoutAnswers
<1>10. CASE \E p \in Path : Save(p)
  <2>1. PICK s \in SaveRequest :
           /\ saves' = saves \cup {s} /\ Loaded
           /\ s.snapshot.document = document /\ s.snapshot.layout = layout
           /\ UNCHANGED <<document, layout, history, loads, relayout, content>>
    BY <1>0, <1>10, SaveMakes
  <2>2. Sound(s.snapshot)
    BY <1>1, <2>1 DEF Loaded, Sound, Snapshot
  <2> QED BY <2>1, <2>2, SameKeepsSound
<1>11. CASE \E s \in saves : SaveStep(s)
  BY <1>0, <1>11, SaveStepKeepsSound
<1>12. CASE \E s \in saves : SaveAnswer(s)
  BY <1>12, SameKeepsSound DEF SaveAnswer, files
<1>13. CASE UNCHANGED vars
  BY <1>13, SameKeepsSound DEF vars, session, requests, files
<1> QED BY StepKinds, <1>2, <1>3, <1>4, <1>5, <1>6, <1>7, <1>8, <1>9, <1>10, <1>11,
           <1>12, <1>13

\* Opened on a document whose references lead to its animations, the editor never
\* shows one in which a reference the user did not pick from a list, or a sound,
\* leads nowhere, nor an animation without a place: after any renaming, deleting,
\* undo, redo, layout, save and load (rewriteAnimationReferences, deleteSelection,
\* mergeLayout).
THEOREM ReferencesStay ==
  ASSUME Together(NormalizeDocument(Original))
  PROVE  Spec => []ReferencesResolve
<1>1. Init => SoundInv
  BY SoundStarts
<1>2. SoundInv => ReferencesResolve
  BY DEF SoundInv
<1> QED BY <1>1, <1>2, SoundStays, PageAlways, FilesAlways, PTL DEF Spec
=============================================================================
