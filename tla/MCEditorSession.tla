--------------------------- MODULE MCEditorSession ---------------------------
(***************************************************************************)
(* A document and paths on which TLC checks EditorSession.                  *)
(***************************************************************************)
EXTENDS EditorSession

Links(sequence, border) ==
  [g \in Group |-> CASE g = "sequence" -> sequence [] g = "border" -> border
                     [] OTHER -> << >>]

\* Two animations that lead to each other, one with a border transition.
Pair ==
  [fit |-> TRUE,
   animations |-> <<[id |-> 1, fit |-> TRUE, links |-> Links(<<To(2)>>, << >>)],
                    [id |-> 2, fit |-> TRUE, links |-> Links(<< >>, <<To(1)>>)]>>,
   spawns |-> <<To(1)>>,
   children |-> <<[animation |-> 1, next |-> To(2)]>>,
   sounds |-> <<2>>]

\* "named" is another .json file in the directory of "home".
Beside == [p \in {"home", "named"} |-> "home"]
=============================================================================
