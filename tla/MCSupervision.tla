--------------------------- MODULE MCSupervision ---------------------------
(* A small tree of cells. *)
EXTENDS Supervision, TLC

CONSTANTS guardian, parent, first, second, sibling

\* A guardian, its child, and three grandchildren.
MCCells == {guardian, parent, first, second, sibling}
MCParent == (parent :> guardian) @@ [c \in {first, second, sibling} |-> parent]

\* The second grandchild is the successor of the first, under the same name.
MCName == [c \in MCCells |-> IF c = second THEN first ELSE c]

\* The first grandchild brings its own strategy, the second's is built per call.
MCStrategy == (parent :> "own") @@ (first :> "own") @@ (second :> "per call")
              @@ (sibling :> "shared")

\* A successor without a sibling, and siblings with less to do.
MCScenarios == {[cells |-> {parent, first, second}, work |-> 2, failures |-> 2],
                [cells |-> MCCells, work |-> 1, failures |-> 1]}

\* A supervisor and one child that fails again and again, under a strategy that is
\* one object, or built per call.
BudgetScenarios == {[cells |-> {parent, c}, work |-> 0, failures |-> 3] : c \in {first, second}}

=============================================================================
