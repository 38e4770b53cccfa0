----------------------- MODULE MCCompositeRefinement -----------------------
(* Small instances of CompositeRefinement for TLC.                         *)
EXTENDS CompositeRefinement

CONSTANTS r1, r2, p1, p2, g

\* All numbers of matches.
AllContents == [Patterns -> [Sources -> 0 .. MaxSize]]

\* The patterns p1 and p2 bind the same positions; g also binds the graph.
BoundPositions == [p \in Patterns |-> IF p \in GraphPatterns THEN "spog" ELSE "spo"]

\* Numbers of matches, among them empty, exactly full and spilling sources.
\* The pattern p2 has other numbers than p1 and g.
SomeContents ==
  {[p \in Patterns |-> [d \in Sources |-> IF p = p2 THEN s[2][d + 1] ELSE s[1][d + 1]]] :
     s \in {<<<<0, 0, 0>>, <<0, 2, 1>>>>, <<<<2, 0, 1>>, <<1, 2, 0>>>>,
            <<<<1, 2, 0>>, <<0, 1, 2>>>>, <<<<0, 2, 2>>, <<2, 2, 2>>>>}}
=============================================================================
