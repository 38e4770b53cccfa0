------------------------- MODULE MCSparqlDatasource -------------------------
(* Requests that share a pattern and one for another; counts below and above the threshold. *)
EXTENDS SparqlDatasource, TLC

CONSTANTS r1, r2, r3, p1, p2

MCPatternOf == r1 :> p1 @@ r2 :> p1 @@ r3 :> p2

Small == 5
Large == 100001
MCNumbers == {Small, Large}
=============================================================================
