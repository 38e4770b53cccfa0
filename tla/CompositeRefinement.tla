------------------------ MODULE CompositeRefinement ------------------------
(***************************************************************************)
(* CompositeDatasource implements ConcatenatedSource: the walk over the    *)
(* sub-datasources, the count cache and the sub-queries are invisible to   *)
(* the reader of the stream, but for the requests that the cache misleads. *)
(***************************************************************************)
EXTENDS CompositeDatasource

\* The quads of the concatenation for pattern p.
Matches(p) == Preceding(N, p)

State(r) == CASE pc[r] = "idle"   -> "idle"
              [] pc[r] = "closed" -> "closed"
              [] pc[r] \notin {"idle", "closed"} /\ Broken(r) -> "broken"
              [] OTHER            -> "open"

\* The number of quads before the next one of r: those before the sub-query
\* and those it has passed; all of them when no sub-datasource is chosen.
Position(r) ==
  LET p == query[r].pattern
      passed == sub[r].offset + sub[r].sent
      matches == size[p][sub[r].index]
  IN  IF sub[r].index >= 0
        THEN Start(sub[r].index, p) + (IF passed < matches THEN passed ELSE matches)
        ELSE IF pc[r] = "closed" /\ query[r].offset < Total(p)
               THEN Total(p)
               ELSE query[r].offset

Promise == INSTANCE ConcatenatedSource WITH
  matches <- [p \in Patterns |-> Matches(p)],
  state   <- [r \in Requests |-> State(r)],
  total   <- [r \in Requests |->
                IF metadata[r].hasExactCount THEN metadata[r].totalCount ELSE -1],
  page    <- out,
  position <- [r \in Requests |-> Position(r)]

\* Every stream of the composite datasource is the page of one concatenated
\* source, and every query it accepts is answered, but those that the failure
\* of a sub-datasource breaks off.
IsConcatenation == Promise!FairSpec
=============================================================================
