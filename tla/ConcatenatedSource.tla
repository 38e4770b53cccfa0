------------------------- MODULE ConcatenatedSource -------------------------
(***************************************************************************)
(* What a composite datasource promises (CompositeDatasource.ts:2): it     *)
(* answers as one datasource whose matches are those of its                *)
(* sub-datasources, one after the other.  A query is answered with the     *)
(* quads from its offset on, in that order, up to its limit.  A total that *)
(* is called exact is the number of matches of the whole concatenation.    *)
(*                                                                         *)
(* A request for a later page may be misled about the sizes of the parts:  *)
(* its page may then start anywhere and its total be anything.  It still   *)
(* is a contiguous part of the concatenation, and still breaks off only at *)
(* its limit or at the end.                                                *)
(***************************************************************************)
EXTENDS Integers, Sequences, FiniteSets

CONSTANTS Requests, Queries

VARIABLES
  matches,  \* matches[p]: the matches <<d, i>> of pattern p
  state,    \* state[r]: idle, open, closed or broken
  query,    \* query[r]: the query of request r
  total,    \* total[r]: the announced exact total, or Unknown
  page,     \* page[r]: the quads delivered so far
  position, \* position[r]: the number of matches before the next quad of r
  misled    \* the requests that were misled

vars == <<matches, state, query, total, page, position, misled>>

Unknown == -1

\* The matches of p that come before match m.
Before(m, p) == {x \in matches[p] : \/ x[1] < m[1]
                                    \/ x[1] = m[1] /\ x[2] < m[2]}

TypeOK == /\ state \in [Requests -> {"idle", "open", "closed", "broken"}]
          /\ total \in [Requests -> Nat \cup {Unknown}]
          /\ position \in [Requests -> Nat]

Init ==
  /\ state = [r \in Requests |-> "idle"]
  /\ total = [r \in Requests |-> Unknown]
  /\ page = [r \in Requests |-> << >>]
  /\ position = [r \in Requests |-> 0]
  /\ misled = {}

Size(r) == Cardinality(matches[query[r].pattern])
Complete(r) == Len(page[r]) = query[r].limit \/ position[r] >= Size(r)

Accept(r, q) ==
  /\ state[r] = "idle"
  /\ query' = [query EXCEPT ![r] = q]
  /\ state' = [state EXCEPT ![r] = "open"]
  /\ position' = [position EXCEPT ![r] = q.offset]
  /\ UNCHANGED <<matches, total, page, misled>>

\* Before anything is announced or delivered.
Fresh(r) == state[r] = "open" /\ total[r] = Unknown /\ page[r] = << >>

\* The exact total, when it is announced at all, precedes the quads.
Announce(r) ==
  /\ Fresh(r)
  /\ r \notin misled
  /\ total' = [total EXCEPT ![r] = Size(r)]
  /\ state' \in {state, [state EXCEPT ![r] = IF Complete(r) THEN "closed" ELSE @]}
  /\ UNCHANGED <<matches, query, page, position, misled>>

\* A request that skips a part of the source may get its size wrong ...
Mislead(r) ==
  /\ Fresh(r)
  /\ query[r].offset > 0
  /\ misled' = misled \cup {r}
  /\ UNCHANGED <<matches, state, query, total, page, position>>

\* ... and then start at any place, with any total.
Misplace(r) ==
  /\ Fresh(r)
  /\ r \in misled
  /\ position'[r] \in Nat /\ position' = [position EXCEPT ![r] = position'[r]]
  /\ total'[r] \in Nat \cup {Unknown} /\ total' = [total EXCEPT ![r] = total'[r]]
  /\ state' \in {state, [state EXCEPT ![r] = IF position'[r] >= Size(r) THEN "closed" ELSE @]}
  /\ UNCHANGED <<matches, query, page, misled>>

Deliver(r) ==
  /\ state[r] = "open"
  /\ ~Complete(r)
  /\ \E m \in matches[query[r].pattern] :
       /\ Cardinality(Before(m, query[r].pattern)) = position[r]
       /\ page' = [page EXCEPT ![r] = Append(@, m)]
  /\ position' = [position EXCEPT ![r] = @ + 1]
  /\ UNCHANGED <<matches, state, query, total, misled>>

Close(r) ==
  /\ state[r] = "open"
  /\ Complete(r)
  /\ state' = [state EXCEPT ![r] = "closed"]
  /\ UNCHANGED <<matches, query, total, page, position, misled>>

\* Streams break off: one that needs a part of the source that is down, or all
\* of them when the process ends.
Break ==
  /\ \E broken \in SUBSET {r \in Requests : state[r] = "open"} :
       state' = [r \in Requests |-> IF r \in broken THEN "broken" ELSE state[r]]
  /\ UNCHANGED <<matches, query, total, page, position, misled>>

Next ==
  \/ \E r \in Requests : \/ \E q \in Queries : Accept(r, q)
                        \/ Announce(r)
                        \/ Mislead(r)
                        \/ Misplace(r)
                        \/ Deliver(r)
                        \/ Close(r)
  \/ Break

Spec == Init /\ [][Next]_vars

\* Every accepted query is answered or breaks off.
FairSpec == Spec /\ \A r \in Requests : WF_vars(Deliver(r) \/ Close(r))
=============================================================================
