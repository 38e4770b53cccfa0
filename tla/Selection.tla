----------------------------- MODULE Selection -----------------------------
(***************************************************************************)
(* How a datasource presents its quads (Datasource.select).  Blank nodes   *)
(* are published as IRIs with a prefix, and come back in queries as such;  *)
(* a datasource with the graph option publishes its default graph under    *)
(* that name; one without quads has a default graph only.                  *)
(*                                                                         *)
(* A term has a type and a value; an IRI that starts with the prefix for   *)
(* blank nodes has skolem set and the label as value.  Predicates are not  *)
(* translated and left out.                                                *)
(***************************************************************************)
EXTENDS Integers, Sequences

Iri(value) == [type |-> "iri", skolem |-> FALSE, value |-> value]
Genid(label) == [type |-> "iri", skolem |-> TRUE, value |-> label]
Blank(label) == [type |-> "blank", skolem |-> FALSE, value |-> label]
Default == [type |-> "default", skolem |-> FALSE, value |-> ""]
Unbound == [type |-> "any", skolem |-> FALSE, value |-> ""]   \* an unbound position

EmptyGraph == Iri("urn:ldf:emptyGraph")
Positions == {"subject", "object", "graph"}

\* A term of the data, and one of a query: blank nodes can only be asked for by
\* their IRIs.
Terms == [type : {"iri", "literal", "blank"}, skolem : BOOLEAN, value : STRING]
DataTerms == Terms \cup {Default}
QueryTerms == {term \in DataTerms : term.type # "blank"} \cup {Unbound}

Matches(pattern, quad) ==
  \A p \in Positions : pattern[p] = Unbound \/ pattern[p] = quad[p]

\* The translation of a term of a query.
ToBlank(term) == IF term.type = "iri" /\ term.skolem THEN Blank(term.value) ELSE term

\* Mutant: the default graph is renamed in the results only.
QueryGraphAsAsked(store, graph) ==
  IF store.quads THEN ToBlank(graph) ELSE Default

\* The graph to search.  The name of the default graph stands for it, and so
\* its usual name stands for an empty graph.
QueryGraph(store, graph) ==
  LET asked == IF store.quads THEN ToBlank(graph) ELSE Default
  IN  IF store.graph # Unbound /\ asked = Default THEN EmptyGraph
      ELSE IF store.graph # Unbound /\ asked = store.graph THEN Default
      ELSE asked

Translated(store, pattern) ==
  [subject |-> ToBlank(pattern.subject), object |-> ToBlank(pattern.object),
   graph |-> QueryGraph(store, pattern.graph)]

\* The translation of a term of a result.
ToIri(store, term) ==
  IF term.type = "blank" /\ term.value \notin store.blacklist THEN Genid(term.value) ELSE term

Published(store, quad) ==
  [subject |-> ToIri(store, quad.subject), object |-> ToIri(store, quad.object),
   graph |-> IF quad.graph = Default /\ store.graph # Unbound THEN store.graph
                                                        ELSE ToIri(store, quad.graph)]

\* The members of a sequence that are chosen, in their order.
Subsequence(seq, chosen) ==
  LET first[n \in 0 .. Len(seq)] ==
        IF n = 0 THEN << >>
        ELSE IF chosen[n] THEN Append(first[n - 1], seq[n]) ELSE first[n - 1]
  IN  first[Len(seq)]

\* The quads that match a pattern, as a search of an N3 store or an HDT document
\* finds them.
Found(store, pattern) ==
  Subsequence(store.content,
    [i \in DOMAIN store.content |-> Matches(Translated(store, pattern), store.content[i])])

-----------------------------------------------------------------------------
(* What a datasource is meant to answer.                                   *)

\* A quad of a datasource that offers triples only is visible in the default
\* graph.
Visible(store, quad) == store.quads \/ quad.graph = Default

\* The published quads that match a pattern.
Answer(store, pattern) ==
  LET Asked(quad) == Visible(store, quad) /\ Matches(pattern, Published(store, quad))
      asked == Subsequence(store.content,
                 [i \in DOMAIN store.content |-> Asked(store.content[i])])
  IN  [i \in DOMAIN asked |-> Published(store, asked[i])]

\* The published names are unambiguous: no IRI of the data or the options looks
\* like a blank node, all blank nodes are published as IRIs, the data has no graph
\* with the name of the default graph or the empty one, and only a datasource with
\* quads has that option.
Regular(store) ==
  /\ \A i \in DOMAIN store.content : \A p \in Positions : ~store.content[i][p].skolem
  /\ store.blacklist = {}
  /\ store.graph # Unbound =>
       /\ store.quads /\ ~store.graph.skolem
       /\ \A i \in DOMAIN store.content : store.content[i].graph \notin {store.graph, EmptyGraph}
=============================================================================
