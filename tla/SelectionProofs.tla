-------------------------- MODULE SelectionProofs --------------------------
(***************************************************************************)
(* What is proved of the operators that a request goes through: the sort   *)
(* and the choice of the timegate, and the two translations of a           *)
(* datasource.                                                             *)
(***************************************************************************)
EXTENDS Timegate, Selection, OrderLemmas, SequenceTheorems

-----------------------------------------------------------------------------
(* Sorting a timemap.                                                      *)

\* The order of SortTimemap: by start, then by position.
Before(s, i, j) == \/ s[i].start < s[j].start
                   \/ s[i].start = s[j].start /\ i < j

Place(s, i) == 1 + Cardinality({j \in DOMAIN s : Before(s, j, i)})

IsTimemap(s) ==
  /\ Len(s) \in Nat /\ DOMAIN s = 1 .. Len(s)
  /\ \A i \in DOMAIN s : s[i].start \in Nat /\ s[i].end \in Dates

\* The positions of a timemap of n entries are finite, and n.
LEMMA UpTo ==
  ASSUME NEW n \in Nat
  PROVE  IsFiniteSet(1 .. n) /\ Cardinality(1 .. n) = n
<1>1. n \in Int /\ 1 \in Int
  OBVIOUS
<1>2. IsFiniteSet(1 .. n) /\ Cardinality(1 .. n) = IF 1 > n THEN 0 ELSE n - 1 + 1
  BY <1>1, FS_Interval, Zenon
<1> QED
  BY <1>2

LEMMA PlaceType ==
  ASSUME NEW s, IsTimemap(s), NEW i \in DOMAIN s
  PROVE  Place(s, i) \in DOMAIN s
<1> DEFINE B == {j \in DOMAIN s : Before(s, j, i)}
<1>1. IsFiniteSet(DOMAIN s) /\ Cardinality(DOMAIN s) = Len(s)
  BY UpTo, Zenon DEF IsTimemap
<1>2. B \subseteq DOMAIN s /\ i \notin B
  BY DEF Before, IsTimemap
<1>3. IsFiniteSet(B) /\ Cardinality(B) \in Nat /\ Cardinality(B) <= Len(s)
  BY <1>1, <1>2, FS_Subset, FS_CardinalityType
<1>4. Cardinality(B) # Len(s)
  BY <1>1, <1>2, FS_Subset
<1> QED
  BY <1>3, <1>4 DEF Place, IsTimemap

LEMMA PlaceGrows ==
  ASSUME NEW s, IsTimemap(s), NEW i \in DOMAIN s, NEW j \in DOMAIN s, Before(s, i, j)
  PROVE  Place(s, i) < Place(s, j)
<1> DEFINE Bi == {k \in DOMAIN s : Before(s, k, i)}
           Bj == {k \in DOMAIN s : Before(s, k, j)}
<1>1. IsFiniteSet(DOMAIN s)
  BY UpTo, Zenon DEF IsTimemap
<1>2. Bi \subseteq Bj /\ i \in Bj /\ i \notin Bi
  BY DEF Before, IsTimemap
<1>3. Bj \subseteq DOMAIN s
  OBVIOUS
<1>4. IsFiniteSet(Bj)
  BY <1>1, <1>3, FS_Subset
<1>5. IsFiniteSet(Bi) /\ Cardinality(Bi) <= Cardinality(Bj)
      /\ (Cardinality(Bi) = Cardinality(Bj) => Bi = Bj)
  BY <1>2, <1>4, FS_Subset
<1>6. Cardinality(Bi) \in Nat /\ Cardinality(Bj) \in Nat
  BY <1>4, <1>5, FS_CardinalityType
<1> QED
  BY <1>2, <1>5, <1>6 DEF Place

LEMMA PlaceBijective ==
  ASSUME NEW s, IsTimemap(s)
  PROVE  /\ \A i, j \in DOMAIN s : Place(s, i) = Place(s, j) => i = j
         /\ \A k \in DOMAIN s : \E i \in DOMAIN s : Place(s, i) = k
<1>1. ASSUME NEW i \in DOMAIN s, NEW j \in DOMAIN s, Place(s, i) = Place(s, j)
      PROVE  i = j
  <2>1. Place(s, i) \in Nat /\ Place(s, j) \in Nat
    BY PlaceType DEF IsTimemap
  <2>2. ~Before(s, i, j) /\ ~Before(s, j, i)
    BY <1>1, <2>1, PlaceGrows
  <2> QED
    BY <2>2 DEF Before, IsTimemap
<1> DEFINE f == [i \in DOMAIN s |-> Place(s, i)]
<1>2. f \in [DOMAIN s -> DOMAIN s]
  BY PlaceType
<1>3. f \in Injection(DOMAIN s, DOMAIN s)
  BY <1>1, <1>2 DEF Injection, IsInjective
<1>4. IsFiniteSet(DOMAIN s)
  BY UpTo, Zenon DEF IsTimemap
<1>5. f \in Surjection(DOMAIN s, DOMAIN s)
  <2> HIDE DEF f
  <2> QED
    BY <1>3, <1>4, FS_Injection
<1>6. \A k \in DOMAIN s : \E i \in DOMAIN s : Place(s, i) = k
  BY <1>5 DEF Surjection
<1> QED
  BY <1>1, <1>6

\* The position of the version that comes in place k.
At(s, k) == CHOOSE i \in DOMAIN s : Place(s, i) = k

LEMMA SortIsAt ==
  ASSUME NEW s
  PROVE  SortTimemap(s) = [k \in DOMAIN s |-> s[At(s, k)]]
BY DEF SortTimemap, At, Place, Before

\* The sorted timemap has the versions of the configuration, in the order of
\* their start dates (sortTimemap).
THEOREM SortTimemapSorts ==
  ASSUME NEW s, IsTimemap(s)
  PROVE  /\ DOMAIN SortTimemap(s) = DOMAIN s
         /\ \A k \in DOMAIN s : \E i \in DOMAIN s : SortTimemap(s)[k] = s[i]
         /\ \A i \in DOMAIN s : \E k \in DOMAIN s : SortTimemap(s)[k] = s[i]
         /\ \A k, l \in DOMAIN s :
              k <= l => SortTimemap(s)[k].start <= SortTimemap(s)[l].start
<1>1. \A k \in DOMAIN s : At(s, k) \in DOMAIN s /\ Place(s, At(s, k)) = k
  BY PlaceBijective DEF At
<1>2. \A k \in DOMAIN s : SortTimemap(s)[k] = s[At(s, k)]
  BY SortIsAt
<1>3. DOMAIN SortTimemap(s) = DOMAIN s
  BY SortIsAt
<1>4. ASSUME NEW i \in DOMAIN s PROVE \E k \in DOMAIN s : SortTimemap(s)[k] = s[i]
  <2>1. Place(s, i) \in DOMAIN s
    BY PlaceType
  <2>2. At(s, Place(s, i)) = i
    BY <1>1, <2>1, PlaceBijective
  <2> QED
    BY <1>2, <2>1, <2>2
<1>5. ASSUME NEW k \in DOMAIN s, NEW l \in DOMAIN s, k <= l
      PROVE  s[At(s, k)].start <= s[At(s, l)].start
  <2>1. At(s, k) \in DOMAIN s /\ At(s, l) \in DOMAIN s
    BY <1>1
  <2>2. s[At(s, k)].start \in Nat /\ s[At(s, l)].start \in Nat
    BY <2>1 DEF IsTimemap
  <2>3. CASE s[At(s, l)].start < s[At(s, k)].start
    <3>1. Before(s, At(s, l), At(s, k))
      BY <2>3 DEF Before
    <3>2. l < k
      BY <1>1, <2>1, <3>1, PlaceGrows
    <3> QED
      BY <1>5, <3>2 DEF IsTimemap
  <2> QED
    BY <2>2, <2>3
<1> QED
  BY <1>1, <1>2, <1>3, <1>4, <1>5

-----------------------------------------------------------------------------
(* The choice of a memento.                                                *)

Sorted(timemap) ==
  \A k, l \in DOMAIN timemap : k <= l => timemap[k].start <= timemap[l].start

\* In a sorted timemap with orderly intervals, the version that is chosen for a
\* date is a closest one: its interval holds the date if there is such an
\* interval, whatever the gaps and overlaps (_getClosestMemento).
THEOREM ClosestMementoIsClosest ==
  ASSUME NEW tm, IsTimemap(tm), tm # <<>>, Len(tm) # 0, Sorted(tm), Orderly(tm), NEW date \in Nat
  PROVE  \E i \in DOMAIN tm : /\ ClosestMemento(tm, date) = tm[i]
                              /\ IsClosest(tm, tm[i], date)
<1> DEFINE n == Len(tm)
           Stops(i) == tm[i].end # NaN /\ (tm[i].start > date \/ tm[i].end >= date)
           stops == {j \in DOMAIN tm : Stops(j)}
           chosen == CHOOSE j \in DOMAIN tm : Stops(j) /\ \A k \in 1 .. j - 1 : ~Stops(k)
<1>1. n \in Nat /\ 1 \in DOMAIN tm /\ n \in DOMAIN tm /\ DOMAIN tm = 1 .. n
  BY DEF IsTimemap
<1>2. /\ \A i \in DOMAIN tm : tm[i].start \in Nat /\ tm[i].end \in Nat /\ tm[i].end # NaN
                              /\ tm[i].start <= tm[i].end
      /\ \A i, j \in DOMAIN tm : i <= j =>
           tm[i].start <= tm[j].start /\ tm[i].end <= tm[j].end
  BY DEF IsTimemap, Orderly, Sorted, Dates, NaN
<1>3. date # NaN
  BY DEF NaN
<1>4. CASE date <= tm[1].start
  <2>1. ClosestMemento(tm, date) = tm[1]
    BY <1>3, <1>4 DEF ClosestMemento
  <2>2. IsClosest(tm, tm[1], date)
    BY <1>1, <1>2, <1>4 DEF IsClosest, Covers
  <2> QED
    BY <1>1, <2>1, <2>2
<1>5. CASE ~(date <= tm[1].start) /\ AtMost(tm[n].end, date)
  <2>1. ClosestMemento(tm, date) = tm[n]
    BY <1>3, <1>5 DEF ClosestMemento
  <2>2. tm[n].end <= date
    BY <1>5 DEF AtMost
  <2>3. IsClosest(tm, tm[n], date)
    <3>1. \A i \in DOMAIN tm : tm[i].start <= tm[n].start /\ tm[i].end <= tm[n].end
      BY <1>1, <1>2
    <3>2. tm[n].start <= date
      BY <1>1, <1>2, <2>2
    <3>3. \A i \in DOMAIN tm : Covers(tm[i], date) => Covers(tm[n], date)
      BY <1>1, <1>2, <2>2, <3>1, <3>2 DEF Covers
    <3> QED
      BY <1>1, <3>1, <3>2, <3>3 DEF IsClosest
  <2> QED
    BY <1>1, <2>1, <2>3
<1>6. CASE ~(date <= tm[1].start) /\ ~AtMost(tm[n].end, date)
  <2>1. date < tm[n].end
    BY <1>1, <1>2, <1>3, <1>6 DEF AtMost
  <2>2. n \in stops
    BY <1>1, <1>2, <2>1
  <2>3. stops \in SUBSET Nat /\ stops # {}
    BY <1>1, <2>2
  <2>4. PICK i \in stops : \A j \in stops : i <= j
    <3> HIDE DEF stops
    <3> QED
      BY <2>3, SmallestElement
  <2>5. i \in DOMAIN tm /\ Stops(i) /\ \A k \in 1 .. i - 1 : ~Stops(k)
    <3>1. \A k \in 1 .. i - 1 : k \in DOMAIN tm /\ ~(i <= k)
      BY <1>1, <2>4
    <3> QED
      BY <2>4, <3>1
  <2>6. chosen \in DOMAIN tm /\ Stops(chosen) /\ \A k \in 1 .. chosen - 1 : ~Stops(k)
    <3> HIDE DEF Stops
    <3> QED
      BY <2>5
  <2>7. ClosestMemento(tm, date) =
          IF tm[chosen].start > date THEN tm[chosen - 1] ELSE tm[chosen]
    BY <1>3, <1>6, <2>5 DEF ClosestMemento
  <2> HIDE DEF chosen
  <2>8. \A k \in DOMAIN tm : k < chosen => tm[k].start <= date /\ tm[k].end < date
    BY <1>1, <1>2, <2>6
  <2>9. CASE tm[chosen].start > date
    <3>1. chosen # 1
      BY <1>1, <1>2, <1>6, <2>9
    <3>2. chosen - 1 \in DOMAIN tm /\ chosen - 1 < chosen
      BY <1>1, <2>6, <3>1
    <3>3. \A k \in DOMAIN tm : tm[k].start <= date => k <= chosen - 1
      BY <1>1, <1>2, <2>6, <2>9
    <3>4. \A k \in DOMAIN tm : tm[k].start <= date =>
            tm[k].start <= tm[chosen - 1].start /\ ~Covers(tm[k], date)
      <4> SUFFICES ASSUME NEW k \in DOMAIN tm, tm[k].start <= date
                   PROVE  tm[k].start <= tm[chosen - 1].start /\ ~Covers(tm[k], date)
        OBVIOUS
      <4>1. k <= chosen - 1 /\ k < chosen
        BY <1>1, <2>6, <3>3
      <4>2. tm[k].end < date
        BY <2>8, <4>1
      <4> QED
        BY <1>2, <3>2, <4>1, <4>2 DEF Covers
    <3>5. tm[chosen - 1].start <= date
      BY <2>8, <3>2
    <3>6. IsClosest(tm, tm[chosen - 1], date)
      BY <3>2, <3>4, <3>5 DEF IsClosest
    <3> QED
      BY <2>7, <2>9, <3>2, <3>6
  <2>10. CASE ~(tm[chosen].start > date)
    <3>1. tm[chosen].start <= date /\ date <= tm[chosen].end
      BY <1>2, <2>6, <2>10
    <3>2. IsClosest(tm, tm[chosen], date)
      BY <2>6, <3>1 DEF IsClosest, Covers
    <3> QED
      BY <2>6, <2>7, <2>10, <3>2
  <2> QED
    BY <2>9, <2>10
<1> QED
  BY <1>4, <1>5, <1>6

-----------------------------------------------------------------------------
(* The translations of a datasource.                                       *)

\* Terms are told apart by their fields.
LEMMA TermFields ==
  /\ Unbound.type = "any" /\ Default.type = "default" /\ EmptyGraph.type = "iri"
  /\ ~EmptyGraph.skolem
  /\ ~Default.skolem
  /\ \A v \in STRING : /\ Blank(v) \in Terms /\ Genid(v) \in Terms
                       /\ Blank(v).type = "blank" /\ Blank(v).value = v /\ ~Blank(v).skolem
                       /\ Genid(v).type = "iri" /\ Genid(v).value = v /\ Genid(v).skolem
<1>1. Unbound.type = "any" /\ Default.type = "default"
  BY DEF Unbound, Default
<1>2. EmptyGraph.type = "iri" /\ ~EmptyGraph.skolem
  BY DEF EmptyGraph, Iri
<1>3. ~Default.skolem
  BY DEF Default
<1>5. ASSUME NEW v \in STRING
      PROVE  /\ Blank(v) \in Terms
             /\ Blank(v).type = "blank" /\ Blank(v).value = v /\ ~Blank(v).skolem
  BY DEF Blank, Terms
<1>6. ASSUME NEW v \in STRING
      PROVE  /\ Genid(v) \in Terms
             /\ Genid(v).type = "iri" /\ Genid(v).value = v /\ Genid(v).skolem
  BY DEF Genid, Terms
<1> QED
  BY <1>1, <1>2, <1>3, <1>5, <1>6

LEMMA SameTerm ==
  ASSUME NEW t \in Terms, NEW u \in Terms,
         t.type = u.type, t.value = u.value, t.skolem = u.skolem
  PROVE  t = u
BY DEF Terms

\* Only terms that look like blank nodes are translated.
LEMMA SpecialTerms ==
  /\ ToBlank(Unbound) = Unbound /\ ToBlank(Default) = Default
  /\ Unbound # Default /\ Unbound \notin Terms /\ Default \notin Terms
  /\ \A store : ToIri(store, Default) = Default
BY TermFields DEF ToBlank, ToIri, Terms

\* The two translations of a term are inverse to each other.
LEMMA TranslationsOfTerms ==
  ASSUME NEW store, store.blacklist = {},
         NEW t \in QueryTerms, NEW q \in DataTerms, ~q.skolem
  PROVE  /\ ToBlank(t) = Unbound <=> t = Unbound
         /\ ToBlank(t) = q <=> t = ToIri(store, q)
<1>1. ASSUME q \in Terms
      PROVE  /\ q.value \in STRING /\ q.skolem = FALSE
             /\ ToIri(store, q) = (IF q.type = "blank" THEN Genid(q.value) ELSE q)
             /\ ToIri(store, q) \in Terms
  <2>1. q.value \in STRING /\ q.skolem = FALSE
    BY <1>1 DEF Terms
  <2> QED
    BY <1>1, <2>1, TermFields DEF ToIri
<1>2. ASSUME t \in Terms, t.type # "blank"
      PROVE  /\ t.value \in STRING
             /\ ToBlank(t) = (IF t.type = "iri" /\ t.skolem THEN Blank(t.value) ELSE t)
             /\ ToBlank(t) \in Terms
  <2>1. t.value \in STRING
    BY <1>2 DEF Terms
  <2> QED
    BY <1>2, <2>1, TermFields DEF ToBlank
<1>3. CASE t \in {Unbound, Default}
  BY <1>1, <1>3, SpecialTerms DEF DataTerms
<1>4. CASE t \in Terms /\ t.type # "blank" /\ q = Default
  BY <1>2, <1>4, SpecialTerms
<1>5. CASE t \in Terms /\ t.type # "blank" /\ q \in Terms
  <2>1. ToBlank(t) # Unbound /\ t # Unbound
    BY <1>2, <1>5, SpecialTerms
  <2>2. ASSUME ToBlank(t) = q PROVE t = ToIri(store, q)
    <3>1. CASE t.type = "iri" /\ t.skolem
      <4>1. q = Blank(t.value)
        BY <1>2, <1>5, <2>2, <3>1
      <4>2. ToIri(store, q) = Genid(t.value)
        BY <1>1, <1>2, <1>5, <4>1, TermFields
      <4>3. t.skolem = TRUE
        BY <1>5, <3>1 DEF Terms
      <4>4. Genid(t.value) \in Terms /\ Genid(t.value).type = t.type
            /\ Genid(t.value).value = t.value /\ Genid(t.value).skolem = t.skolem
        BY <1>2, <1>5, <3>1, <4>3 DEF Genid, Terms
      <4> QED
        BY <1>5, <4>2, <4>4, SameTerm
    <3>2. CASE ~(t.type = "iri" /\ t.skolem)
      BY <1>1, <1>2, <1>5, <2>2, <3>2
    <3> QED
      BY <3>1, <3>2
  <2>3. ASSUME t = ToIri(store, q) PROVE ToBlank(t) = q
    <3>1. CASE q.type = "blank"
      <4>1. t = Genid(q.value)
        BY <1>1, <1>5, <2>3, <3>1
      <4>2. ToBlank(t) = Blank(q.value)
        BY <1>1, <1>2, <1>5, <4>1, TermFields
      <4>3. Blank(q.value) \in Terms /\ Blank(q.value).type = q.type
            /\ Blank(q.value).value = q.value /\ Blank(q.value).skolem = q.skolem
        BY <1>1, <1>5, <3>1 DEF Blank, Terms
      <4> QED
        BY <1>5, <4>2, <4>3, SameTerm
    <3>2. CASE q.type # "blank"
      BY <1>1, <1>2, <1>5, <2>3, <3>2
    <3> QED
      BY <3>1, <3>2
  <2> QED
    BY <2>1, <2>2, <2>3
<1> QED
  BY <1>3, <1>4, <1>5 DEF DataTerms, QueryTerms

\* A query finds exactly the quads of which the published form matches it: what
\* select() translates in a query, it translates back in the results.
THEOREM TranslationIsFaithful ==
  ASSUME NEW store, NEW pattern, NEW quad,
         store.quads \in BOOLEAN, store.blacklist = {},
         store.graph = Unbound \/ (store.graph \in Terms /\ store.graph.type = "iri"
                               /\ ~store.graph.skolem),
         store.graph # Unbound => store.quads /\ quad.graph \notin {store.graph, EmptyGraph},
         \A p \in Positions :
           pattern[p] \in QueryTerms /\ quad[p] \in DataTerms /\ ~quad[p].skolem,
         pattern.graph # Unbound => store.quads
  PROVE  Matches(Translated(store, pattern), quad)
           <=> Visible(store, quad) /\ Matches(pattern, Published(store, quad))
<1> DEFINE asked == ToBlank(pattern.graph)
           shown == ToIri(store, quad.graph)
           g == QueryGraph(store, pattern.graph)
           h == IF quad.graph = Default /\ store.graph # Unbound THEN store.graph ELSE shown
<1>1. /\ ~quad["graph"].skolem /\ ~quad["subject"].skolem /\ ~quad["object"].skolem
      /\ pattern["graph"] \in QueryTerms /\ quad["graph"] \in DataTerms
      /\ pattern["subject"] \in QueryTerms /\ quad["subject"] \in DataTerms
      /\ pattern["object"] \in QueryTerms /\ quad["object"] \in DataTerms
  BY DEF Positions
<1>2. /\ asked = Unbound <=> pattern.graph = Unbound
      /\ asked = quad.graph <=> pattern.graph = shown
      /\ ToBlank(pattern.subject) = Unbound <=> pattern.subject = Unbound
      /\ ToBlank(pattern.subject) = quad.subject <=> pattern.subject = ToIri(store, quad.subject)
      /\ ToBlank(pattern.object) = Unbound <=> pattern.object = Unbound
      /\ ToBlank(pattern.object) = quad.object <=> pattern.object = ToIri(store, quad.object)
  BY <1>1, TranslationsOfTerms
<1>3. (g = Unbound \/ g = quad.graph) <=> Visible(store, quad) /\ (pattern.graph = Unbound \/ pattern.graph = h)
  <2>1. g = LET a == IF store.quads THEN asked ELSE Default
            IN  IF store.graph # Unbound /\ a = Default THEN EmptyGraph
                ELSE IF store.graph # Unbound /\ a = store.graph THEN Default ELSE a
    BY DEF QueryGraph
  <2> HIDE DEF g
  <2>2. Default # Unbound /\ EmptyGraph # Unbound /\ EmptyGraph # Default
    BY TermFields
  <2>3. CASE ~store.quads
    <3>1. pattern.graph = Unbound /\ store.graph = Unbound
      BY <2>3
    <3>2. g = Default
      BY <2>1, <2>3, <3>1
    <3> QED
      BY <2>2, <2>3, <3>1, <3>2 DEF Visible
  <2>4. CASE store.quads /\ store.graph = Unbound
    <3>1. g = asked /\ h = shown
      BY <2>1, <2>4
    <3> QED
      BY <1>2, <2>4, <3>1 DEF Visible
  <2>5. CASE store.quads /\ store.graph # Unbound
    <3>1. store.graph \in Terms /\ store.graph.type = "iri" /\ ~store.graph.skolem
      BY <2>5
    <3>2. g = IF asked = Default THEN EmptyGraph
              ELSE IF asked = store.graph THEN Default ELSE asked
      <4>1. CASE asked = Default
        BY <2>1, <2>5, <4>1
      <4>2. CASE asked # Default /\ asked = store.graph
        BY <2>1, <2>5, <4>2
      <4>3. CASE asked # Default /\ asked # store.graph
        BY <2>1, <2>5, <4>3
      <4> QED
        BY <4>1, <4>2, <4>3
    <3>3. quad.graph # store.graph /\ quad.graph # EmptyGraph /\ store.graph # Default
      BY <2>5, <3>1, TermFields
    <3>4. asked = Default <=> pattern.graph = Default
      <4>1. ~Default.skolem
        BY TermFields
      <4>2. Default \in DataTerms /\ ToIri(store, Default) = Default
        BY SpecialTerms DEF DataTerms
      <4> QED
        BY <1>1, <4>1, <4>2, TranslationsOfTerms
    <3>5. asked = store.graph <=> pattern.graph = store.graph
      <4>1. store.graph \in DataTerms /\ ToIri(store, store.graph) = store.graph
        BY <3>1 DEF DataTerms, ToIri
      <4> QED
        BY <1>1, <4>1, TranslationsOfTerms
    <3>6. quad.graph.type = "blank" => quad.graph.value \in STRING
      BY <1>1, TermFields DEF DataTerms, Terms
    <3>7. shown = IF quad.graph.type = "blank" THEN Genid(quad.graph.value) ELSE quad.graph
      BY DEF ToIri
    <3> HIDE DEF shown
    <3>8. shown # store.graph /\ (shown = Default => quad.graph = Default)
      <4>1. CASE quad.graph.type = "blank"
        <5>1. shown = Genid(quad.graph.value)
          BY <3>7, <4>1
        <5>2. shown.type = "iri" /\ shown.skolem
          BY <3>6, <4>1, <5>1, TermFields
        <5> QED
          BY <3>1, <5>2, TermFields
      <4>2. CASE quad.graph.type # "blank"
        BY <3>3, <3>7, <4>2
      <4> QED
        BY <4>1, <4>2
    <3> HIDE DEF asked
    <3>9. CASE quad.graph = Default
      BY <1>2, <2>2, <2>5, <3>2, <3>3, <3>4, <3>5, <3>9 DEF Visible
    <3>10. CASE quad.graph # Default
      BY <1>2, <2>2, <2>5, <3>2, <3>3, <3>4, <3>5, <3>8, <3>10 DEF Visible
    <3> QED
      BY <3>9, <3>10
  <2> QED
    BY <2>3, <2>4, <2>5
<1>4. /\ Translated(store, pattern)["subject"] = ToBlank(pattern.subject)
      /\ Translated(store, pattern)["object"] = ToBlank(pattern.object)
      /\ Translated(store, pattern)["graph"] = g
      /\ Published(store, quad)["subject"] = ToIri(store, quad.subject)
      /\ Published(store, quad)["object"] = ToIri(store, quad.object)
      /\ Published(store, quad)["graph"] = h
  BY DEF Translated, Published
<1> HIDE DEF g, h
<1>5. Matches(Translated(store, pattern), quad) <=>
        /\ ToBlank(pattern.subject) = Unbound \/ ToBlank(pattern.subject) = quad.subject
        /\ ToBlank(pattern.object) = Unbound \/ ToBlank(pattern.object) = quad.object
        /\ g = Unbound \/ g = quad.graph
  BY <1>4 DEF Matches, Positions
<1>6. Matches(pattern, Published(store, quad)) <=>
        /\ pattern.subject = Unbound \/ pattern.subject = ToIri(store, quad.subject)
        /\ pattern.object = Unbound \/ pattern.object = ToIri(store, quad.object)
        /\ pattern.graph = Unbound \/ pattern.graph = h
  BY <1>4 DEF Matches, Positions
<1> QED
  BY <1>2, <1>3, <1>5, <1>6

-----------------------------------------------------------------------------
(* The quads that are found are those of the answer.                       *)

\* The subsequences of the prefixes of a sequence, by the length of the prefix.
IsScan(seq, chosen, m, g) ==
  g = [n \in 0 .. m |-> IF n = 0 THEN << >>
                        ELSE IF chosen[n] THEN Append(g[n - 1], seq[n]) ELSE g[n - 1]]

LEMMA ScanAt ==
  ASSUME NEW seq, NEW chosen, NEW m \in Nat, NEW g, IsScan(seq, chosen, m, g)
  PROVE  /\ DOMAIN g = 0 .. m /\ g[0] = << >>
         /\ \A n \in 1 .. m : g[n] = IF chosen[n] THEN Append(g[n - 1], seq[n]) ELSE g[n - 1]
<1> DEFINE body(h, n) == IF n = 0 THEN << >>
                         ELSE IF chosen[n] THEN Append(h[n - 1], seq[n]) ELSE h[n - 1]
<1>1. g = [n \in 0 .. m |-> body(g, n)]
  BY Zenon DEF IsScan
<1>2. \A n \in 0 .. m : g[n] = body(g, n)
  <2> HIDE DEF body
  <2> QED
    BY <1>1
<1>3. DOMAIN g = 0 .. m
  <2> HIDE DEF body
  <2> QED
    BY <1>1
<1>4. 0 \in 0 .. m /\ \A n \in 1 .. m : n \in 0 .. m /\ n # 0
  OBVIOUS
<1> QED
  BY <1>2, <1>3, <1>4

LEMMA ScanExists ==
  ASSUME NEW seq, NEW chosen, NEW m \in Nat
  PROVE  \E g : IsScan(seq, chosen, m, g)
<1> DEFINE Bad == {k \in Nat : ~\E g : IsScan(seq, chosen, k, g)}
<1>1. SUFFICES Bad = {}
  OBVIOUS
<1>2. SUFFICES ASSUME Bad # {} PROVE FALSE
  OBVIOUS
<1>3. PICK k \in Bad : \A j \in Bad : k <= j
  <2>1. Bad \in SUBSET Nat
    OBVIOUS
  <2> HIDE DEF Bad
  <2> QED
    BY <1>2, <2>1, SmallestElement
<1>4. k \in Nat /\ ~\E g : IsScan(seq, chosen, k, g)
  OBVIOUS
<1>5. CASE k = 0
  <2> DEFINE g == [n \in 0 .. 0 |-> << >>]
             h == [n \in 0 .. 0 |-> IF n = 0 THEN << >>
                     ELSE IF chosen[n] THEN Append(g[n - 1], seq[n]) ELSE g[n - 1]]
  <2>1. g = h
    <3>1. \A n \in 0 .. 0 : n = 0
      OBVIOUS
    <3> QED
      BY <3>1
  <2>2. IsScan(seq, chosen, 0, g)
    BY <2>1, Zenon DEF IsScan
  <2> QED
    BY <1>4, <1>5, <2>2
<1>6. CASE k # 0
  <2>1. k - 1 \in Nat /\ k - 1 \notin Bad
    BY <1>3, <1>4, <1>6
  <2>2. PICK g : IsScan(seq, chosen, k - 1, g)
    BY <2>1
  <2>3. /\ DOMAIN g = 0 .. k - 1 /\ g[0] = << >>
        /\ \A n \in 1 .. k - 1 : g[n] = IF chosen[n] THEN Append(g[n - 1], seq[n]) ELSE g[n - 1]
    BY <2>1, <2>2, ScanAt
  <2> DEFINE last == IF chosen[k] THEN Append(g[k - 1], seq[k]) ELSE g[k - 1]
             h == [n \in 0 .. k |-> IF n = k THEN last ELSE g[n]]
             body(n) == IF n = 0 THEN << >>
                        ELSE IF chosen[n] THEN Append(h[n - 1], seq[n]) ELSE h[n - 1]
  <2>4. \A n \in 0 .. k - 1 : n \in 0 .. k /\ h[n] = g[n]
    BY <1>4
  <2>5. h[k] = last
    BY <1>4
  <2>6. ASSUME NEW n \in 0 .. k PROVE h[n] = body(n)
    <3>1. CASE n = 0
      BY <1>4, <1>6, <2>3, <3>1
    <3>2. CASE n = k
      <4>1. k - 1 \in 0 .. k - 1
        BY <1>4, <1>6
      <4>2. h[k - 1] = g[k - 1]
        BY <2>4, <4>1
      <4> HIDE DEF h
      <4> QED
        BY <1>6, <2>5, <3>2, <4>2
    <3>3. CASE n # 0 /\ n # k
      <4>1. n \in 1 .. k - 1 /\ n \in 0 .. k - 1 /\ n - 1 \in 0 .. k - 1
        BY <1>4, <3>3
      <4>2. h[n] = g[n] /\ h[n - 1] = g[n - 1]
        BY <2>4, <4>1
      <4> HIDE DEF h
      <4> QED
        BY <2>3, <3>3, <4>1, <4>2
    <3> QED
      BY <3>1, <3>2, <3>3
  <2>7. h = [n \in 0 .. k |-> body(n)]
    <3>1. h = [n \in 0 .. k |-> h[n]]
      OBVIOUS
    <3> HIDE DEF h
    <3>2. \A n \in 0 .. k : h[n] = body(n)
      BY <2>6
    <3> HIDE DEF body
    <3> QED
      BY <3>1, <3>2
  <2>8. IsScan(seq, chosen, k, h)
    <3> HIDE DEF h
    <3> QED
      BY <2>7, Zenon DEF IsScan
  <2> QED
    BY <1>4, <2>8
<1> QED
  BY <1>5, <1>6

LEMMA ScanType ==
  ASSUME NEW S, NEW seq \in Seq(S), NEW chosen, NEW g, IsScan(seq, chosen, Len(seq), g)
  PROVE  \A n \in 0 .. Len(seq) :
           g[n] \in Seq(S) /\ ((\A i \in 1 .. n : ~chosen[i]) => g[n] = << >>)
<1> DEFINE Good(n) == g[n] \in Seq(S) /\ ((\A i \in 1 .. n : ~chosen[i]) => g[n] = << >>)
           Bad == {k \in 0 .. Len(seq) : ~Good(k)}
<1>1. Len(seq) \in Nat /\ \A n \in 1 .. Len(seq) : seq[n] \in S
  BY LenProperties
<1>2. /\ g[0] = << >>
      /\ \A n \in 1 .. Len(seq) :
           g[n] = IF chosen[n] THEN Append(g[n - 1], seq[n]) ELSE g[n - 1]
  BY <1>1, ScanAt
<1>3. SUFFICES ASSUME Bad # {} PROVE FALSE
  OBVIOUS
<1>4. PICK k \in Bad : \A j \in Bad : k <= j
  <2>1. Bad \in SUBSET Nat
    BY <1>1
  <2> HIDE DEF Bad
  <2> QED
    BY <1>3, <2>1, SmallestElement
<1>5. k \in 0 .. Len(seq) /\ ~Good(k)
  OBVIOUS
<1>6. CASE k = 0
  <2>1. << >> \in Seq(S)
    BY EmptySeq
  <2> QED
    BY <1>2, <1>5, <1>6, <2>1
<1>7. CASE k # 0
  <2>1. k \in 1 .. Len(seq) /\ k - 1 \in 0 .. Len(seq) /\ ~(k <= k - 1)
        /\ k \in 1 .. k /\ \A i \in 1 .. k - 1 : i \in 1 .. k
    BY <1>1, <1>5, <1>7
  <2>2. Good(k - 1)
    BY <1>4, <2>1
  <2>3. g[k] = IF chosen[k] THEN Append(g[k - 1], seq[k]) ELSE g[k - 1]
    BY <1>2, <2>1
  <2>4. Append(g[k - 1], seq[k]) \in Seq(S)
    BY <1>1, <2>1, <2>2, AppendProperties
  <2> QED
    BY <1>5, <2>1, <2>2, <2>3, <2>4
<1> QED
  BY <1>6, <1>7

\* A subsequence has members of the sequence, and none if none is chosen.
LEMMA SubsequenceType ==
  ASSUME NEW S, NEW seq \in Seq(S), NEW chosen
  PROVE  /\ Subsequence(seq, chosen) \in Seq(S)
         /\ (\A i \in 1 .. Len(seq) : ~chosen[i]) => Subsequence(seq, chosen) = << >>
<1> DEFINE g == CHOOSE h : IsScan(seq, chosen, Len(seq), h)
<1>1. Len(seq) \in Nat
  BY LenProperties
<1>2. IsScan(seq, chosen, Len(seq), g)
  BY <1>1, ScanExists
<1>3. Subsequence(seq, chosen) = g[Len(seq)]
  BY Zenon DEF Subsequence, IsScan
<1> HIDE DEF g
<1>4. Len(seq) \in 0 .. Len(seq)
  BY <1>1
<1> QED
  BY <1>2, <1>3, <1>4, ScanType

\* What a datasource with unambiguous names finds and publishes for a query is
\* what it is meant to answer, quad by quad and in the same order (select).
THEOREM AnswerIsFound ==
  ASSUME NEW store, NEW pattern,
         store.quads \in BOOLEAN, Regular(store),
         store.graph = Unbound \/ (store.graph \in Terms /\ store.graph.type = "iri"),
         store.content \in Seq([Positions -> DataTerms]),
         \A p \in Positions : pattern[p] \in QueryTerms,
         pattern.graph # Unbound => store.quads
  PROVE  /\ Found(store, pattern) \in Seq([Positions -> DataTerms])
         /\ Answer(store, pattern) = [i \in DOMAIN Found(store, pattern) |->
                                       Published(store, Found(store, pattern)[i])]
<1> DEFINE finds == [i \in DOMAIN store.content |->
                      Matches(Translated(store, pattern), store.content[i])]
           asks == [i \in DOMAIN store.content |->
                     Visible(store, store.content[i])
                       /\ Matches(pattern, Published(store, store.content[i]))]
<1>1. Found(store, pattern) = Subsequence(store.content, finds)
  BY Zenon DEF Found
<1>2. ASSUME NEW i \in DOMAIN store.content
      PROVE  Matches(Translated(store, pattern), store.content[i])
               <=> Visible(store, store.content[i])
                     /\ Matches(pattern, Published(store, store.content[i]))
  <2>1. store.content[i] \in [Positions -> DataTerms]
    BY LenProperties
  <2>2. \A p \in Positions : store.content[i][p] \in DataTerms /\ ~store.content[i][p].skolem
    BY <2>1 DEF Regular
  <2>3. store.graph # Unbound =>
          store.quads /\ ~store.graph.skolem /\ store.content[i].graph \notin {store.graph, EmptyGraph}
    BY DEF Regular
  <2>4. store.blacklist = {}
    BY DEF Regular
  <2> QED
    BY <2>2, <2>3, <2>4, TranslationIsFaithful
<1>3. finds = asks
  <2> DEFINE M(i) == Matches(Translated(store, pattern), store.content[i])
             A(i) == Visible(store, store.content[i])
                       /\ Matches(pattern, Published(store, store.content[i]))
  <2>1. \A i \in DOMAIN store.content : M(i) \in BOOLEAN /\ A(i) \in BOOLEAN
    BY DEF Matches, Visible
  <2>2. \A i \in DOMAIN store.content : M(i) <=> A(i)
    BY <1>2
  <2>3. finds = [i \in DOMAIN store.content |-> M(i)] /\ asks = [i \in DOMAIN store.content |-> A(i)]
    OBVIOUS
  <2> HIDE DEF M, A, finds, asks
  <2>4. \A i \in DOMAIN store.content : M(i) = A(i)
    BY <2>1, <2>2
  <2> QED
    BY <2>3, <2>4
<1>4. Answer(store, pattern) =
        [i \in DOMAIN Subsequence(store.content, asks) |->
          Published(store, Subsequence(store.content, asks)[i])]
  BY Zenon DEF Answer
<1> HIDE DEF finds, asks
<1>5. Subsequence(store.content, finds) \in Seq([Positions -> DataTerms])
  BY SubsequenceType, Zenon
<1> QED
  BY <1>1, <1>3, <1>4, <1>5, Zenon
=============================================================================
