--------------------- MODULE CompositeDatasourceProofs ---------------------
(***************************************************************************)
(* Proofs about CompositeDatasource, for any number of sub-datasources,    *)
(* requests, patterns and matches.                                         *)
(***************************************************************************)
EXTENDS CompositeRefinement, OrderLemmas, FiniteSetTheorems, FunctionTheorems,
        TLAPS

-----------------------------------------------------------------------------
(* Sub-datasources in order.                                               *)

\* NextMatching returns the first sub-datasource that is not skipped.
LEMMA NextMatchingIsFirst ==
  ASSUME NEW i \in 0 .. N, NEW p
  PROVE  /\ NextMatching(i, p) \in i .. N
         /\ NextMatching(i, p) < N => HasDatasourceMatchingGraph(NextMatching(i, p), p)
         /\ \A d \in i .. NextMatching(i, p) - 1 : ~HasDatasourceMatchingGraph(d, p)
<1> DEFINE later == {d \in Sources : d >= i /\ HasDatasourceMatchingGraph(d, p)}
<1> USE SourcesAssumption DEF Sources
<1>1. CASE later = {}
  BY <1>1 DEF NextMatching
<1>2. CASE later # {}
  <2>0. later \in SUBSET Nat
    OBVIOUS
  <2>1. \E d \in later : \A e \in later : d <= e
    <3> HIDE DEF later
    <3> QED
      BY <1>2, <2>0, SmallestElement
  <2>2. PICK m \in later : m = NextMatching(i, p) /\ \A e \in later : m <= e
    BY <1>2, <2>1 DEF NextMatching
  <2> QED
    BY <2>2
<1> QED
  BY <1>1, <1>2

-----------------------------------------------------------------------------
(* Positions in the concatenation.                                         *)

LEMMA PrecedingFinite ==
  ASSUME NEW d, NEW p
  PROVE  IsFiniteSet(Preceding(d, p)) /\ Start(d, p) \in Nat
<1>1. IsFiniteSet(Sources) /\ IsFiniteSet(1 .. MaxSize)
  BY FS_Interval, SourcesAssumption DEF Sources
<1>2. IsFiniteSet(Sources \X (1 .. MaxSize))
  BY <1>1, FS_Product
<1>3. Preceding(d, p) \in SUBSET (Sources \X (1 .. MaxSize))
  BY DEF Preceding
<1> QED
  BY <1>2, <1>3, FS_Subset, FS_CardinalityType DEF Start

\* A sub-datasource with n matches contributes n quads.
LEMMA BlockSize ==
  ASSUME NEW d, NEW n \in Nat
  PROVE  IsFiniteSet({d} \X (1 .. n)) /\ Cardinality({d} \X (1 .. n)) = n
<1>1. IsFiniteSet({d}) /\ Cardinality({d}) = 1
  BY FS_Singleton
<1>2. IsFiniteSet(1 .. n) /\ Cardinality(1 .. n) = n
  BY FS_Interval
<1> DEFINE S == {d}
           T == 1 .. n
<1> HIDE DEF S, T
<1>3. IsFiniteSet(S) /\ Cardinality(S) = 1 /\ IsFiniteSet(T) /\ Cardinality(T) = n
  BY <1>1, <1>2, Zenon DEF S, T
<1>4. IsFiniteSet(S \X T) /\ Cardinality(S \X T) = Cardinality(S) * Cardinality(T)
  BY <1>3, FS_Product, Zenon
<1>5. Cardinality(S \X T) = n
  BY <1>3, <1>4
<1> QED
  BY <1>4, <1>5, Zenon DEF S, T

\* Nothing precedes the first sub-datasource that is not skipped.
LEMMA StartOfFirst ==
  ASSUME NEW p
  PROVE  Start(NextMatching(0, p), p) = 0
<1>1. Preceding(NextMatching(0, p), p) = {}
  BY NextMatchingIsFirst, SourcesAssumption DEF Preceding, Sources
<1> QED
  BY <1>1, FS_EmptySet DEF Start

\* The next sub-datasource that is not skipped starts where this one ends.
LEMMA StartOfNext ==
  ASSUME NEW p \in Patterns, NEW d \in Sources, HasDatasourceMatchingGraph(d, p),
         size \in Contents
  PROVE  Start(NextMatching(d + 1, p), p) = Start(d, p) + size[p][d]
<1> DEFINE next == NextMatching(d + 1, p)
           own == {d} \X (1 .. size[p][d])
<1>1. size[p][d] \in 0 .. MaxSize /\ d \in Nat /\ d + 1 \in 0 .. N
  BY SourcesAssumption DEF Sources
<1>2. /\ next \in d + 1 .. N
      /\ \A e \in d + 1 .. next - 1 : ~HasDatasourceMatchingGraph(e, p)
  BY <1>1, NextMatchingIsFirst
<1>3. Preceding(next, p) = Preceding(d, p) \cup own
  <2>1. ASSUME NEW m \in Sources \X (1 .. MaxSize)
        PROVE  m \in Preceding(next, p) <=> m \in Preceding(d, p) \cup own
    <3> HIDE DEF next
    <3>1. m[1] \in Nat /\ m[2] \in Nat /\ m = <<m[1], m[2]>> /\ m[1] < N
      BY SourcesAssumption DEF Sources
    <3>2. CASE m[1] < d
      BY <1>1, <1>2, <3>1, <3>2 DEF Preceding
    <3>3. CASE m[1] = d
      BY <1>1, <1>2, <3>1, <3>3 DEF Preceding
    <3>4. CASE m[1] > d
      BY <1>1, <1>2, <3>1, <3>4 DEF Preceding
    <3> QED
      BY <1>1, <3>1, <3>2, <3>3, <3>4
  <2>2. own \subseteq Sources \X (1 .. MaxSize)
    BY <1>1, SourcesAssumption
  <2>3. Preceding(d, p) \subseteq Sources \X (1 .. MaxSize)
        /\ Preceding(next, p) \subseteq Sources \X (1 .. MaxSize)
    BY DEF Preceding
  <2> QED
    <3> HIDE DEF own, next
    <3> QED
      BY <2>1, <2>2, <2>3
<1>4. IsFiniteSet(own) /\ Cardinality(own) = size[p][d]
  <2>1. size[p][d] \in Nat
    BY <1>1, SourcesAssumption
  <2> QED
    BY <2>1, BlockSize
<1>5. Preceding(d, p) \cap own = {}
  BY <1>1 DEF Preceding
<1> QED
  <2> HIDE DEF own, next
  <2>1. Cardinality(Preceding(d, p) \cap own) = 0
    BY <1>5, FS_EmptySet
  <2>2. IsFiniteSet(Preceding(d, p)) /\ Start(d, p) \in Nat
    BY PrecedingFinite
  <2>3. Cardinality(Preceding(next, p)) = Cardinality(Preceding(d, p)) + Cardinality(own)
                                          - Cardinality(Preceding(d, p) \cap own)
    BY <1>3, <1>4, <2>2, FS_Union
  <2> QED
    BY <1>1, <1>4, <2>1, <2>2, <2>3 DEF Start, next

-----------------------------------------------------------------------------
(* Type correctness.                                                       *)

\* What the types rest on: until a sub-datasource is chosen the remaining
\* offset never becomes negative, and the indices are those of a source.
IndexInv ==
  \A r \in Requests :
    /\ pc[r] # "idle" => query[r] \in Queries
    /\ search[r].chosenDatasource < 0 => search[r].offset >= 0
    /\ search[r].chosenDatasource >= 0 => search[r].chosenOffset >= 0
    /\ pc[r] \in {"metadata", "count"} => search[r].datasourceIndex \in Sources
    /\ pc[r] = "stream" => sub[r].index \in Sources

TypeInv == TypeOK /\ IndexInv

LEMMA TypeInit == Init => TypeInv
<1> SUFFICES ASSUME Init PROVE TypeInv
  OBVIOUS
<1>0. N \in Nat
  BY SourcesAssumption
<1>1. NextMatching(0, NoQuery.pattern) \in 0 .. N
  BY <1>0, NextMatchingIsFirst
<1>2. NoQuery.offset = 0
  BY DEF NoQuery
<1>3. StartSearch(NoQuery) \in SearchState
  BY <1>0, <1>1, <1>2 DEF StartSearch, SearchState
<1>4. NoSub \in SubQuery
  BY <1>0 DEF NoSub, SubQuery
<1>5. TypeOK
  <2>1. out \in [Requests -> Seq(Quads)]
    BY DEF Init
  <2>2. search \in [Requests -> SearchState] /\ sub \in [Requests -> SubQuery]
    BY <1>3, <1>4 DEF Init
  <2>3. /\ size \in Contents
        /\ available \in Availability
        /\ cache \in [Keys -> Nat]
        /\ pc \in [Requests -> {"idle", "find", "metadata", "count", "stream", "closed"}]
        /\ query \in [Requests -> Queries \cup {NoQuery}]
        /\ metadata \in [Requests -> Metadata \cup {NoMetadata}]
        /\ misled \subseteq Requests
        /\ crashed \in BOOLEAN
    BY DEF Init
  <2> QED
    BY <2>1, <2>2, <2>3 DEF TypeOK
<1>6. IndexInv
  BY <1>2 DEF Init, IndexInv, StartSearch
<1> QED
  BY <1>5, <1>6 DEF TypeInv

\* continueRecursion keeps the types, for any count that is a number.
LEMMA TypeContinue ==
  ASSUME TypeInv, NEW r \in Requests, NEW count \in Nat, NEW exact \in BOOLEAN,
         pc[r] \in {"metadata", "count"}, ContinueRecursion(r, count, exact),
         UNCHANGED <<size, available, query, sub, out, metadata, crashed>>,
         cache' \in [Keys -> Nat], misled' \subseteq Requests
  PROVE  TypeInv'
<1>0. N \in Nat
  BY SourcesAssumption
<1> DEFINE s == search[r]
           next == NextMatching(s.datasourceIndex + 1, query[r].pattern)
<1>1. s.datasourceIndex \in 0 .. N - 1
  BY DEF TypeInv, IndexInv, Sources
<1>2. next \in 0 .. N
  <2> DEFINE i == s.datasourceIndex + 1
  <2>1. i \in 0 .. N
    BY <1>0, <1>1
  <2>2. \A p : NextMatching(i, p) \in i .. N
    <3> HIDE DEF i
    <3> QED
      BY <2>1, NextMatchingIsFirst
  <2> QED
    BY <1>0, <2>1, <2>2
<1>3. /\ s.offset \in Int /\ s.chosenOffset \in Int
      /\ s.totalCount \in Nat /\ s.hasExactCount \in BOOLEAN
      /\ s.chosenDatasource \in -1 .. N - 1
  BY DEF TypeInv, TypeOK, SearchState
<1>4. /\ search'[r] \in SearchState
      /\ \A q \in Requests \ {r} : search'[q] = search[q]
      /\ search' \in [Requests -> SearchState]
      /\ search'[r].chosenDatasource < 0 => search'[r].offset >= 0
      /\ search'[r].chosenDatasource >= 0 => search'[r].chosenOffset >= 0
  <2> DEFINE choose == s.chosenDatasource < 0 /\ s.offset < count
             new == [datasourceIndex |-> next,
                     offset |-> s.offset - count,
                     chosenDatasource |-> IF choose THEN s.datasourceIndex ELSE s.chosenDatasource,
                     chosenOffset |-> IF choose THEN s.offset ELSE s.chosenOffset,
                     totalCount |-> s.totalCount + count,
                     hasExactCount |-> s.hasExactCount /\ exact]
  <2>1. search' = [search EXCEPT ![r] = new]
    BY DEF ContinueRecursion
  <2>2. /\ s.chosenDatasource < 0 => s.offset >= 0
        /\ s.chosenDatasource >= 0 => s.chosenOffset >= 0
    BY DEF TypeInv, IndexInv
  <2>3. new \in SearchState
    <3> HIDE DEF next, s
    <3> QED
      BY <1>0, <1>1, <1>2, <1>3 DEF SearchState
  <2>4. /\ new.chosenDatasource < 0 => new.offset >= 0
        /\ new.chosenDatasource >= 0 => new.chosenOffset >= 0
    <3> HIDE DEF next, s
    <3> QED
      BY <1>0, <1>1, <1>3, <2>2
  <2> QED
    <3> HIDE DEF new
    <3> QED
      BY <2>1, <2>3, <2>4 DEF TypeInv, TypeOK
<1>5. pc' = [pc EXCEPT ![r] = "find"]
  BY DEF ContinueRecursion, Goto
<1>6. IndexInv'
  <2> SUFFICES ASSUME NEW q \in Requests
               PROVE  /\ pc'[q] # "idle" => query[q] \in Queries
                      /\ search'[q].chosenDatasource < 0 => search'[q].offset >= 0
                      /\ search'[q].chosenDatasource >= 0 => search'[q].chosenOffset >= 0
                      /\ pc'[q] \in {"metadata", "count"} => search'[q].datasourceIndex \in Sources
                      /\ pc'[q] = "stream" => sub[q].index \in Sources
    BY DEF IndexInv, Queries
  <2>1. CASE q = r
    BY <1>4, <1>5, <2>1 DEF TypeInv, TypeOK, IndexInv
  <2>2. CASE q # r
    BY <1>4, <1>5, <2>2 DEF TypeInv, TypeOK, IndexInv
  <2> QED
    BY <2>1, <2>2
<1> QED
  BY <1>4, <1>5, <1>6 DEF TypeInv, TypeOK

\* Every count a sub-datasource or the cache replies with is a number.
LEMMA RepliesAreCounts ==
  ASSUME TypeInv, NEW r \in Requests, pc[r] \in {"metadata", "count"}
  PROVE  LET d == search[r].datasourceIndex
             p == query[r].pattern
         IN  /\ d \in Sources /\ p \in Patterns /\ CacheKey[p] \in Keys
             /\ size[p][d] \in Nat /\ cache[CacheKey[p]] \in Nat
             /\ \A reply \in Replies(d, p) : /\ reply.totalCount \in Nat
                                             /\ reply.hasExactCount \in BOOLEAN
<1> DEFINE d == search[r].datasourceIndex
           p == query[r].pattern
<1>1. d \in Sources /\ p \in Patterns
  BY DEF TypeInv, IndexInv, Queries
<1>2. CacheKey[p] \in Keys /\ cache[CacheKey[p]] \in Nat
  BY <1>1 DEF Keys, TypeInv, TypeOK
<1>3. size[p][d] \in Nat
  BY <1>1, SourcesAssumption DEF TypeInv, TypeOK
<1>4. \A reply \in Replies(d, p) : reply.totalCount \in Nat /\ reply.hasExactCount \in BOOLEAN
  <2> HIDE DEF d, p
  <2>1. TAKE reply \in Replies(d, p)
  <2>2. CASE reply = [totalCount |-> size[p][d], hasExactCount |-> TRUE]
    BY <1>3, <2>2
  <2>3. CASE \E e \in Estimates : reply = [totalCount |-> e, hasExactCount |-> FALSE]
    BY <2>3, QueryAssumption
  <2> QED
    BY <2>2, <2>3 DEF Replies
<1> QED
  BY <1>1, <1>2, <1>3, <1>4

LEMMA TypeNext == TypeInv /\ [Next]_vars => TypeInv'
<1> SUFFICES ASSUME TypeInv, [Next]_vars PROVE TypeInv'
  OBVIOUS
<1>0. N \in Nat
  BY SourcesAssumption
<1>1. ASSUME NEW r \in Requests, NEW q \in Queries, ExecuteQuery(r, q)
      PROVE  TypeInv'
  <2>1. NextMatching(0, q.pattern) \in 0 .. N
    BY <1>0, NextMatchingIsFirst
  <2>2. q.offset \in Nat
    BY SourcesAssumption DEF Queries
  <2>3. /\ StartSearch(q) \in SearchState
        /\ StartSearch(q).chosenDatasource = -1
        /\ StartSearch(q).offset >= 0
    BY <1>0, <2>1, <2>2 DEF StartSearch, SearchState
  <2>4. TypeOK'
    BY <1>1, <2>3 DEF contents, ExecuteQuery, Goto, TypeInv, TypeOK
  <2>5. IndexInv'
    BY <1>1, <2>3 DEF contents, ExecuteQuery, Goto, TypeInv, TypeOK, IndexInv
  <2> QED
    BY <2>4, <2>5 DEF TypeInv
<1>2. ASSUME NEW r \in Requests, SelectMetadata(r)
      PROVE  TypeInv'
  <2>1. search[r].datasourceIndex \in Sources
    BY <1>0, <1>2 DEF contents, SelectMetadata, TypeInv, TypeOK, SearchState, Sources
  <2> QED
    BY <1>2, <2>1 DEF contents, SelectMetadata, Running, Goto, TypeInv, TypeOK, IndexInv
<1>3. ASSUME NEW r \in Requests, ReceiveMetadata(r)
      PROVE  TypeInv'
  <2>1. PICK reply \in Replies(search[r].datasourceIndex, query[r].pattern) :
          ContinueRecursion(r, reply.totalCount, reply.hasExactCount)
    BY <1>3 DEF contents, ReceiveMetadata
  <2>2. pc[r] = "metadata"
    BY <1>3 DEF contents, ReceiveMetadata, Running
  <2>3. reply.totalCount \in Nat /\ reply.hasExactCount \in BOOLEAN
    BY <2>2, RepliesAreCounts
  <2>4. cache' \in [Keys -> Nat] /\ misled' \subseteq Requests
    BY <1>3 DEF contents, ReceiveMetadata, TypeInv, TypeOK
  <2> QED
    BY <1>3, <2>1, <2>2, <2>3, <2>4, TypeContinue DEF contents, ReceiveMetadata
<1>4. ASSUME NEW r \in Requests, UseCachedCount(r)
      PROVE  TypeInv'
  <2>1. pc[r] = "metadata"
    BY <1>4 DEF contents, UseCachedCount, Running
  <2>2. cache[CacheKey[query[r].pattern]] \in Nat
    BY <2>1, RepliesAreCounts
  <2>3. cache' \in [Keys -> Nat] /\ misled' \subseteq Requests
    BY <1>4 DEF contents, UseCachedCount, TypeInv, TypeOK
  <2> QED
    BY <1>4, <2>1, <2>2, <2>3, TypeContinue DEF contents, UseCachedCount
<1>5. ASSUME NEW r \in Requests, StartCount(r)
      PROVE  TypeInv'
  BY <1>5 DEF contents, StartCount, Running, Goto, TypeInv, TypeOK, IndexInv
<1>6. ASSUME NEW r \in Requests, FinishCount(r)
      PROVE  TypeInv'
  <2>1. pc[r] = "count"
    BY <1>6 DEF contents, FinishCount, Running
  <2>2. size[query[r].pattern][search[r].datasourceIndex] \in Nat
    BY <2>1, RepliesAreCounts
  <2>3. cache' \in [Keys -> Nat] /\ misled' \subseteq Requests
    BY <1>6, <2>2 DEF contents, FinishCount, TypeInv, TypeOK
  <2> QED
    BY <1>6, <2>1, <2>2, <2>3, TypeContinue DEF contents, FinishCount
<1>7. ASSUME NEW r \in Requests, StartResults(r)
      PROVE  TypeInv'
  <2>1. /\ search[r] \in SearchState /\ query[r].limit \in Nat /\ pc[r] = "find"
        /\ search[r].chosenDatasource >= 0 => search[r].chosenOffset >= 0
    BY <1>7, QueryAssumption DEF contents, StartResults, Running, TypeInv, TypeOK, IndexInv, Queries
  <2>2. [totalCount |-> search[r].totalCount,
         hasExactCount |-> search[r].hasExactCount] \in Metadata
    BY <2>1 DEF SearchState, Metadata
  <2>3. CASE search[r].chosenDatasource < 0
    BY <1>7, <2>1, <2>2, <2>3 DEF contents, StartResults, Goto, TypeInv, TypeOK, IndexInv
  <2>4. CASE search[r].chosenDatasource >= 0
    <3> DEFINE new == [index |-> search[r].chosenDatasource, offset |-> search[r].chosenOffset,
                       limit |-> query[r].limit, sent |-> 0]
    <3>1. new \in SubQuery /\ new.index \in Sources
      BY <1>0, <2>1, <2>4 DEF SearchState, SubQuery, Sources
    <3>2. ~(search[r].chosenDatasource < 0)
      BY <1>0, <2>1, <2>4 DEF SearchState
    <3>3. sub' = [sub EXCEPT ![r] = new] /\ pc' = [pc EXCEPT ![r] = "stream"]
      BY <1>7, <3>2 DEF contents, StartResults, Goto
    <3> HIDE DEF new
    <3>4. TypeOK'
      BY <1>7, <2>2, <3>1, <3>3 DEF contents, StartResults, TypeInv, TypeOK
    <3>5. IndexInv'
      BY <1>7, <2>1, <3>1, <3>3 DEF contents, StartResults, TypeInv, TypeOK, IndexInv
    <3> QED
      BY <3>4, <3>5 DEF TypeInv
  <2> QED
    BY <1>0, <2>1, <2>3, <2>4 DEF SearchState
<1>8. ASSUME NEW r \in Requests, PushToDestination(r)
      PROVE  TypeInv'
  <2>1. sub[r] \in SubQuery /\ sub[r].index \in Sources /\ pc[r] = "stream"
    BY <1>8 DEF contents, PushToDestination, Running, TypeInv, TypeOK, IndexInv
  <2>2. <<sub[r].index, sub[r].offset + sub[r].sent + 1>> \in Quads
    BY <2>1 DEF SubQuery, Quads
  <2>3. out' \in [Requests -> Seq(Quads)]
    BY <1>8, <2>2 DEF contents, PushToDestination, TypeInv, TypeOK
  <2>4. /\ sub' \in [Requests -> SubQuery]
        /\ \A q \in Requests : sub'[q].index = sub[q].index
    <3> DEFINE new == [sub[r] EXCEPT !.sent = @ + 1]
    <3>1. new \in SubQuery /\ new.index = sub[r].index
      BY <2>1 DEF SubQuery
    <3>2. sub' = [sub EXCEPT ![r] = new]
      BY <1>8 DEF contents, PushToDestination
    <3> HIDE DEF new
    <3> QED
      BY <3>1, <3>2 DEF TypeInv, TypeOK
  <2> QED
    BY <1>8, <2>3, <2>4 DEF contents, PushToDestination, TypeInv, TypeOK, IndexInv
<1>9. ASSUME NEW r \in Requests, CloseDestination(r)
      PROVE  TypeInv'
  <2> DEFINE next == NextMatching(sub[r].index + 1, query[r].pattern)
  <2>1. /\ sub[r].index \in 0 .. N - 1 /\ pc[r] = "stream"
        /\ query[r] \in Queries /\ query[r].limit \in Nat
    BY <1>9, QueryAssumption DEF contents, CloseDestination, Running, TypeInv, TypeOK, IndexInv, Sources, Queries
  <2>2. next \in 0 .. N
    BY <1>0, <2>1, NextMatchingIsFirst
  <2>3. CASE Len(out[r]) < query[r].limit /\ next < N
    <3> DEFINE new == [index |-> next, offset |-> 0,
                       limit |-> query[r].limit - Len(out[r]), sent |-> 0]
    <3>1. Len(out[r]) \in Nat
      BY DEF TypeInv, TypeOK
    <3>2. new \in SubQuery /\ new.index \in Sources
      <4> HIDE DEF next
      <4> QED
        BY <1>0, <2>1, <2>2, <2>3, <3>1 DEF SubQuery, Sources
    <3>3. sub' = [sub EXCEPT ![r] = new] /\ pc' = pc
      BY <1>9, <2>3 DEF contents, CloseDestination
    <3> HIDE DEF new, next
    <3> QED
      BY <1>9, <3>2, <3>3 DEF contents, CloseDestination, TypeInv, TypeOK, IndexInv
  <2>4. CASE ~(Len(out[r]) < query[r].limit /\ next < N)
    BY <1>9, <2>1, <2>4 DEF contents, CloseDestination, Goto, TypeInv, TypeOK, IndexInv
  <2> QED
    BY <2>3, <2>4
<1>10. ASSUME NEW r \in Requests, SubDatasourceError(r)
       PROVE  TypeInv'
  BY <1>10 DEF contents, SubDatasourceError, requestVars, TypeInv, TypeOK, IndexInv
<1>11. ASSUME NEW k \in Keys, Evict(k)
       PROVE  TypeInv'
  BY <1>11 DEF contents, Evict, requestVars, TypeInv, TypeOK, IndexInv
<1>12. CASE UNCHANGED vars
  BY <1>12 DEF contents, vars, requestVars, TypeInv, TypeOK, IndexInv
<1> QED
  BY <1>1, <1>2, <1>3, <1>4, <1>5, <1>6, <1>7, <1>8, <1>9, <1>10, <1>11, <1>12
     DEF Next, Progress

\* Every variable keeps its type: in particular the offset of a sub-query
\* is never negative, although the remaining offset of findRecursive is.
THEOREM TypeCorrect == Spec => []TypeOK
<1>1. Spec => []TypeInv
  BY TypeInit, TypeNext, PTL DEF Spec
<1>2. TypeInv => TypeOK
  BY DEF TypeInv
<1> QED
  BY <1>1, <1>2, PTL

-----------------------------------------------------------------------------
(* The pages.                                                              *)

Searching(r) == pc[r] \in {"find", "metadata", "count"}

\* The walk skips what does not match, passes over quads only as far as the
\* query says, and counts only sub-datasources that estimate.
SearchInv(r) == Searching(r) =>
  LET s == search[r]
      p == query[r].pattern
  IN  /\ s.datasourceIndex < N => HasDatasourceMatchingGraph(s.datasourceIndex, p)
      /\ s.offset <= query[r].offset
      /\ s.chosenDatasource >= 0 => HasDatasourceMatchingGraph(s.chosenDatasource, p)
      /\ pc[r] = "count" => s.datasourceIndex \in Estimating

\* The walk of a request that is not misled: offsets are relative to the
\* sub-datasource it has reached, or to the one it has chosen.
CountInv(r) == r \notin misled /\ Searching(r) =>
  LET s == search[r]
      p == query[r].pattern
  IN  /\ s.chosenDatasource < 0 =>
           Start(s.datasourceIndex, p) + s.offset = query[r].offset
      /\ s.chosenDatasource >= 0 =>
           /\ s.chosenOffset <= size[p][s.chosenDatasource]
           /\ Start(s.chosenDatasource, p) + s.chosenOffset = query[r].offset
      /\ s.hasExactCount => s.totalCount = Start(s.datasourceIndex, p)

\* The sub-query may deliver just what the page still lacks, and once the page
\* has a quad, the next one is its successor.
StreamInv(r) == pc[r] = "stream" =>
  LET b == sub[r]
      p == query[r].pattern
  IN  /\ HasDatasourceMatchingGraph(b.index, p)
      /\ b.limit - b.sent = query[r].limit - Len(out[r])
      /\ b.sent <= b.limit
      /\ out[r] # << >> => b.offset + b.sent <= size[p][b.index]

\* Nothing is written before the walk ends.
QuietInv(r) ==
  (pc[r] = "idle" \/ Searching(r)) => out[r] = << >> /\ metadata[r] = NoMetadata

\* Nothing is queried before the walk ends.
UnchosenInv(r) ==
  /\ pc[r] = "idle" \/ Searching(r) => sub[r].index = -1
  /\ pc[r] = "stream" => sub[r].index >= 0

\* The page of r has all the quads that it can have from its start on.
IsComplete(r) ==
  Len(out[r]) = query[r].limit \/ Position(r) >= Total(query[r].pattern)

\* The page is what the concatenation has before the position it has reached.
PlaceInv(r) ==
  /\ IsSliceFrom(r, Position(r) - Len(out[r]))
  /\ pc[r] = "closed" => Len(out[r]) <= query[r].limit /\ IsComplete(r)

\* ... and that is where the query says, unless the request was misled.
OffsetInv(r) == r \notin misled =>
  /\ Position(r) = query[r].offset + Len(out[r])
  /\ HasTrueTotal(r)

RequestInv(r) == /\ SearchInv(r) /\ CountInv(r) /\ StreamInv(r) /\ QuietInv(r)
                 /\ UnchosenInv(r) /\ PlaceInv(r) /\ OffsetInv(r)

PageInv == TypeInv /\ \A r \in Requests : RequestInv(r)

\* The contents never change, so no position does.
LEMMA PositionsUnchanged ==
  ASSUME UNCHANGED size
  PROVE  \A d, p : Start(d, p)' = Start(d, p)
BY DEF Start, Preceding, HasDatasourceMatchingGraph

\* The page depends on the request's own variables only.
LEMMA SamePage ==
  ASSUME NEW q \in Requests, UNCHANGED size, query'[q] = query[q], out'[q] = out[q]
  PROVE  /\ \A from : IsSliceFrom(q, from)' <=> IsSliceFrom(q, from)
         /\ Total(query[q].pattern)' = Total(query[q].pattern)
<1>1. \A d, p : Start(d, p)' = Start(d, p)
  BY PositionsUnchanged
<1> QED
  BY <1>1 DEF IsSliceFrom, Place, Total, HasDatasourceMatchingGraph

LEMMA SamePosition ==
  ASSUME NEW q \in Requests, UNCHANGED size, query'[q] = query[q], sub'[q] = sub[q],
         pc'[q] = pc[q] \/ sub[q].index >= 0 \/ (pc'[q] # "closed" /\ pc[q] # "closed")
  PROVE  Position(q)' = Position(q)
<1>1. \A d, p : Start(d, p)' = Start(d, p)
  BY PositionsUnchanged
<1> QED
  BY <1>1 DEF Position, Total

\* A step that leaves a request alone keeps its invariant.
LEMMA OtherRequest ==
  ASSUME NEW q \in Requests, RequestInv(q), UNCHANGED size,
         pc'[q] = pc[q], query'[q] = query[q], search'[q] = search[q],
         sub'[q] = sub[q], out'[q] = out[q], metadata'[q] = metadata[q],
         q \in misled' <=> q \in misled
  PROVE  RequestInv(q)'
<1>1. \A d, p : Start(d, p)' = Start(d, p)
  BY PositionsUnchanged
<1>2. SearchInv(q)' /\ CountInv(q)'
  BY <1>1 DEF RequestInv, SearchInv, CountInv, Searching, HasDatasourceMatchingGraph
<1>3. StreamInv(q)' /\ UnchosenInv(q)' /\ QuietInv(q)'
  BY <1>1 DEF RequestInv, StreamInv, UnchosenInv, QuietInv, Searching, HasDatasourceMatchingGraph
<1>4. Position(q)' = Position(q)
  BY SamePosition
<1>5. PlaceInv(q)'
  BY <1>4, SamePage DEF RequestInv, PlaceInv, IsComplete
<1>6. OffsetInv(q)'
  BY <1>4, SamePage DEF RequestInv, OffsetInv, HasTrueTotal
<1> QED
  BY <1>2, <1>3, <1>5, <1>6 DEF RequestInv

LEMMA PageInit == Init => PageInv
<1> SUFFICES ASSUME Init PROVE PageInv
  OBVIOUS
<1>1. TypeInv
  BY TypeInit
<1>2. ASSUME NEW r \in Requests
      PROVE  RequestInv(r)
  <2>1. /\ pc[r] = "idle" /\ out[r] = << >> /\ metadata[r] = NoMetadata
        /\ sub[r].index = -1 /\ query[r].offset = 0
    BY DEF Init, NoSub, NoQuery
  <2>2. NoMetadata.hasExactCount = FALSE
    BY DEF NoMetadata
  <2>3. Position(r) = 0
    BY <2>1 DEF Position
  <2>4. PlaceInv(r) /\ OffsetInv(r)
    BY <2>1, <2>2, <2>3 DEF PlaceInv, OffsetInv, IsSliceFrom, HasTrueTotal
  <2> QED
    BY <2>1, <2>4 DEF RequestInv, SearchInv, CountInv, Searching, StreamInv, QuietInv, UnchosenInv
<1> QED
  BY <1>1, <1>2 DEF PageInv

\* The steps of the walk write nothing.
LEMMA WalkKeeps ==
  ASSUME NEW r \in Requests, RequestInv(r), Searching(r), Searching(r)',
         UNCHANGED <<size, query, sub, out, metadata>>, misled \subseteq misled'
  PROVE  StreamInv(r)' /\ QuietInv(r)' /\ UnchosenInv(r)' /\ PlaceInv(r)' /\ OffsetInv(r)'
<1>1. StreamInv(r)' /\ QuietInv(r)' /\ UnchosenInv(r)'
  BY DEF RequestInv, StreamInv, QuietInv, UnchosenInv, Searching
<1>2. Position(r)' = Position(r)
  BY SamePosition DEF Searching
<1>3. PlaceInv(r)'
  BY <1>2, SamePage DEF RequestInv, PlaceInv, Searching
<1>4. OffsetInv(r)'
  BY <1>2, SamePage DEF RequestInv, OffsetInv, HasTrueTotal
<1> QED
  BY <1>1, <1>3, <1>4

\* continueRecursion keeps the request's invariant: for one that is not misled
\* the count is right, or no offset remains and the count is positive if there
\* are matches.
LEMMA PageContinue ==
  ASSUME TypeInv, NEW r \in Requests, RequestInv(r), NEW count \in Nat, NEW exact \in BOOLEAN,
         pc[r] \in {"metadata", "count"}, ContinueRecursion(r, count, exact),
         UNCHANGED <<size, available, query, sub, out, metadata>>, misled \subseteq misled',
         LET n == size[query[r].pattern][search[r].datasourceIndex]
         IN  \/ r \in misled'
             \/ count = n
             \/ ~exact /\ search[r].offset <= 0 /\ (n > 0 => count > 0)
  PROVE  RequestInv(r)'
<1> DEFINE s == search[r]
           p == query[r].pattern
           d == s.datasourceIndex
           n == size[p][d]
           next == NextMatching(d + 1, p)
<1>0. N \in Nat
  BY SourcesAssumption
<1>1. d \in Sources /\ p \in Patterns /\ n \in Nat
  BY RepliesAreCounts
<1>2. HasDatasourceMatchingGraph(d, p)
  BY <1>0, <1>1 DEF RequestInv, SearchInv, Searching, Sources
<1>3. Start(next, p) = Start(d, p) + n
  BY <1>1, <1>2, StartOfNext DEF TypeInv, TypeOK
<1>4. next < N => HasDatasourceMatchingGraph(next, p)
  <2> DEFINE i == d + 1
  <2>1. i \in 0 .. N
    BY <1>0, <1>1 DEF Sources
  <2>2. \A x : NextMatching(i, x) < N => HasDatasourceMatchingGraph(NextMatching(i, x), x)
    <3> HIDE DEF i
    <3> QED
      BY <2>1, NextMatchingIsFirst
  <2> QED
    BY <2>2
<1>5. \A e, o : Start(e, o)' = Start(e, o)
  BY PositionsUnchanged
<1>6. pc'[r] = "find" /\ Searching(r) /\ Searching(r)'
  BY DEF ContinueRecursion, Goto, Searching, TypeInv, TypeOK
<1> DEFINE choose == s.chosenDatasource < 0 /\ s.offset < count
<1>7. /\ search'[r].datasourceIndex = next
      /\ search'[r].offset = s.offset - count
      /\ search'[r].chosenDatasource = IF choose THEN d ELSE s.chosenDatasource
      /\ search'[r].chosenOffset = IF choose THEN s.offset ELSE s.chosenOffset
      /\ search'[r].totalCount = s.totalCount + count
      /\ search'[r].hasExactCount = (s.hasExactCount /\ exact)
  BY DEF ContinueRecursion, TypeInv, TypeOK
<1>8. /\ s.offset \in Int /\ s.chosenDatasource \in Int /\ s.totalCount \in Nat
      /\ s.hasExactCount \in BOOLEAN
      /\ s.chosenDatasource < 0 => s.offset >= 0
  BY <1>0 DEF TypeInv, TypeOK, IndexInv, SearchState
<1>9. SearchInv(r)'
  <2>1. /\ s.offset <= query[r].offset
        /\ s.chosenDatasource >= 0 => HasDatasourceMatchingGraph(s.chosenDatasource, p)
    BY <1>6 DEF RequestInv, SearchInv
  <2>2. query[r].offset \in Int
    BY SourcesAssumption DEF TypeInv, TypeOK, Queries, NoQuery
  <2> HIDE DEF s, p, d, n, next
  <2>3. search'[r].offset <= query[r].offset
    BY <1>7, <1>8, <2>1, <2>2
  <2>4. search'[r].chosenDatasource >= 0 => HasDatasourceMatchingGraph(search'[r].chosenDatasource, p)
    BY <1>2, <1>7, <2>1
  <2> QED
    BY <1>4, <1>6, <1>7, <2>3, <2>4 DEF SearchInv, HasDatasourceMatchingGraph, p
<1>10. CountInv(r)'
  <2> SUFFICES ASSUME r \notin misled'
               PROVE  CountInv(r)'
    BY DEF CountInv
  <2>1. Start(d, p) \in Nat
    BY PrecedingFinite
  <2>2. /\ s.chosenDatasource < 0 => Start(d, p) + s.offset = query[r].offset
        /\ s.chosenDatasource >= 0 =>
             /\ s.chosenOffset <= size[p][s.chosenDatasource]
             /\ Start(s.chosenDatasource, p) + s.chosenOffset = query[r].offset
        /\ s.hasExactCount => s.totalCount = Start(d, p)
    BY <1>6 DEF RequestInv, CountInv
  <2>3. \/ count = n
        \/ ~exact /\ s.offset <= 0 /\ (n > 0 => count > 0)
    OBVIOUS
  <2>4. d \in Nat
    BY <1>0, <1>1 DEF Sources
  <2> HIDE DEF s, p, d, n, next
  <2>5. search'[r].hasExactCount => search'[r].totalCount = Start(next, p)
    BY <1>1, <1>3, <1>7, <1>8, <2>1, <2>2, <2>3
  <2>6. search'[r].chosenDatasource < 0 =>
          Start(next, p) + search'[r].offset = query[r].offset
    BY <1>1, <1>3, <1>7, <1>8, <2>1, <2>2, <2>3, <2>4
  <2>7. search'[r].chosenDatasource >= 0 =>
             /\ search'[r].chosenOffset <= size[p][search'[r].chosenDatasource]
             /\ Start(search'[r].chosenDatasource, p) + search'[r].chosenOffset
                  = query[r].offset
    <3>1. CASE choose
      BY <1>1, <1>7, <1>8, <2>2, <2>3, <3>1 DEF n
    <3>2. CASE ~choose
      BY <1>7, <2>2, <3>2
    <3> QED
      BY <3>1, <3>2
  <2> QED
    BY <1>5, <1>7, <2>5, <2>6, <2>7 DEF CountInv, p
<1> QED
  BY <1>6, <1>9, <1>10, WalkKeeps DEF RequestInv

\* The query and the records of an accepted request.
LEMMA AcceptedTypes ==
  ASSUME TypeInv, NEW r \in Requests, pc[r] # "idle"
  PROVE  /\ query[r].pattern \in Patterns /\ query[r].offset \in Nat
         /\ query[r].limit \in Nat /\ query[r].limit > 0
         /\ search[r].datasourceIndex \in 0 .. N
         /\ search[r].chosenDatasource \in -1 .. N - 1
         /\ search[r].offset \in Int /\ search[r].chosenOffset \in Int
         /\ search[r].totalCount \in Nat /\ search[r].hasExactCount \in BOOLEAN
         /\ search[r].chosenDatasource < 0 => search[r].offset >= 0
         /\ search[r].chosenDatasource >= 0 => search[r].chosenOffset >= 0
         /\ sub[r].offset \in Nat /\ sub[r].limit \in Nat /\ sub[r].sent \in Nat
         /\ pc[r] = "stream" => sub[r].index \in Sources
         /\ out[r] \in Seq(Quads) /\ Len(out[r]) \in Nat
         /\ \A p \in Patterns, d \in Sources : size[p][d] \in Nat
<1>1. query[r] \in Queries
  BY DEF TypeInv, IndexInv
<1>2. /\ query[r].pattern \in Patterns /\ query[r].offset \in Nat
      /\ query[r].limit \in Nat /\ query[r].limit > 0
  <2>1. query[r].pattern \in Patterns /\ query[r].offset \in 0 .. MaxOffset
        /\ query[r].limit \in Limits
    BY <1>1 DEF Queries
  <2>2. query[r].limit \in Nat /\ query[r].limit > 0
    <3>1. query[r].limit \in Nat \ {0}
      BY <2>1, QueryAssumption
    <3> QED
      BY <3>1
  <2>3. query[r].offset \in Nat
    BY <2>1, SourcesAssumption
  <2> QED
    BY <2>1, <2>2, <2>3
<1>3. search[r] \in SearchState
  BY DEF TypeInv, TypeOK
<1>4. sub[r] \in SubQuery
  BY DEF TypeInv, TypeOK
<1>5. out[r] \in Seq(Quads) /\ Len(out[r]) \in Nat
  BY DEF TypeInv, TypeOK
<1>6. \A p \in Patterns, d \in Sources : size[p][d] \in Nat
  BY SourcesAssumption DEF TypeInv, TypeOK
<1>7. /\ search[r].chosenDatasource < 0 => search[r].offset >= 0
      /\ search[r].chosenDatasource >= 0 => search[r].chosenOffset >= 0
      /\ pc[r] = "stream" => sub[r].index \in Sources
  BY DEF TypeInv, IndexInv
<1> QED
  BY <1>2, <1>3, <1>4, <1>5, <1>6, <1>7 DEF SearchState, SubQuery

\* A reply that calls for an exact count comes from an estimating source.
LEMMA InexactReply ==
  ASSUME NEW d, NEW p, NEW reply \in Replies(d, p), ~reply.hasExactCount
  PROVE  d \in Estimating /\ (size[p][d] > 0 => reply.totalCount > 0)
BY DEF Replies

\* A reply that is called exact is.
LEMMA ExactReply ==
  ASSUME NEW d, NEW p, NEW reply \in Replies(d, p), reply.hasExactCount
  PROVE  reply.totalCount = size[p][d]
BY DEF Replies

\* A step of a request leaves the others alone.
LEMMA LeavesAlone ==
  ASSUME TypeInv, NEW o \in Requests, NEW r \in Requests \ {o},
         (\E q \in Queries : ExecuteQuery(o, q)) \/ Progress(o)
  PROVE  /\ UNCHANGED size
         /\ pc'[r] = pc[r] /\ query'[r] = query[r] /\ search'[r] = search[r]
         /\ sub'[r] = sub[r] /\ out'[r] = out[r] /\ metadata'[r] = metadata[r]
         /\ r \in misled' <=> r \in misled
<1> USE DEF TypeInv, TypeOK, contents, Goto
<1>1. ASSUME NEW q \in Queries, ExecuteQuery(o, q)
      PROVE  /\ UNCHANGED <<size, sub, out, metadata, misled>>
             /\ pc'[r] = pc[r] /\ query'[r] = query[r] /\ search'[r] = search[r]
  BY <1>1 DEF ExecuteQuery
<1>2. ASSUME SelectMetadata(o) \/ StartCount(o)
      PROVE  UNCHANGED <<size, query, search, sub, out, metadata, misled>> /\ pc'[r] = pc[r]
  BY <1>2 DEF SelectMetadata, StartCount
<1>3. ASSUME ReceiveMetadata(o) \/ UseCachedCount(o) \/ FinishCount(o)
      PROVE  /\ UNCHANGED <<size, query, sub, out, metadata>>
             /\ pc'[r] = pc[r] /\ search'[r] = search[r]
             /\ r \in misled' <=> r \in misled
  BY <1>3 DEF ReceiveMetadata, UseCachedCount, FinishCount, ContinueRecursion
<1>4. ASSUME StartResults(o)
      PROVE  /\ UNCHANGED <<size, query, search, out, misled>>
             /\ pc'[r] = pc[r] /\ sub'[r] = sub[r] /\ metadata'[r] = metadata[r]
  BY <1>4 DEF StartResults
<1>5. ASSUME PushToDestination(o)
      PROVE  /\ UNCHANGED <<size, pc, query, search, metadata, misled>>
             /\ sub'[r] = sub[r] /\ out'[r] = out[r]
  BY <1>5 DEF PushToDestination
<1>6. ASSUME CloseDestination(o)
      PROVE  /\ UNCHANGED <<size, query, search, out, metadata, misled>>
             /\ pc'[r] = pc[r] /\ sub'[r] = sub[r]
  BY <1>6 DEF CloseDestination
<1> QED
  BY <1>1, <1>2, <1>3, <1>4, <1>5, <1>6 DEF Progress

\* The steps of the walk of a request keep its invariant.
LEMMA WalkNext ==
  ASSUME TypeInv, TypeInv', NEW r \in Requests, RequestInv(r),
         \/ SelectMetadata(r) \/ ReceiveMetadata(r) \/ UseCachedCount(r)
         \/ StartCount(r) \/ FinishCount(r)
  PROVE  RequestInv(r)'
<1> DEFINE d == search[r].datasourceIndex
           p == query[r].pattern
<1>1. ASSUME SelectMetadata(r)
      PROVE  RequestInv(r)'
  <2>1. /\ pc[r] = "find" /\ pc'[r] = "metadata" /\ Searching(r) /\ Searching(r)'
        /\ UNCHANGED <<size, query, search, sub, out, metadata, misled>>
    BY <1>1 DEF contents, SelectMetadata, Running, Goto, TypeInv, TypeOK, Searching
  <2>2. SearchInv(r)' /\ CountInv(r)'
    BY <2>1, PositionsUnchanged DEF RequestInv, SearchInv, CountInv, HasDatasourceMatchingGraph
  <2> QED
    BY <2>1, <2>2, WalkKeeps DEF RequestInv
<1>2. ASSUME ReceiveMetadata(r)
      PROVE  RequestInv(r)'
  <2>1. PICK reply \in Replies(d, p) :
          /\ ~NeedsExactCount(r, reply)
          /\ ContinueRecursion(r, reply.totalCount, reply.hasExactCount)
    BY <1>2 DEF contents, ReceiveMetadata
  <2>2. /\ pc[r] = "metadata"
        /\ UNCHANGED <<size, available, query, sub, out, metadata, misled>>
    BY <1>2 DEF contents, ReceiveMetadata, Running
  <2>3. reply.totalCount \in Nat /\ reply.hasExactCount \in BOOLEAN
    BY <2>2, RepliesAreCounts
  <2>4. search[r].offset \in Int
    BY DEF TypeInv, TypeOK, SearchState
  <2>5. \/ reply.totalCount = size[p][d]
        \/ /\ ~reply.hasExactCount /\ search[r].offset <= 0
           /\ size[p][d] > 0 => reply.totalCount > 0
    BY <2>1, <2>3, <2>4, InexactReply, ExactReply DEF NeedsExactCount
  <2> HIDE DEF d, p
  <2> QED
    BY <2>1, <2>2, <2>3, <2>5, PageContinue DEF d, p
<1>3. ASSUME UseCachedCount(r)
      PROVE  RequestInv(r)'
  <2> DEFINE count == cache[CacheKey[p]]
  <2>1. /\ pc[r] = "metadata" /\ ContinueRecursion(r, count, TRUE)
        /\ misled' = IF count = size[p][d] THEN misled ELSE misled \cup {r}
        /\ UNCHANGED <<size, available, query, sub, out, metadata>>
    BY <1>3 DEF contents, UseCachedCount, Running
  <2>2. count \in Nat
    BY <2>1, RepliesAreCounts
  <2>3. misled \subseteq misled' /\ (r \in misled' \/ count = size[p][d])
    BY <2>1
  <2> HIDE DEF d, p, count
  <2> QED
    BY <2>1, <2>2, <2>3, PageContinue DEF d, p
<1>4. ASSUME StartCount(r)
      PROVE  RequestInv(r)'
  <2>1. PICK reply \in Replies(d, p) : NeedsExactCount(r, reply)
    BY <1>4 DEF StartCount
  <2>2. d \in Estimating
    BY <2>1, InexactReply DEF NeedsExactCount
  <2>3. /\ pc[r] = "metadata" /\ pc'[r] = "count" /\ Searching(r) /\ Searching(r)'
        /\ UNCHANGED <<size, query, search, sub, out, metadata, misled>>
    BY <1>4 DEF contents, StartCount, Running, Goto, TypeInv, TypeOK, Searching
  <2>4. SearchInv(r)' /\ CountInv(r)'
    BY <2>2, <2>3, PositionsUnchanged DEF RequestInv, SearchInv, CountInv, HasDatasourceMatchingGraph
  <2> QED
    BY <2>3, <2>4, WalkKeeps DEF RequestInv
<1>5. ASSUME FinishCount(r)
      PROVE  RequestInv(r)'
  <2> DEFINE count == size[p][d]
  <2>1. /\ pc[r] = "count" /\ ContinueRecursion(r, count, TRUE)
        /\ UNCHANGED <<size, available, query, sub, out, metadata, misled>>
    BY <1>5 DEF contents, FinishCount, Running
  <2>2. count \in Nat
    BY <2>1, RepliesAreCounts
  <2> HIDE DEF d, p
  <2> QED
    BY <2>1, <2>2, PageContinue DEF d, p
<1> QED
  BY <1>1, <1>2, <1>3, <1>4, <1>5

\* The end of the walk puts the page where the chosen sub-datasource and its
\* offset are, or after all quads.
LEMMA ResultsNext ==
  ASSUME TypeInv, TypeInv', NEW r \in Requests, RequestInv(r), StartResults(r)
  PROVE  RequestInv(r)'
<1> DEFINE s == search[r]
           p == query[r].pattern
<1>0. N \in Nat
  BY SourcesAssumption
<1>1. /\ pc[r] = "find" /\ Searching(r) /\ s.datasourceIndex >= N
      /\ metadata'[r] = [totalCount |-> s.totalCount, hasExactCount |-> s.hasExactCount]
      /\ UNCHANGED <<size, query, search, out, misled>>
  BY DEF contents, StartResults, Running, Searching, TypeInv, TypeOK
<1>2. /\ s.datasourceIndex = N /\ s.chosenDatasource \in -1 .. N - 1
      /\ s.offset \in Int /\ s.chosenOffset \in Int
      /\ query[r].limit \in Nat /\ query[r].offset \in Nat /\ query[r].limit > 0
      /\ s.chosenDatasource < 0 => s.offset >= 0
      /\ s.chosenDatasource >= 0 => s.chosenOffset >= 0
  BY <1>0, <1>1, AcceptedTypes
<1>3. /\ s.chosenDatasource >= 0 => HasDatasourceMatchingGraph(s.chosenDatasource, p)
      /\ out[r] = << >>
  BY <1>1 DEF RequestInv, SearchInv, QuietInv
<1>4. ASSUME r \notin misled
      PROVE  /\ s.chosenDatasource < 0 => Total(p) + s.offset = query[r].offset
             /\ s.chosenDatasource >= 0 =>
                  /\ s.chosenOffset <= size[p][s.chosenDatasource]
                  /\ Start(s.chosenDatasource, p) + s.chosenOffset = query[r].offset
             /\ s.hasExactCount => s.totalCount = Total(p)
  BY <1>1, <1>2, <1>4 DEF RequestInv, CountInv, Total
<1>5. r \notin misled => HasTrueTotal(r)'
  BY <1>1, <1>4, SamePage DEF HasTrueTotal
<1>6. \A from : IsSliceFrom(r, from)'
  BY <1>1, <1>3 DEF IsSliceFrom
<1>7. Total(p) \in Nat /\ \A d : Start(d, p) \in Nat
  BY PrecedingFinite DEF Total
<1>8. ASSUME s.chosenDatasource < 0
      PROVE  RequestInv(r)'
  <2>1. pc'[r] = "closed" /\ sub' = sub
    BY <1>8 DEF contents, StartResults, Goto, TypeInv, TypeOK
  <2>2. sub'[r].index = -1
    BY <1>1, <2>1 DEF RequestInv, UnchosenInv
  <2>3. Position(r)' = IF query[r].offset < Total(p) THEN Total(p) ELSE query[r].offset
    BY <1>1, <2>1, <2>2, SamePage DEF Position
  <2>4. SearchInv(r)' /\ CountInv(r)' /\ StreamInv(r)' /\ QuietInv(r)' /\ UnchosenInv(r)'
    BY <2>1 DEF SearchInv, CountInv, StreamInv, QuietInv, UnchosenInv, Searching
  <2>5. Len(out[r]) = 0
    BY <1>3
  <2>6. PlaceInv(r)'
    <3>1. Position(r)' >= Total(p)
      BY <1>2, <1>7, <2>3
    <3> QED
      BY <1>1, <1>2, <1>6, <2>5, <3>1, SamePage DEF PlaceInv, IsComplete
  <2>7. r \notin misled => Position(r)' = query[r].offset + Len(out[r])
    <3> HIDE DEF s, p
    <3> QED
      BY <1>2, <1>4, <1>7, <1>8, <2>3, <2>5
  <2> QED
    BY <1>1, <1>5, <2>4, <2>6, <2>7 DEF RequestInv, OffsetInv
<1>9. ASSUME s.chosenDatasource >= 0
      PROVE  RequestInv(r)'
  <2>1. ~(s.chosenDatasource < 0)
    BY <1>2, <1>9
  <2>2. /\ pc'[r] = "stream"
        /\ sub'[r] = [index |-> s.chosenDatasource, offset |-> s.chosenOffset,
                      limit |-> query[r].limit, sent |-> 0]
    BY <2>1 DEF contents, StartResults, Goto, TypeInv, TypeOK
  <2>3. size[p][s.chosenDatasource] \in Nat
    BY <1>0, <1>1, <1>2, <1>9, AcceptedTypes DEF Sources
  <2>4. SearchInv(r)' /\ CountInv(r)' /\ QuietInv(r)' /\ UnchosenInv(r)'
    BY <1>9, <2>2 DEF SearchInv, CountInv, QuietInv, UnchosenInv, Searching
  <2>5. StreamInv(r)'
    <3>1. Len(out[r]) = 0
      BY <1>3
    <3> HIDE DEF s
    <3> QED
      BY <1>1, <1>2, <1>3, <1>9, <2>2, <3>1 DEF StreamInv, HasDatasourceMatchingGraph, p
  <2>6. Position(r)' = Start(s.chosenDatasource, p)
          + (IF s.chosenOffset < size[p][s.chosenDatasource]
               THEN s.chosenOffset ELSE size[p][s.chosenDatasource])
    <3>1. sub'[r].offset + sub'[r].sent = s.chosenOffset /\ sub'[r].index = s.chosenDatasource
      BY <1>2, <2>2
    <3> HIDE DEF s
    <3> QED
      BY <1>1, <1>9, <3>1, PositionsUnchanged DEF Position, p
  <2>7. PlaceInv(r)'
    BY <1>6, <2>2 DEF PlaceInv
  <2>8. r \notin misled => Position(r)' = query[r].offset + Len(out[r])
    <3>1. Len(out[r]) = 0
      BY <1>3
    <3>2. Start(s.chosenDatasource, p) \in Nat
      BY <1>7
    <3> HIDE DEF s, p
    <3> QED
      BY <1>2, <1>4, <1>9, <2>3, <2>6, <3>1, <3>2
  <2> QED
    BY <1>1, <1>5, <2>4, <2>5, <2>7, <2>8 DEF RequestInv, OffsetInv
<1> QED
  BY <1>0, <1>2, <1>8, <1>9

\* A quad that is pushed stands at the position of its request, which moves on.
LEMMA PushNext ==
  ASSUME TypeInv, TypeInv', NEW r \in Requests, RequestInv(r), PushToDestination(r)
  PROVE  RequestInv(r)' /\ Position(r)' = Position(r) + 1
<1> DEFINE b == sub[r]
           p == query[r].pattern
           quad == <<b.index, b.offset + b.sent + 1>>
<1>1. /\ pc[r] = "stream" /\ HasNext(r) /\ out'[r] = Append(out[r], quad)
      /\ sub'[r].index = b.index /\ sub'[r].offset = b.offset
      /\ sub'[r].limit = b.limit /\ sub'[r].sent = b.sent + 1
      /\ UNCHANGED <<size, pc, query, search, metadata, misled>>
  BY DEF contents, PushToDestination, Running, TypeInv, TypeOK, SubQuery
<1>2. /\ b.offset \in Nat /\ b.sent \in Nat /\ b.limit \in Nat
      /\ out[r] \in Seq(Quads) /\ Len(out[r]) \in Nat /\ p \in Patterns
      /\ query[r].offset \in Nat /\ query[r].limit \in Nat /\ b.index \in Sources
  BY <1>1, AcceptedTypes
<1>3. Len(out'[r]) = Len(out[r]) + 1 /\ out'[r] # << >>
  <2> HIDE DEF quad
  <2>1. Len(Append(out[r], quad)) = Len(out[r]) + 1
    BY <1>2
  <2>2. Append(out[r], quad) # << >>
    BY <1>2, <2>1
  <2> QED
    BY <1>1, <2>1, <2>2
<1>4. size[p][b.index] \in Nat /\ Start(b.index, p) \in Nat
  BY <1>1, <1>2, AcceptedTypes, PrecedingFinite
<1>5. /\ HasDatasourceMatchingGraph(b.index, p)
      /\ b.limit - b.sent = query[r].limit - Len(out[r])
      /\ b.index >= 0
  BY <1>1 DEF RequestInv, StreamInv, UnchosenInv
<1>6. b.sent < b.limit /\ b.offset + b.sent < size[p][b.index]
  BY <1>1 DEF HasNext
<1>7. Position(r) = Start(b.index, p) + (b.offset + b.sent)
  BY <1>5, <1>6 DEF Position
<1>8. Position(r)' = Start(b.index, p) + (b.offset + b.sent + 1)
  <2>1. sub'[r].offset + sub'[r].sent = b.offset + b.sent + 1
    <3> DEFINE offset == b.offset
               sent == b.sent
    <3>1. offset \in Nat /\ sent \in Nat /\ sub'[r].offset = offset /\ sub'[r].sent = sent + 1
      BY <1>1, <1>2
    <3> HIDE DEF offset, sent
    <3>2. sub'[r].offset + sub'[r].sent = offset + sent + 1
      BY <3>1
    <3> QED
      BY <3>2 DEF offset, sent
  <2>2. \/ b.offset + b.sent + 1 < size[p][b.index]
        \/ b.offset + b.sent + 1 = size[p][b.index]
    <3> DEFINE n == size[p][b.index]
               offset == b.offset
               sent == b.sent
    <3>1. n \in Nat /\ offset \in Nat /\ sent \in Nat /\ offset + sent < n
      BY <1>2, <1>4, <1>6
    <3> HIDE DEF n, offset, sent
    <3>2. offset + sent + 1 < n \/ offset + sent + 1 = n
      BY <3>1
    <3> QED
      BY <3>2 DEF n, offset, sent
  <2> HIDE DEF b
  <2> QED
    BY <1>1, <1>5, <2>1, <2>2, PositionsUnchanged DEF Position, p
<1>9. Position(r)' = Position(r) + 1 /\ Position(r) \in Nat
  <2> HIDE DEF b, p
  <2> QED
    BY <1>2, <1>4, <1>7, <1>8
<1>10. IsSliceFrom(r, Position(r) - Len(out[r]))'
  <2> SUFFICES ASSUME NEW k \in DOMAIN out'[r]
               PROVE  /\ HasDatasourceMatchingGraph(out'[r][k][1], p)
                      /\ Start(out'[r][k][1], p) + out'[r][k][2] = Position(r)' - Len(out'[r]) + k
    BY <1>1, PositionsUnchanged DEF IsSliceFrom, Place, HasDatasourceMatchingGraph
  <2>1. Position(r)' - Len(out'[r]) = Position(r) - Len(out[r])
    BY <1>2, <1>3, <1>9
  <2>2. CASE k \in DOMAIN out[r]
    <3>1. out'[r][k] = out[r][k]
      BY <1>1, <1>2, <2>2
    <3> QED
      BY <2>1, <2>2, <3>1 DEF RequestInv, PlaceInv, IsSliceFrom, Place
  <2>3. CASE k = Len(out[r]) + 1
    <3>1. out'[r][k] = quad
      BY <1>1, <1>2, <2>3
    <3>2. quad[1] = b.index /\ quad[2] = b.offset + b.sent + 1
      OBVIOUS
    <3>3. Start(b.index, p) + (b.offset + b.sent + 1) = Position(r) - Len(out[r]) + k
      BY <1>2, <1>8, <1>9, <2>3
    <3> HIDE DEF quad, b, p
    <3> QED
      BY <1>5, <2>1, <3>1, <3>2, <3>3
  <2> QED
    BY <1>1, <1>2, <1>3, <2>2, <2>3
<1>11. StreamInv(r)'
  <2>1. /\ b.limit - (b.sent + 1) = query[r].limit - Len(out'[r])
        /\ b.sent + 1 <= b.limit /\ b.offset + (b.sent + 1) <= size[p][b.index]
    <3> DEFINE n == size[p][b.index]
               max == query[r].limit
               len == Len(out[r])
               offset == b.offset
               sent == b.sent
               limit == b.limit
    <3>1. /\ n \in Nat /\ max \in Nat /\ len \in Nat
          /\ offset \in Nat /\ sent \in Nat /\ limit \in Nat
          /\ limit - sent = max - len /\ sent < limit /\ offset + sent < n
      BY <1>2, <1>4, <1>5, <1>6
    <3> HIDE DEF n, max, len, offset, sent, limit
    <3>2. /\ limit - (sent + 1) = max - (len + 1)
          /\ sent + 1 <= limit /\ offset + (sent + 1) <= n
      BY <3>1
    <3> QED
      BY <1>3, <3>2 DEF n, max, len, offset, sent, limit
  <2>2. HasDatasourceMatchingGraph(b.index, p)'
    BY <1>1, <1>5 DEF HasDatasourceMatchingGraph
  <2> QED
    BY <1>1, <2>1, <2>2 DEF StreamInv, HasDatasourceMatchingGraph
<1>12. SearchInv(r)' /\ CountInv(r)' /\ QuietInv(r)' /\ UnchosenInv(r)'
  BY <1>1, <1>5 DEF SearchInv, CountInv, QuietInv, UnchosenInv, Searching
<1>13. OffsetInv(r)'
  <2>1. r \notin misled => Position(r) = query[r].offset + Len(out[r]) /\ HasTrueTotal(r)
    BY DEF RequestInv, OffsetInv
  <2>2. r \notin misled => Position(r)' = query[r].offset + Len(out'[r])
    BY <1>2, <1>3, <1>9, <2>1
  <2>3. HasTrueTotal(r)' = HasTrueTotal(r)
    BY <1>1, PositionsUnchanged DEF HasTrueTotal, Total
  <2> QED
    BY <1>1, <2>1, <2>2, <2>3 DEF OffsetInv
<1> QED
  BY <1>1, <1>9, <1>10, <1>11, <1>12, <1>13 DEF RequestInv, PlaceInv

\* The end of a sub-stream leaves the position where it is.
LEMMA CloseNext ==
  ASSUME TypeInv, TypeInv', NEW r \in Requests, RequestInv(r), CloseDestination(r)
  PROVE  RequestInv(r)' /\ Position(r)' = Position(r)
<1> DEFINE b == sub[r]
           p == query[r].pattern
           next == NextMatching(b.index + 1, p)
<1>0. N \in Nat
  BY SourcesAssumption
<1>1. /\ pc[r] = "stream" /\ ~HasNext(r)
      /\ UNCHANGED <<size, query, search, out, metadata, misled>>
  BY DEF contents, CloseDestination, Running
<1>2. /\ b.index \in Sources /\ p \in Patterns /\ out[r] \in Seq(Quads)
      /\ b.offset \in Nat /\ b.sent \in Nat /\ b.limit \in Nat
      /\ query[r].offset \in Nat /\ query[r].limit \in Nat
  BY <1>1, AcceptedTypes
<1>3. size[p][b.index] \in Nat /\ Len(out[r]) \in Nat /\ Start(b.index, p) \in Nat
  BY <1>1, <1>2, AcceptedTypes, PrecedingFinite
<1>4. /\ HasDatasourceMatchingGraph(b.index, p)
      /\ b.limit - b.sent = query[r].limit - Len(out[r])
      /\ b.sent <= b.limit /\ b.index >= 0
  BY <1>1 DEF RequestInv, StreamInv, UnchosenInv
<1>5. ~(b.sent < b.limit /\ b.offset + b.sent < size[p][b.index])
  BY <1>1 DEF HasNext
<1>6. Start(next, p) = Start(b.index, p) + size[p][b.index]
  BY <1>2, <1>4, StartOfNext DEF TypeInv, TypeOK
<1>7. next \in 0 .. N /\ (next < N => HasDatasourceMatchingGraph(next, p))
  <2>1. b.index + 1 \in 0 .. N
    BY <1>0, <1>2 DEF Sources
  <2> QED
    BY <2>1, <1>0, NextMatchingIsFirst
<1>8. /\ Len(out[r]) <= query[r].limit
      /\ Len(out[r]) < query[r].limit => Position(r) = Start(next, p)
  <2>1. Len(out[r]) <= query[r].limit
    BY <1>2, <1>3, <1>4
  <2>2. ASSUME Len(out[r]) < query[r].limit
        PROVE  ~(b.offset + b.sent < size[p][b.index])
    <3> DEFINE n == size[p][b.index]
               max == query[r].limit
               len == Len(out[r])
               offset == b.offset
               sent == b.sent
               limit == b.limit
    <3>1. /\ n \in Nat /\ max \in Nat /\ len \in Nat
          /\ offset \in Nat /\ sent \in Nat /\ limit \in Nat
          /\ limit - sent = max - len /\ len < max
          /\ ~(sent < limit /\ offset + sent < n)
      BY <1>2, <1>3, <1>4, <1>5, <2>2
    <3> HIDE DEF n, max, len, offset, sent, limit
    <3>2. ~(offset + sent < n)
      BY <3>1
    <3> QED
      BY <3>2 DEF n, offset, sent
  <2>3. Len(out[r]) < query[r].limit => Position(r) = Start(b.index, p) + size[p][b.index]
    BY <1>4, <2>2 DEF Position
  <2> QED
    BY <1>6, <2>1, <2>3
<1>9. \A from : IsSliceFrom(r, from)' <=> IsSliceFrom(r, from)
  BY <1>1, SamePage
<1>10. HasTrueTotal(r)' <=> HasTrueTotal(r)
  BY <1>1, SamePage DEF HasTrueTotal
<1>11. ASSUME Position(r)' = Position(r)
       PROVE  IsSliceFrom(r, Position(r) - Len(out[r]))' /\ OffsetInv(r)'
  BY <1>1, <1>9, <1>10, <1>11 DEF RequestInv, PlaceInv, OffsetInv
<1>12. ASSUME Len(out[r]) < query[r].limit /\ next < N
       PROVE  RequestInv(r)' /\ Position(r)' = Position(r)
  <2>1. /\ pc'[r] = "stream"
        /\ sub'[r] = [index |-> next, offset |-> 0,
                      limit |-> query[r].limit - Len(out[r]), sent |-> 0]
    BY <1>1, <1>12 DEF contents, CloseDestination, TypeInv, TypeOK
  <2>2. size[p][next] \in Nat /\ Start(next, p) \in Nat
    BY <1>0, <1>1, <1>2, <1>7, <1>12, PrecedingFinite, AcceptedTypes DEF Sources
  <2>3. SearchInv(r)' /\ CountInv(r)' /\ QuietInv(r)' /\ UnchosenInv(r)'
    BY <1>7, <2>1 DEF SearchInv, CountInv, QuietInv, UnchosenInv, Searching
  <2>4. StreamInv(r)'
    <3> HIDE DEF b, p, next
    <3> QED
      BY <1>1, <1>2, <1>3, <1>7, <1>8, <1>12, <2>1, <2>2
         DEF StreamInv, HasDatasourceMatchingGraph, p
  <2>5. Position(r)' = Start(next, p)
    <3>1. Position(r)' = Start(next, p) + (IF 0 < size[p][next] THEN 0 ELSE size[p][next])
      <4>1. sub'[r].offset + sub'[r].sent = 0 /\ sub'[r].index = next /\ next >= 0
        BY <1>7, <2>1
      <4> HIDE DEF next
      <4> QED
        BY <1>1, <4>1, PositionsUnchanged DEF Position
    <3> HIDE DEF next
    <3> QED
      BY <2>2, <3>1
  <2>6. Position(r)' = Position(r)
    BY <1>8, <1>12, <2>5
  <2> QED
    BY <1>11, <2>1, <2>3, <2>4, <2>6 DEF RequestInv, PlaceInv
<1>13. ASSUME ~(Len(out[r]) < query[r].limit /\ next < N)
       PROVE  RequestInv(r)' /\ Position(r)' = Position(r)
  <2>1. pc'[r] = "closed" /\ sub' = sub
    BY <1>13 DEF contents, CloseDestination, Goto, TypeInv, TypeOK
  <2>2. SearchInv(r)' /\ CountInv(r)' /\ QuietInv(r)' /\ StreamInv(r)' /\ UnchosenInv(r)'
    BY <2>1 DEF SearchInv, CountInv, QuietInv, Searching, StreamInv, UnchosenInv
  <2>3. Position(r)' = Position(r)
    BY <1>1, <1>4, <2>1, SamePosition
  <2>4. IsComplete(r)
    <3> HIDE DEF b, next
    <3>1. CASE Len(out[r]) < query[r].limit
      <4>1. next = N
        BY <1>0, <1>7, <1>13, <3>1
      <4>2. Position(r) = Total(p)
        BY <1>8, <3>1, <4>1 DEF Total
      <4> QED
        BY <4>2, PrecedingFinite DEF IsComplete, Total
    <3>2. CASE ~(Len(out[r]) < query[r].limit)
      BY <1>2, <1>3, <1>8, <3>2 DEF IsComplete
    <3> QED
      BY <3>1, <3>2
  <2>5. IsComplete(r)' <=> IsComplete(r)
    BY <1>1, <2>3, SamePage DEF IsComplete
  <2> QED
    BY <1>1, <1>8, <1>11, <2>2, <2>3, <2>4, <2>5 DEF RequestInv, PlaceInv
<1> QED
  BY <1>12, <1>13

\* Every step keeps the invariant of every request.
LEMMA RequestNext ==
  ASSUME TypeInv, TypeInv', [Next]_vars, NEW r \in Requests, RequestInv(r)
  PROVE  RequestInv(r)'
<1>0. N \in Nat
  BY SourcesAssumption
<1>1. ASSUME NEW q \in Queries, ExecuteQuery(r, q)
      PROVE  RequestInv(r)'
  <2> DEFINE first == NextMatching(0, q.pattern)
  <2>1. /\ first \in 0 .. N
        /\ first < N => HasDatasourceMatchingGraph(first, q.pattern)
        /\ Start(first, q.pattern) = 0
    BY <1>0, NextMatchingIsFirst, StartOfFirst
  <2>2. /\ pc'[r] = "find" /\ query'[r] = q /\ search'[r] = StartSearch(q)
        /\ out'[r] = << >> /\ metadata'[r] = NoMetadata
        /\ sub'[r].index = -1 /\ UNCHANGED <<size, misled>>
    BY <1>1 DEF contents, ExecuteQuery, Running, Goto, TypeInv, TypeOK, RequestInv, QuietInv,
                UnchosenInv
  <2>3. q.offset \in Nat
    BY SourcesAssumption DEF Queries
  <2>4. SearchInv(r)' /\ CountInv(r)'
    <3> HIDE DEF first
    <3> QED
      BY <2>1, <2>2, <2>3, PositionsUnchanged
         DEF SearchInv, CountInv, StartSearch, HasDatasourceMatchingGraph, first
  <2>5. Position(r)' = q.offset
    BY <2>2 DEF Position
  <2>6. StreamInv(r)' /\ QuietInv(r)' /\ UnchosenInv(r)' /\ PlaceInv(r)'
    BY <2>2 DEF StreamInv, QuietInv, UnchosenInv, PlaceInv, IsSliceFrom
  <2>7. OffsetInv(r)'
    BY <2>2, <2>3, <2>5 DEF OffsetInv, HasTrueTotal, NoMetadata
  <2> QED
    BY <2>4, <2>6, <2>7 DEF RequestInv
<1>2. ASSUME Progress(r)
      PROVE  RequestInv(r)'
  BY <1>2, WalkNext, ResultsNext, PushNext, CloseNext DEF Progress
<1>3. ASSUME NEW o \in Requests \ {r}, (\E q \in Queries : ExecuteQuery(o, q)) \/ Progress(o)
      PROVE  RequestInv(r)'
  BY <1>3, LeavesAlone, OtherRequest
<1>4. ASSUME (\E o \in Requests : SubDatasourceError(o)) \/ (\E k \in Keys : Evict(k))
               \/ UNCHANGED vars
      PROVE  RequestInv(r)'
  <2>1. UNCHANGED <<size, pc, query, search, sub, out, metadata, misled>>
    BY <1>4 DEF contents, vars, requestVars, SubDatasourceError, Evict
  <2> QED
    BY <2>1, OtherRequest
<1> QED
  BY <1>1, <1>2, <1>3, <1>4 DEF Next

LEMMA PagesInvariant == Spec => []PageInv
<1>1. PageInv /\ [Next]_vars => PageInv'
  BY TypeNext, RequestNext DEF PageInv
<1> QED
  BY <1>1, PageInit, PTL DEF Spec

LEMMA PositionIsNatural ==
  ASSUME PageInv, NEW r \in Requests
  PROVE  Position(r) \in Nat
<1> DEFINE p == query[r].pattern
           b == sub[r]
<1>0. N \in Nat
  BY SourcesAssumption
<1>1. query[r].offset \in Nat
  BY SourcesAssumption DEF PageInv, TypeInv, TypeOK, Queries, NoQuery
<1>2. b.index \in -1 .. N - 1 /\ b.offset \in Nat /\ b.sent \in Nat
  BY DEF PageInv, TypeInv, TypeOK, SubQuery
<1>3. Total(p) \in Nat /\ Start(b.index, p) \in Nat
  BY PrecedingFinite DEF Total
<1>4. ASSUME b.index >= 0
      PROVE  size[p][b.index] \in Nat
  <2>1. pc[r] # "idle"
    BY <1>4 DEF PageInv, RequestInv, UnchosenInv
  <2> QED
    BY <1>0, <1>2, <1>4, <2>1, AcceptedTypes DEF PageInv, Sources
<1> QED
  <2> HIDE DEF b, p
  <2> QED
    BY <1>0, <1>1, <1>2, <1>3, <1>4 DEF Position, b, p

\* A page starts where its first quad stands, if it has one.
LEMMA PageStart ==
  ASSUME PageInv, NEW r \in Requests, r \in misled => out[r] # << >>
  PROVE  From(r) = Position(r) - Len(out[r])
<1>1. CASE r \in misled
  <2>1. out[r] \in Seq(Quads) /\ 1 \in DOMAIN out[r]
    BY <1>1 DEF PageInv, TypeInv, TypeOK
  <2>2. Place(r, 1) = Position(r) - Len(out[r]) + 1
    BY <2>1 DEF PageInv, RequestInv, PlaceInv, IsSliceFrom
  <2>3. Position(r) \in Int /\ Len(out[r]) \in Nat
    BY <2>1, PositionIsNatural DEF PageInv
  <2> QED
    BY <1>1, <2>2, <2>3 DEF From
<1>2. CASE r \notin misled
  <2>1. Position(r) = query[r].offset + Len(out[r]) /\ Len(out[r]) \in Nat
    BY <1>2 DEF PageInv, RequestInv, OffsetInv, TypeInv, TypeOK
  <2>2. query[r].offset \in Nat
    BY SourcesAssumption DEF PageInv, TypeInv, TypeOK, Queries, NoQuery
  <2> QED
    BY <1>2, <2>1, <2>2 DEF From
<1> QED
  BY <1>1, <1>2

\* Every page is a contiguous run of the concatenation, and one that the cache
\* did not mislead starts at the requested offset ...
THEOREM PagesAreSlices == Spec => []PageIsSlice
<1>1. PageInv => PageIsSlice
  <2> SUFFICES ASSUME PageInv, NEW r \in Requests
               PROVE  IsSliceFrom(r, From(r))
    BY DEF PageIsSlice
  <2>1. CASE out[r] = << >>
    BY <2>1 DEF IsSliceFrom
  <2>2. CASE out[r] # << >>
    BY <2>2, PageStart DEF PageInv, RequestInv, PlaceInv
  <2> QED
    BY <2>1, <2>2
<1> QED
  BY <1>1, PagesInvariant, PTL

\* ... a closed page lacks no quad ...
THEOREM ClosedPagesAreFull == Spec => []ClosedPageIsFull
<1>1. PageInv => ClosedPageIsFull
  <2> SUFFICES ASSUME PageInv, NEW r \in Requests, r \in misled => out[r] # << >>,
                      pc[r] = "closed"
               PROVE  \/ Len(out[r]) = query[r].limit
                      \/ /\ Len(out[r]) < query[r].limit
                         /\ From(r) + Len(out[r]) >= Total(query[r].pattern)
    BY DEF ClosedPageIsFull, FillsFrom
  <2>1. From(r) = Position(r) - Len(out[r])
    BY PageStart
  <2>2. Position(r) \in Int /\ Len(out[r]) \in Nat /\ query[r].limit \in Nat
    BY PositionIsNatural, AcceptedTypes DEF PageInv
  <2>3. Len(out[r]) <= query[r].limit /\ IsComplete(r)
    BY DEF PageInv, RequestInv, PlaceInv
  <2>4. From(r) + Len(out[r]) = Position(r)
    BY <2>1, <2>2
  <2> QED
    BY <2>2, <2>3, <2>4 DEF IsComplete
<1> QED
  BY <1>1, PagesInvariant, PTL

\* ... and a total that is called exact is the size of the concatenation.
THEOREM ExactTotalsAreTrue == Spec => []ExactTotalIsTrue
<1>1. PageInv => ExactTotalIsTrue
  BY DEF PageInv, RequestInv, OffsetInv, ExactTotalIsTrue
<1> QED
  BY <1>1, PagesInvariant, PTL

-----------------------------------------------------------------------------
(* Who can be misled.                                                      *)

\* Only requests that skip quads take counts from the cache.
LEMMA MisledStep ==
  ASSUME PageInv, [Next]_vars
  PROVE  \/ misled' = misled
         \/ \E r \in Requests :
              /\ UseCachedCount(r)
              /\ misled' = misled \cup {r} /\ query[r].offset > 0
              /\ cache[CacheKey[query[r].pattern]] # size[query[r].pattern][search[r].datasourceIndex]
<1>1. ASSUME NEW r \in Requests, UseCachedCount(r), misled' # misled
      PROVE  /\ misled' = misled \cup {r} /\ query[r].offset > 0
             /\ cache[CacheKey[query[r].pattern]] # size[query[r].pattern][search[r].datasourceIndex]
  <2>1. pc[r] = "metadata" /\ search[r].offset > 0
    BY <1>1 DEF UseCachedCount, Running, NeedsExactCount
  <2>2. search[r].offset \in Int /\ query[r].offset \in Nat
    BY <2>1, AcceptedTypes DEF PageInv
  <2>3. search[r].offset <= query[r].offset
    BY <2>1 DEF PageInv, RequestInv, SearchInv, Searching
  <2>4. query[r].offset > 0
    BY <2>1, <2>2, <2>3
  <2> QED
    BY <1>1, <2>4 DEF UseCachedCount
<1>2. ASSUME NEW r \in Requests, Progress(r)
      PROVE  UseCachedCount(r) \/ misled' = misled
  BY <1>2 DEF Progress, SelectMetadata, ReceiveMetadata, StartCount, FinishCount,
              StartResults, PushToDestination, CloseDestination
<1>3. ASSUME \/ \E r \in Requests, q \in Queries : ExecuteQuery(r, q)
             \/ \E r \in Requests : SubDatasourceError(r)
             \/ \E k \in Keys : Evict(k)
             \/ UNCHANGED vars
      PROVE  misled' = misled
  BY <1>3 DEF ExecuteQuery, SubDatasourceError, Evict, vars
<1> QED
  BY <1>1, <1>2, <1>3 DEF Next

\* A request that was misled asks for a later page.
MisledInv == PageInv /\ \A r \in misled : pc[r] # "idle" /\ query[r].offset > 0

\* A request keeps its query.
LEMMA QueryStays ==
  ASSUME TypeInv, [Next]_vars, NEW r \in Requests, pc[r] # "idle"
  PROVE  pc'[r] # "idle" /\ query'[r] = query[r]
<1>1. ASSUME NEW o \in Requests, NEW q \in Queries, ExecuteQuery(o, q)
      PROVE  pc'[r] = pc[r] /\ query'[r] = query[r]
  BY <1>1 DEF ExecuteQuery, Running, Goto, TypeInv, TypeOK
<1>2. ASSUME NEW o \in Requests, Progress(o)
      PROVE  pc'[r] # "idle" /\ query'[r] = query[r]
  <2>1. UNCHANGED query
    BY <1>2 DEF Progress, SelectMetadata, ReceiveMetadata, UseCachedCount, StartCount,
                FinishCount, StartResults, PushToDestination, CloseDestination
  <2>2. \/ UNCHANGED pc
        \/ \E x \in {"find", "metadata", "count", "stream", "closed"} : Goto(o, x)
    BY <1>2 DEF Progress, SelectMetadata, ReceiveMetadata, UseCachedCount, StartCount,
                FinishCount, StartResults, PushToDestination, CloseDestination,
                ContinueRecursion
  <2>3. pc'[r] # "idle"
    BY <2>2 DEF Goto, TypeInv, TypeOK
  <2> QED
    BY <2>1, <2>3
<1>3. ASSUME (\E o \in Requests : SubDatasourceError(o)) \/ (\E k \in Keys : Evict(k))
               \/ UNCHANGED vars
      PROVE  UNCHANGED <<pc, query>>
  BY <1>3 DEF vars, requestVars, SubDatasourceError, Evict
<1> QED
  BY <1>1, <1>2, <1>3 DEF Next

LEMMA MisledAlways == Spec => []MisledInv
<1>1. Init => MisledInv
  BY PageInit DEF Init, MisledInv
<1>2. ASSUME MisledInv, [Next]_vars
      PROVE  MisledInv'
  <2>1. PageInv'
    BY <1>2, TypeNext, RequestNext DEF MisledInv, PageInv
  <2>2. ASSUME NEW r \in misled'
        PROVE  pc[r] # "idle" /\ query[r].offset > 0 /\ r \in Requests
    BY <1>2, <2>2, MisledStep DEF MisledInv, PageInv, TypeInv, TypeOK, UseCachedCount, Running
  <2>3. ASSUME NEW r \in misled'
        PROVE  pc'[r] # "idle" /\ query'[r].offset > 0
    BY <1>2, <2>2, <2>3, QueryStays DEF MisledInv, PageInv
  <2> QED
    BY <2>1, <2>3 DEF MisledInv
<1> QED
  BY <1>1, <1>2, PTL DEF Spec

\* Whatever the cache holds, and however many sub-datasources estimate their
\* counts, the pages that start at offset 0 are right: the walk then never asks
\* for an exact count, so no entry another request left there is read.
THEOREM FirstPagesAreRight ==
  Spec => [](\A r \in Requests : query[r].offset = 0 =>
               IsSliceFrom(r, 0) /\ FillsFrom(r, 0) /\ HasTrueTotal(r))
<1>1. ASSUME MisledInv, NEW r \in Requests, query[r].offset = 0
      PROVE  IsSliceFrom(r, 0) /\ FillsFrom(r, 0) /\ HasTrueTotal(r)
  <2>1. r \notin misled
    BY <1>1 DEF MisledInv
  <2>2. From(r) = 0
    BY <1>1, <2>1 DEF From
  <2>3. Position(r) - Len(out[r]) = 0 /\ Position(r) = Len(out[r]) /\ Len(out[r]) \in Nat
    BY <1>1, <2>1 DEF MisledInv, PageInv, RequestInv, OffsetInv, TypeInv, TypeOK
  <2>4. IsSliceFrom(r, 0) /\ HasTrueTotal(r)
    BY <1>1, <2>1, <2>3 DEF MisledInv, PageInv, RequestInv, PlaceInv, OffsetInv
  <2>5. ASSUME pc[r] = "closed"
        PROVE  \/ Len(out[r]) = query[r].limit
               \/ Len(out[r]) < query[r].limit /\ 0 + Len(out[r]) >= Total(query[r].pattern)
    <3>1. /\ Len(out[r]) <= query[r].limit /\ query[r].limit \in Nat
          /\ Len(out[r]) = query[r].limit \/ Len(out[r]) >= Total(query[r].pattern)
      BY <1>1, <2>3, <2>5, AcceptedTypes DEF MisledInv, PageInv, RequestInv, PlaceInv, IsComplete
    <3> QED
      BY <2>3, <3>1
  <2> QED
    BY <2>4, <2>5 DEF FillsFrom
<1>2. MisledInv => (\A r \in Requests : query[r].offset = 0 =>
                      IsSliceFrom(r, 0) /\ FillsFrom(r, 0) /\ HasTrueTotal(r))
  BY <1>1
<1> QED
  BY <1>2, MisledAlways, PTL

\* What a key would have to tell apart: the cache answers right when at most one
\* sub-datasource needs it and no two patterns share an entry.
SoundCache ==
  /\ \A d, e \in Estimating : d = e
  /\ \A p, q \in Patterns : CacheKey[p] = CacheKey[q] => p = q

\* A cached count is the count of the estimating sub-datasource.
CacheInv ==
  \A p \in Patterns, d \in Estimating \cap Sources :
    cache[CacheKey[p]] # 0 => cache[CacheKey[p]] = size[p][d]

\* Counts only enter the cache for an estimating sub-datasource, so a sound
\* cache stays right.
LEMMA CacheNext ==
  ASSUME SoundCache, TypeInv, CacheInv, \A r \in Requests : SearchInv(r), [Next]_vars
  PROVE  CacheInv'
<1>1. ASSUME NEW r \in Requests, FinishCount(r)
      PROVE  CacheInv'
  <2> DEFINE d == search[r].datasourceIndex
             p == query[r].pattern
             count == size[p][d]
  <2>1. /\ pc[r] = "count" /\ UNCHANGED size
        /\ cache' = IF count > CacheThreshold
                      THEN [cache EXCEPT ![CacheKey[p]] = count] ELSE cache
    BY <1>1 DEF contents, FinishCount, Running
  <2>2. d \in Sources /\ p \in Patterns /\ count \in Nat
    BY <2>1, RepliesAreCounts
  <2>3. d \in Estimating
    BY <2>1 DEF SearchInv, Searching
  <2> HIDE DEF d, p
  <2> SUFFICES ASSUME NEW o \in Patterns, NEW e \in Estimating \cap Sources,
                      cache'[CacheKey[o]] # 0
               PROVE  cache'[CacheKey[o]] = size[o][e]
    BY <2>1 DEF CacheInv
  <2>4. e = d
    BY <2>3 DEF SoundCache
  <2>5. CASE o = p /\ count > CacheThreshold
    BY <2>1, <2>4, <2>5 DEF TypeInv, TypeOK, Keys
  <2>6. CASE o # p \/ ~(count > CacheThreshold)
    <3>1. cache'[CacheKey[o]] = cache[CacheKey[o]]
      BY <2>1, <2>2, <2>6 DEF SoundCache, TypeInv, TypeOK
    <3> QED
      BY <3>1 DEF CacheInv
  <2> QED
    BY <2>5, <2>6
<1>2. ASSUME NEW k \in Keys, Evict(k)
      PROVE  CacheInv'
  <2>1. UNCHANGED size
    BY <1>2 DEF contents, Evict
  <2> QED
    BY <1>2, <2>1 DEF Evict, CacheInv, TypeInv, TypeOK
<1>3. CASE UNCHANGED <<size, cache>>
  BY <1>3 DEF CacheInv
<1>4. ASSUME NEW r \in Requests, Progress(r)
      PROVE  FinishCount(r) \/ UNCHANGED <<size, cache>>
  BY <1>4 DEF contents, Progress, SelectMetadata, ReceiveMetadata, UseCachedCount, StartCount,
              StartResults, PushToDestination, CloseDestination
<1>5. ASSUME (\E r \in Requests, q \in Queries : ExecuteQuery(r, q))
               \/ (\E r \in Requests : SubDatasourceError(r)) \/ UNCHANGED vars
      PROVE  UNCHANGED <<size, cache>>
  BY <1>5 DEF contents, vars, ExecuteQuery, SubDatasourceError
<1> QED
  BY <1>1, <1>2, <1>3, <1>4, <1>5 DEF Next

\* Then no request is ever misled, and every page starts at its offset.
THEOREM SoundKeysSuffice ==
  ASSUME SoundCache
  PROVE  Spec => []EveryPageIsSlice
<1> DEFINE Inv == PageInv /\ CacheInv /\ misled = {}
<1>1. Init => Inv
  BY PageInit DEF Init, CacheInv, Keys
<1>2. ASSUME Inv, [Next]_vars
      PROVE  Inv'
  <2>1. PageInv'
    BY <1>2, TypeNext, RequestNext DEF PageInv
  <2>2. CacheInv'
    BY <1>2, CacheNext DEF PageInv, RequestInv
  <2>3. ASSUME NEW r \in Requests, UseCachedCount(r)
        PROVE  cache[CacheKey[query[r].pattern]]
                 = size[query[r].pattern][search[r].datasourceIndex]
    <3>1. PICK reply \in Replies(search[r].datasourceIndex, query[r].pattern) :
            NeedsExactCount(r, reply)
      BY <2>3 DEF UseCachedCount
    <3>2. search[r].datasourceIndex \in Estimating
      BY <3>1, InexactReply DEF NeedsExactCount
    <3>3. /\ pc[r] = "metadata" /\ cache[CacheKey[query[r].pattern]] # 0
      BY <2>3 DEF UseCachedCount, Running
    <3>4. search[r].datasourceIndex \in Sources /\ query[r].pattern \in Patterns
      BY <1>2, <3>3, RepliesAreCounts DEF PageInv
    <3> QED
      BY <1>2, <3>2, <3>3, <3>4 DEF CacheInv
  <2>4. misled' = {}
    BY <1>2, <2>3, MisledStep
  <2> QED
    BY <2>1, <2>2, <2>4
<1>3. Inv => EveryPageIsSlice
  <2> SUFFICES ASSUME Inv, NEW r \in Requests PROVE IsSliceFrom(r, query[r].offset)
    BY DEF EveryPageIsSlice
  <2>1. From(r) = query[r].offset
    BY DEF From
  <2> QED
    BY <2>1, PageStart DEF PageInv, RequestInv, PlaceInv
<1> QED
  <2> HIDE DEF Inv
  <2> QED
    BY <1>1, <1>2, <1>3, PTL DEF Spec

-----------------------------------------------------------------------------
(* The protocol of the streams.                                            *)

\* The metadata is there from the end of the walk on, and only then.
ProtocolInv ==
  /\ TypeInv
  /\ \A r \in Requests :
       /\ QuietInv(r)
       /\ pc[r] \in {"stream", "closed"} => metadata[r] \in Metadata

LEMMA MetadataIsSome == NoMetadata \notin Metadata
BY DEF NoMetadata, Metadata

\* The steps of a request that touch neither its stream nor its metadata.
Silent(r) ==
  \/ pc'[r] = pc[r]
  \/ /\ pc[r] \in {"idle", "find", "metadata", "count"}
     /\ pc'[r] \in {"find", "metadata", "count"}
  \/ pc[r] = "stream" /\ pc'[r] = "closed"

LEMMA SilentStep ==
  ASSUME ProtocolInv, TypeInv', out' = out, metadata' = metadata,
         \A r \in Requests : Silent(r)
  PROVE  ProtocolInv'
BY DEF ProtocolInv, QuietInv, Searching, Silent

\* What a step does to the state, the stream and the metadata of a request.
LEMMA StreamSteps ==
  ASSUME TypeInv, [Next]_vars
  PROVE  \/ /\ out' = out /\ metadata' = metadata
            /\ \A r \in Requests : Silent(r)
         \/ \E r \in Requests : StartResults(r)
         \/ \E r \in Requests : PushToDestination(r)
<1>1. ASSUME NEW r \in Requests, NEW q \in Queries, ExecuteQuery(r, q)
      PROVE  /\ out' = out /\ metadata' = metadata /\ pc' = [pc EXCEPT ![r] = "find"]
             /\ pc[r] = "idle"
  BY <1>1 DEF ExecuteQuery, Running, Goto
<1>2. ASSUME NEW r \in Requests,
             \/ SelectMetadata(r) \/ ReceiveMetadata(r) \/ UseCachedCount(r)
             \/ StartCount(r) \/ FinishCount(r)
      PROVE  /\ out' = out /\ metadata' = metadata /\ pc[r] \in {"find", "metadata", "count"}
             /\ \E state \in {"find", "metadata", "count"} : pc' = [pc EXCEPT ![r] = state]
  BY <1>2 DEF SelectMetadata, ReceiveMetadata, UseCachedCount, StartCount, FinishCount,
              ContinueRecursion, Running, Goto
<1>3. ASSUME NEW r \in Requests, CloseDestination(r)
      PROVE  /\ out' = out /\ metadata' = metadata /\ pc[r] = "stream"
             /\ (pc' = pc \/ pc' = [pc EXCEPT ![r] = "closed"])
  BY <1>3 DEF CloseDestination, Running, Goto
<1>4. ASSUME \/ \E r \in Requests : SubDatasourceError(r)
             \/ \E k \in Keys : Evict(k)
             \/ UNCHANGED vars
      PROVE  out' = out /\ metadata' = metadata /\ pc' = pc
  BY <1>4 DEF SubDatasourceError, Evict, vars, requestVars
<1>5. DOMAIN pc = Requests
  BY DEF TypeInv, TypeOK
<1> QED
  BY <1>1, <1>2, <1>3, <1>4, <1>5 DEF Next, Progress, Silent

LEMMA ProtocolNext == ProtocolInv /\ [Next]_vars => ProtocolInv'
<1> SUFFICES ASSUME ProtocolInv, [Next]_vars PROVE ProtocolInv'
  OBVIOUS
<1>1. TypeInv /\ TypeInv'
  BY TypeNext DEF ProtocolInv
<1>2. ASSUME NEW r \in Requests, StartResults(r) PROVE ProtocolInv'
  <2>1. /\ pc'[r] \in {"stream", "closed"} /\ metadata'[r] \in Metadata \cup {NoMetadata}
        /\ metadata'[r].totalCount = search[r].totalCount /\ out' = out
        /\ \A o \in Requests \ {r} : pc'[o] = pc[o] /\ metadata'[o] = metadata[o]
    BY <1>1, <1>2 DEF StartResults, Goto, TypeInv, TypeOK
  <2>2. search[r].totalCount \in Nat
    BY <1>1 DEF TypeInv, TypeOK, SearchState
  <2>3. metadata'[r] \in Metadata
    BY <2>1, <2>2 DEF NoMetadata
  <2> QED
    BY <1>1, <2>1, <2>3 DEF ProtocolInv, QuietInv, Searching
<1>3. ASSUME NEW r \in Requests, PushToDestination(r) PROVE ProtocolInv'
  <2>1. /\ pc[r] = "stream" /\ pc' = pc /\ metadata' = metadata
        /\ \A o \in Requests \ {r} : out'[o] = out[o]
    BY <1>1, <1>3 DEF PushToDestination, Running, TypeInv, TypeOK
  <2> QED
    BY <1>1, <2>1 DEF ProtocolInv, QuietInv, Searching
<1> QED
  BY <1>1, <1>2, <1>3, StreamSteps, SilentStep

LEMMA ProtocolAlways == Spec => []ProtocolInv
<1>1. Init => ProtocolInv
  BY TypeInit DEF Init, ProtocolInv, QuietInv
<1>2. ProtocolInv /\ [Next]_vars => ProtocolInv'
  BY ProtocolNext
<1> QED
  BY <1>1, <1>2, PTL DEF Spec

\* The reader of a stream gets its metadata once and before the quads, and no
\* quad after the end (the metadata property and close of the destination); this
\* needs nothing of the cache.
THEOREM StreamsKeepProtocol == Spec => StreamProtocol
<1>1. ProtocolInv /\ [Next]_vars =>
        \A r \in Requests :
          /\ metadata[r] # NoMetadata => metadata'[r] = metadata[r]
          /\ out'[r] # out[r] => metadata[r] # NoMetadata /\ pc[r] = "stream"
          /\ pc[r] = "closed" => UNCHANGED <<pc[r], out[r]>>
  <2> SUFFICES ASSUME ProtocolInv, [Next]_vars, NEW r \in Requests
               PROVE  /\ metadata[r] # NoMetadata => metadata'[r] = metadata[r]
                      /\ out'[r] # out[r] => metadata[r] # NoMetadata /\ pc[r] = "stream"
                      /\ pc[r] = "closed" => UNCHANGED <<pc[r], out[r]>>
    OBVIOUS
  <2>1. TypeInv
    BY DEF ProtocolInv
  <2>2. ASSUME NEW o \in Requests, StartResults(o)
        PROVE  /\ out' = out /\ pc[o] = "find" /\ metadata[o] = NoMetadata
               /\ r # o => pc'[r] = pc[r] /\ metadata'[r] = metadata[r]
    BY <2>1, <2>2 DEF StartResults, Running, Goto, TypeInv, TypeOK, ProtocolInv, QuietInv, Searching
  <2>3. ASSUME NEW o \in Requests, PushToDestination(o)
        PROVE  /\ metadata' = metadata /\ pc' = pc /\ pc[o] = "stream" /\ metadata[o] # NoMetadata
               /\ r # o => out'[r] = out[r]
    BY <2>1, <2>3, MetadataIsSome DEF PushToDestination, Running, TypeInv, TypeOK, ProtocolInv
  <2> QED
    BY <2>1, <2>2, <2>3, StreamSteps DEF Silent
<1> QED
  BY <1>1, ProtocolAlways, PTL DEF Spec, StreamProtocol

-----------------------------------------------------------------------------
(* The composite datasource implements the concatenated source.            *)

\* The variables of ConcatenatedSource, as CompositeRefinement maps them.
States == [r \in Requests |-> State(r)]
Totals == [r \in Requests |->
            IF metadata[r].hasExactCount THEN metadata[r].totalCount ELSE -1]
AllMatches == [p \in Patterns |-> Matches(p)]
Positions == [r \in Requests |-> Position(r)]

LEMMA AbstractVars ==
  Promise!vars = <<AllMatches, States, query, Totals, out, Positions, misled>>
BY DEF Promise!vars, AllMatches, States, Totals, Positions

\* Both modules count in the same way.
LEMMA SameCardinality ==
  ASSUME NEW S PROVE Promise!Cardinality(S) = Cardinality(S)
BY Zenon DEF Cardinality, Promise!Cardinality

LEMMA CompleteMaps ==
  ASSUME NEW r \in Requests, query[r].pattern \in Patterns
  PROVE  /\ Promise!Complete(r) <=> IsComplete(r)
         /\ Promise!Size(r) = Total(query[r].pattern)
<1>1. AllMatches[query[r].pattern] = Preceding(N, query[r].pattern)
  BY DEF AllMatches, Matches
<1>2. Promise!Size(r) = Total(query[r].pattern)
  BY <1>1, SameCardinality DEF Promise!Size, AllMatches, Total, Start
<1>3. Positions[r] = Position(r)
  BY DEF Positions
<1> QED
  BY <1>2, <1>3, Zenon DEF Promise!Complete, IsComplete, Positions

\* Each of the steps of ConcatenatedSource, in terms of the composite datasource.
LEMMA AcceptMaps ==
  ASSUME NEW r \in Requests, NEW q \in Queries, States[r] = "idle",
         query' = [query EXCEPT ![r] = q], States' = [States EXCEPT ![r] = "open"],
         Positions' = [Positions EXCEPT ![r] = q.offset],
         AllMatches' = AllMatches, Totals' = Totals, out' = out, misled' = misled
  PROVE  Promise!Next
BY DEF Promise!Next, Promise!Accept, States, AllMatches, Totals, Positions

\* Nothing has been announced or delivered to r.
IsFresh(r) == States[r] = "open" /\ Totals[r] = -1 /\ out[r] = << >>

LEMMA FreshMaps ==
  ASSUME NEW r \in Requests PROVE Promise!Fresh(r) <=> IsFresh(r)
BY DEF Promise!Fresh, Promise!Unknown, IsFresh, States, Totals

LEMMA AnnounceMaps ==
  ASSUME NEW r \in Requests, query[r].pattern \in Patterns, IsFresh(r), r \notin misled,
         Totals' = [Totals EXCEPT ![r] = Total(query[r].pattern)],
         States' = States \/ (IsComplete(r) /\ States' = [States EXCEPT ![r] = "closed"]),
         AllMatches' = AllMatches, query' = query, out' = out, Positions' = Positions,
         misled' = misled
  PROVE  Promise!Next
<1>1. Promise!Announce(r)
  BY CompleteMaps, FreshMaps, Zenon
     DEF Promise!Announce, States, AllMatches, Totals, Positions
<1> QED
  BY <1>1 DEF Promise!Next

LEMMA MisleadMaps ==
  ASSUME NEW r \in Requests, IsFresh(r), query[r].offset > 0, misled' = misled \cup {r},
         AllMatches' = AllMatches, States' = States, query' = query, Totals' = Totals,
         out' = out, Positions' = Positions
  PROVE  Promise!Next
<1>1. Promise!Mislead(r)
  BY FreshMaps DEF Promise!Mislead, States, AllMatches, Totals, Positions
<1> QED
  BY <1>1 DEF Promise!Next

LEMMA MisplaceMaps ==
  ASSUME NEW r \in Requests, query[r].pattern \in Patterns, IsFresh(r), r \in misled,
         NEW x \in Nat, Positions' = [Positions EXCEPT ![r] = x],
         NEW t \in Nat \cup {-1}, Totals' = [Totals EXCEPT ![r] = t],
         \/ States' = States
         \/ x >= Total(query[r].pattern) /\ States' = [States EXCEPT ![r] = "closed"],
         AllMatches' = AllMatches, query' = query, out' = out, misled' = misled
  PROVE  Promise!Next
<1>1. DOMAIN Positions = Requests /\ DOMAIN Totals = Requests
  BY DEF Positions, Totals
<1>2. Positions'[r] = x /\ Totals'[r] = t
  BY <1>1
<1>3. Promise!Misplace(r)
  BY <1>2, CompleteMaps, FreshMaps, Zenon
     DEF Promise!Misplace, Promise!Unknown, States, AllMatches, Totals, Positions
<1> QED
  BY <1>3 DEF Promise!Next

LEMMA DeliverMaps ==
  ASSUME NEW r \in Requests, query[r].pattern \in Patterns, States[r] = "open", ~IsComplete(r),
         NEW m \in Preceding(N, query[r].pattern),
         Cardinality({x \in Preceding(N, query[r].pattern) : x[1] < m[1] \/ (x[1] = m[1] /\ x[2] < m[2])})
           = Position(r),
         out' = [out EXCEPT ![r] = Append(@, m)],
         Positions' = [Positions EXCEPT ![r] = @ + 1],
         AllMatches' = AllMatches, States' = States, query' = query, Totals' = Totals,
         misled' = misled
  PROVE  Promise!Next
<1>1. AllMatches[query[r].pattern] = Preceding(N, query[r].pattern)
  BY DEF AllMatches, Matches
<1> DEFINE before == {x \in Preceding(N, query[r].pattern) :
                        x[1] < m[1] \/ (x[1] = m[1] /\ x[2] < m[2])}
<1>2. Promise!Before(m, query[r].pattern) = before
  BY <1>1, Zenon DEF Promise!Before, AllMatches
<1>3. Promise!Cardinality(before) = Positions[r]
  BY SameCardinality DEF Positions
<1>4. States[r] = "open" /\ ~Promise!Complete(r)
  BY CompleteMaps
<1>5. Promise!Cardinality(Promise!Before(m, query[r].pattern)) = Positions[r]
  BY <1>2, <1>3, Zenon
<1>6. Promise!Deliver(r)
  BY <1>1, <1>4, <1>5, Zenon DEF Promise!Deliver, States, AllMatches, Totals, Positions
<1> QED
  BY <1>6 DEF Promise!Next

LEMMA CloseMaps ==
  ASSUME NEW r \in Requests, query[r].pattern \in Patterns, States[r] = "open", IsComplete(r),
         States' = [States EXCEPT ![r] = "closed"], Positions' = Positions, misled' = misled,
         AllMatches' = AllMatches, query' = query, Totals' = Totals, out' = out
  PROVE  Promise!Next
<1>1. Promise!Close(r)
  BY CompleteMaps DEF Promise!Close, States, AllMatches, Totals, Positions
<1> QED
  BY <1>1 DEF Promise!Next

LEMMA BreakMaps ==
  ASSUME NEW broken \in SUBSET {r \in Requests : States[r] = "open"},
         States' = [r \in Requests |-> IF r \in broken THEN "broken" ELSE States[r]],
         AllMatches' = AllMatches, query' = query, Totals' = Totals, out' = out,
         Positions' = Positions, misled' = misled
  PROVE  Promise!Next
<1>1. Promise!Break
  BY DEF Promise!Break, States, AllMatches, Totals, Positions
<1> QED
  BY <1>1 DEF Promise!Next

\* A step of r alone changes the state of r alone.
LEMMA OwnState ==
  ASSUME NEW r \in Requests, crashed' = crashed, available' = available,
         \A o \in Requests \ {r} : pc'[o] = pc[o] /\ search'[o] = search[o]
  PROVE  States' = [States EXCEPT ![r] = State(r)']
BY DEF States, State, Broken

\* ... and a step that leaves it alone leaves it.
LEMMA SameState ==
  ASSUME NEW r \in Requests, crashed' = crashed, available' = available,
         \A o \in Requests \ {r} : pc'[o] = pc[o] /\ search'[o] = search[o],
         State(r)' = State(r)
  PROVE  States' = States
<1>1. States' = [States EXCEPT ![r] = State(r)']
  BY OwnState
<1> QED
  BY <1>1 DEF States

LEMMA SameMatches ==
  ASSUME size' = size PROVE AllMatches' = AllMatches
BY DEF AllMatches, Matches, Preceding, HasDatasourceMatchingGraph

\* A step of r alone moves the position of r alone.
LEMMA OwnPosition ==
  ASSUME NEW r \in Requests, size' = size,
         \A o \in Requests \ {r} : pc'[o] = pc[o] /\ query'[o] = query[o] /\ sub'[o] = sub[o]
  PROVE  Positions' = [Positions EXCEPT ![r] = Position(r)']
<1>1. \A o \in Requests \ {r} : Position(o)' = Position(o)
  BY SamePosition
<1> QED
  BY <1>1 DEF Positions

LEMMA SamePositions ==
  ASSUME NEW r \in Requests, size' = size, Position(r)' = Position(r),
         \A o \in Requests \ {r} : pc'[o] = pc[o] /\ query'[o] = query[o] /\ sub'[o] = sub[o]
  PROVE  Positions' = Positions
<1>1. Positions' = [Positions EXCEPT ![r] = Position(r)']
  BY OwnPosition
<1> QED
  BY <1>1 DEF Positions

LEMMA StutterMaps ==
  ASSUME AllMatches' = AllMatches, States' = States, query' = query,
         metadata' = metadata, out' = out, Positions' = Positions, misled' = misled
  PROVE  UNCHANGED Promise!vars
BY AbstractVars DEF AllMatches, Matches, States, Totals, Positions, Promise!vars

LEMMA SameTotals == ASSUME metadata' = metadata PROVE Totals' = Totals
BY DEF Totals

\* Accepting a query.
LEMMA AcceptRefines ==
  ASSUME PageInv, NEW r \in Requests, NEW q \in Queries, ExecuteQuery(r, q)
  PROVE  Promise!Next
<1>1. /\ ~crashed /\ pc[r] = "idle" /\ pc' = [pc EXCEPT ![r] = "find"]
      /\ search' = [search EXCEPT ![r] = StartSearch(q)]
      /\ query' = [query EXCEPT ![r] = q]
      /\ UNCHANGED <<size, available, crashed, sub, out, metadata, misled>>
  BY DEF ExecuteQuery, Running, Goto, contents
<1>2. /\ pc'[r] = "find" /\ query'[r] = q
      /\ \A o \in Requests \ {r} : pc'[o] = pc[o] /\ search'[o] = search[o] /\ query'[o] = query[o]
  BY <1>1 DEF PageInv, TypeInv, TypeOK
<1>3. States[r] = "idle" /\ State(r)' = "open"
  BY <1>1, <1>2 DEF States, State, Broken
<1>4. States' = [States EXCEPT ![r] = "open"]
  BY <1>1, <1>2, <1>3, OwnState
<1>5. Positions' = [Positions EXCEPT ![r] = q.offset]
  <2>1. sub[r].index = -1
    BY <1>1 DEF PageInv, RequestInv, UnchosenInv
  <2>2. Position(r)' = q.offset
    BY <1>1, <1>2, <2>1 DEF Position
  <2> QED
    BY <1>1, <1>2, <2>2, OwnPosition
<1>6. AllMatches' = AllMatches /\ Totals' = Totals
  BY <1>1, SameMatches, SameTotals
<1> QED
  BY <1>1, <1>3, <1>4, <1>5, <1>6, AcceptMaps

\* Asking for metadata: the stream breaks off when the sub-datasource is down.
LEMMA SelectRefines ==
  ASSUME PageInv, NEW r \in Requests, SelectMetadata(r)
  PROVE  [Promise!Next]_(Promise!vars)
<1>1. /\ ~crashed /\ pc[r] = "find" /\ pc' = [pc EXCEPT ![r] = "metadata"]
      /\ UNCHANGED <<size, available, crashed, query, search, sub, out, metadata, misled>>
  BY DEF SelectMetadata, Running, Goto, contents
<1>2. pc'[r] = "metadata" /\ \A o \in Requests \ {r} : pc'[o] = pc[o] /\ search'[o] = search[o]
  BY <1>1 DEF PageInv, TypeInv, TypeOK
<1>3. States[r] = "open" /\ State(r) = "open"
  BY <1>1 DEF States, State, Broken
<1>4. AllMatches' = AllMatches /\ Totals' = Totals /\ Positions' = Positions
  <2>1. Position(r)' = Position(r)
    BY <1>1, <1>2, SamePosition
  <2> QED
    BY <1>1, <1>2, <2>1, SameMatches, SameTotals, SamePositions
<1>5. CASE search[r].datasourceIndex \in available
  <2>1. State(r)' = State(r)
    BY <1>1, <1>2, <1>3, <1>5 DEF State, Broken
  <2>2. States' = States
    BY <1>1, <1>2, <2>1, SameState
  <2> QED
    BY <1>1, <1>4, <2>2, StutterMaps
<1>6. CASE search[r].datasourceIndex \notin available
  <2>1. State(r)' = "broken"
    BY <1>1, <1>2, <1>6 DEF State, Broken
  <2>2. States' = [States EXCEPT ![r] = "broken"]
    BY <1>1, <1>2, <2>1, OwnState
  <2>3. States' = [o \in Requests |-> IF o \in {r} THEN "broken" ELSE States[o]]
    BY <2>2 DEF States
  <2>4. {r} \in SUBSET {o \in Requests : States[o] = "open"}
    BY <1>3
  <2> QED
    BY <1>1, <1>4, <2>3, <2>4, BreakMaps
<1> QED
  BY <1>5, <1>6

\* The rest of the walk is invisible, but for a wrong count.
LEMMA WalkRefines ==
  ASSUME PageInv, [Next]_vars, NEW r \in Requests,
         ReceiveMetadata(r) \/ UseCachedCount(r) \/ StartCount(r) \/ FinishCount(r)
  PROVE  [Promise!Next]_(Promise!vars)
<1>1. /\ ~crashed
      /\ \/ pc[r] = "metadata" /\ search[r].datasourceIndex \in available
         \/ pc[r] = "count"
      /\ UNCHANGED <<size, available, crashed, query, sub, out, metadata>>
  BY DEF ReceiveMetadata, UseCachedCount, StartCount, FinishCount, Running, contents
<1>2. /\ \E state \in {"find", "count"} : pc' = [pc EXCEPT ![r] = state]
      /\ \/ search' = search
         \/ \E s : search' = [search EXCEPT ![r] = s]
  BY DEF ReceiveMetadata, UseCachedCount, StartCount, FinishCount, ContinueRecursion, Goto
<1>3. pc'[r] \in {"find", "count"}
      /\ \A o \in Requests \ {r} : pc'[o] = pc[o] /\ search'[o] = search[o]
  BY <1>2 DEF PageInv, TypeInv, TypeOK
<1>4. State(r)' = State(r) /\ State(r) = "open"
  BY <1>1, <1>3 DEF State, Broken
<1>5. States' = States
  BY <1>1, <1>3, <1>4, SameState
<1>6. AllMatches' = AllMatches /\ Totals' = Totals /\ Positions' = Positions
  <2>1. Position(r)' = Position(r)
    BY <1>1, <1>3, SamePosition
  <2> QED
    BY <1>1, <1>3, <2>1, SameMatches, SameTotals, SamePositions
<1>7. CASE misled' = misled
  BY <1>1, <1>5, <1>6, <1>7, StutterMaps
<1>8. CASE misled' # misled
  <2>1. PICK o \in Requests : /\ UseCachedCount(o) /\ misled' = misled \cup {o}
                              /\ query[o].offset > 0
    BY <1>8, MisledStep
  <2>2. pc[o] = "metadata" /\ search[o].datasourceIndex \in available
    BY <2>1 DEF UseCachedCount, Running
  <2>3. out[o] = << >> /\ metadata[o] = NoMetadata
    BY <2>2 DEF PageInv, RequestInv, QuietInv, Searching
  <2>4. IsFresh(o)
    BY <1>1, <2>2, <2>3 DEF IsFresh, States, State, Broken, Totals, NoMetadata
  <2> QED
    BY <1>1, <1>5, <1>6, <2>1, <2>4, MisleadMaps
<1> QED
  BY <1>7, <1>8

\* The position of a quad in the concatenation.
LEMMA BeforeSize ==
  ASSUME NEW p \in Patterns, NEW d \in Sources, HasDatasourceMatchingGraph(d, p),
         size \in Contents, NEW k \in Nat \ {0}, k <= size[p][d]
  PROVE  /\ <<d, k>> \in Preceding(N, p)
         /\ Cardinality({x \in Preceding(N, p) : x[1] < d \/ (x[1] = d /\ x[2] < k)})
              = Start(d, p) + (k - 1)
         /\ Start(d, p) + size[p][d] <= Total(p)
<1> DEFINE own == {d} \X (1 .. k - 1)
           before == {x \in Preceding(N, p) : x[1] < d \/ (x[1] = d /\ x[2] < k)}
<1>1. size[p][d] \in 0 .. MaxSize /\ d \in Nat /\ d < N /\ N \in Nat /\ MaxSize \in Nat
  BY SourcesAssumption DEF Sources
<1>2. <<d, k>> \in Preceding(N, p)
  BY <1>1 DEF Preceding
<1>3. before = Preceding(d, p) \cup own
  <2>1. ASSUME NEW m \in Sources \X (1 .. MaxSize)
        PROVE  m \in before <=> m \in Preceding(d, p) \cup own
    <3>1. m[1] \in Nat /\ m[2] \in Nat /\ m[2] >= 1 /\ m = <<m[1], m[2]>> /\ m[1] < N
      BY SourcesAssumption DEF Sources
    <3>2. CASE m[1] < d
      BY <1>1, <3>1, <3>2 DEF Preceding
    <3>3. CASE m[1] = d
      BY <1>1, <3>1, <3>3 DEF Preceding
    <3>4. CASE m[1] > d
      BY <1>1, <3>1, <3>4 DEF Preceding
    <3> QED
      BY <1>1, <3>1, <3>2, <3>3, <3>4
  <2>2. own \subseteq Sources \X (1 .. MaxSize)
    BY <1>1
  <2>3. Preceding(d, p) \subseteq Sources \X (1 .. MaxSize) /\ before \subseteq Sources \X (1 .. MaxSize)
    BY DEF Preceding
  <2> QED
    <3> HIDE DEF own, before
    <3> QED
      BY <2>1, <2>2, <2>3
<1>4. IsFiniteSet(own) /\ Cardinality(own) = k - 1
  <2>1. k - 1 \in Nat
    OBVIOUS
  <2> QED
    BY <2>1, BlockSize
<1>5. Preceding(d, p) \cap own = {}
  BY <1>1 DEF Preceding
<1>6. Cardinality(before) = Start(d, p) + (k - 1)
  <2> HIDE DEF own, before
  <2>1. Cardinality(Preceding(d, p) \cap own) = 0
    BY <1>5, FS_EmptySet
  <2>2. IsFiniteSet(Preceding(d, p)) /\ Start(d, p) \in Nat
    BY PrecedingFinite
  <2>3. Cardinality(Preceding(d, p) \cup own) = Cardinality(Preceding(d, p)) + Cardinality(own)
                                          - Cardinality(Preceding(d, p) \cap own)
    BY <1>4, <2>2, FS_Union
  <2> QED
    BY <1>3, <1>4, <2>1, <2>2, <2>3 DEF Start
<1>7. Start(d, p) + size[p][d] <= Total(p)
  <2> DEFINE next == NextMatching(d + 1, p)
  <2>1. Start(next, p) = Start(d, p) + size[p][d]
    BY StartOfNext
  <2>2. next \in 0 .. N
    <3>1. d + 1 \in 0 .. N
      BY <1>1
    <3> QED
      BY <1>1, <3>1, NextMatchingIsFirst
  <2>3. Preceding(next, p) \subseteq Preceding(N, p)
    <3> HIDE DEF next
    <3> QED
      BY <1>1, <2>2 DEF Preceding, Sources
  <2>4. Start(next, p) <= Start(N, p)
    BY <2>3, PrecedingFinite, FS_Subset DEF Start
  <2> QED
    BY <2>1, <2>4 DEF Total
<1> QED
  BY <1>2, <1>6, <1>7

\* A quad that is pushed is the next one of the concatenation.
LEMMA PushRefines ==
  ASSUME PageInv, PageInv', NEW r \in Requests, PushToDestination(r)
  PROVE  Promise!Next
<1> DEFINE d == sub[r].index
           k == sub[r].offset + sub[r].sent + 1
           p == query[r].pattern
           m == <<d, k>>
<1>1. /\ ~crashed /\ pc[r] = "stream" /\ HasNext(r) /\ out' = [out EXCEPT ![r] = Append(@, m)]
      /\ UNCHANGED <<size, available, crashed, pc, query, search, metadata, misled>>
      /\ \A o \in Requests \ {r} : sub'[o] = sub[o]
  BY DEF PushToDestination, Running, contents, PageInv, TypeInv, TypeOK
<1>2. /\ p \in Patterns /\ d \in Sources /\ sub[r].offset \in Nat /\ sub[r].sent \in Nat
      /\ sub[r].limit \in Nat /\ query[r].limit \in Nat /\ Len(out[r]) \in Nat
      /\ size[p][d] \in Nat /\ size \in Contents
  BY <1>1, AcceptedTypes DEF PageInv, TypeInv, TypeOK
<1>3. /\ HasDatasourceMatchingGraph(d, p) /\ d >= 0
      /\ sub[r].limit - sub[r].sent = query[r].limit - Len(out[r])
      /\ sub[r].sent < sub[r].limit /\ sub[r].offset + sub[r].sent < size[p][d]
  BY <1>1 DEF PageInv, RequestInv, StreamInv, UnchosenInv, HasNext
<1>4. k \in Nat \ {0} /\ k <= size[p][d] /\ k - 1 = sub[r].offset + sub[r].sent
  <2> HIDE DEF d, p
  <2> QED
    BY <1>2, <1>3
<1>5. /\ m \in Preceding(N, p)
      /\ Cardinality({x \in Preceding(N, p) : x[1] < d \/ (x[1] = d /\ x[2] < k)})
           = Start(d, p) + (k - 1)
      /\ Start(d, p) + size[p][d] <= Total(p)
  <2> HIDE DEF d, p, k
  <2> QED
    BY <1>2, <1>3, <1>4, BeforeSize
<1>6. Start(d, p) \in Nat /\ Total(p) \in Nat
  BY PrecedingFinite DEF Total
<1>7. Position(r) = Start(d, p) + (k - 1)
  <2>1. Position(r) = Start(d, p) + (sub[r].offset + sub[r].sent)
    BY <1>3 DEF Position
  <2> QED
    BY <1>4, <2>1
<1>8. ~IsComplete(r)
  <2>1. Len(out[r]) # query[r].limit
    BY <1>2, <1>3
  <2>2. ~(Position(r) >= Total(p))
    <3> HIDE DEF d, p, k
    <3> QED
      BY <1>2, <1>4, <1>5, <1>6, <1>7
  <2> QED
    BY <2>1, <2>2 DEF IsComplete
<1>9. /\ States[r] = "open" /\ States' = States /\ AllMatches' = AllMatches /\ Totals' = Totals
  <2>1. State(r)' = State(r) /\ State(r) = "open"
    BY <1>1 DEF State, Broken
  <2> QED
    BY <1>1, <2>1, SameState, SameMatches, SameTotals DEF States
<1>10. Positions' = [Positions EXCEPT ![r] = @ + 1]
  <2>1. Position(r)' = Position(r) + 1
    BY PushNext DEF PageInv
  <2>2. Positions' = [Positions EXCEPT ![r] = Position(r)']
    BY <1>1, OwnPosition
  <2> QED
    BY <2>1, <2>2 DEF Positions
<1>11. m[1] = d /\ m[2] = k
  OBVIOUS
<1>12. Cardinality({x \in Preceding(N, p) : x[1] < m[1] \/ (x[1] = m[1] /\ x[2] < m[2])})
         = Position(r)
  <2> HIDE DEF m, d, k, p
  <2> QED
    BY <1>5, <1>7, <1>11
<1> QED
  <2> HIDE DEF m, d, k
  <2> QED
    BY <1>1, <1>2, <1>5, <1>8, <1>9, <1>10, <1>12, DeliverMaps

\* The end of the walk announces the total, when it is exact, and closes the
\* stream when no quad is left for it; a misled request gets a place instead.
LEMMA StartRefines ==
  ASSUME PageInv, PageInv', NEW r \in Requests, StartResults(r)
  PROVE  [Promise!Next]_(Promise!vars)
<1>1. /\ ~crashed /\ pc[r] = "find"
      /\ metadata' = [metadata EXCEPT ![r] =
            [totalCount |-> search[r].totalCount, hasExactCount |-> search[r].hasExactCount]]
      /\ \/ pc' = [pc EXCEPT ![r] = "closed"]
         \/ pc' = [pc EXCEPT ![r] = "stream"]
      /\ UNCHANGED <<size, available, crashed, query, search, out, misled>>
  BY DEF StartResults, Running, Goto, contents
<1>2. /\ TypeInv /\ DOMAIN pc = Requests /\ DOMAIN metadata = Requests
      /\ \A o \in Requests \ {r} : sub'[o] = sub[o]
  BY DEF StartResults, PageInv, TypeInv, TypeOK
<1>3. query[r].pattern \in Patterns /\ query[r].limit > 0
  BY <1>1, <1>2, AcceptedTypes
<1>4. out[r] = << >> /\ metadata[r] = NoMetadata
  BY <1>1 DEF PageInv, RequestInv, QuietInv, Searching
<1>5. IsFresh(r)
  BY <1>1, <1>4 DEF IsFresh, States, State, Broken, Totals, NoMetadata
<1>6. \A o \in Requests \ {r} : pc'[o] = pc[o] /\ search'[o] = search[o] /\ metadata'[o] = metadata[o]
  BY <1>1, <1>2
<1>7. AllMatches' = AllMatches
  BY <1>1, SameMatches
<1>8. /\ Positions' = [Positions EXCEPT ![r] = Position(r)']
      /\ Position(r)' \in Nat
  <2>1. Positions' = [Positions EXCEPT ![r] = Position(r)']
    BY <1>1, <1>2, <1>6, OwnPosition
  <2>2. (Position(r) \in Nat)'
    BY PositionIsNatural, PTL
  <2> QED
    BY <2>1, <2>2
<1>9. \/ States' = States
      \/ /\ Position(r)' >= Total(query[r].pattern)
         /\ States' = [States EXCEPT ![r] = "closed"]
  <2>1. CASE pc'[r] = "closed"
    <3>1. State(r)' = "closed"
      BY <2>1 DEF State
    <3>2. States' = [States EXCEPT ![r] = "closed"]
      BY <1>1, <1>6, <3>1, OwnState
    <3>3. IsComplete(r)'
      BY <2>1 DEF PageInv, RequestInv, PlaceInv
    <3>4. Len(out'[r]) # query'[r].limit
      BY <1>1, <1>3, <1>4
    <3>5. Total(query[r].pattern)' = Total(query[r].pattern)
      BY <1>1, SamePage
    <3> QED
      BY <1>1, <3>2, <3>3, <3>4, <3>5 DEF IsComplete
  <2>2. CASE pc'[r] = "stream"
    <3>1. State(r)' = State(r)
      BY <1>1, <2>2 DEF State, Broken
    <3> QED
      BY <1>1, <1>6, <3>1, SameState
  <2> QED
    BY <1>1, <1>2, <2>1, <2>2
<1>10. CASE r \in misled
  <2> DEFINE t == IF search[r].hasExactCount THEN search[r].totalCount ELSE -1
  <2>1. Totals' = [Totals EXCEPT ![r] = t]
    BY <1>1, <1>2, <1>6 DEF Totals
  <2>2. t \in Nat \cup {-1}
    BY <1>1, <1>2, AcceptedTypes
  <2> HIDE DEF t
  <2> QED
    BY <1>1, <1>3, <1>5, <1>7, <1>8, <1>9, <1>10, <2>1, <2>2, MisplaceMaps
<1>11. ASSUME r \notin misled
       PROVE  /\ Positions' = Positions
              /\ States' = States \/ (IsComplete(r) /\ States' = [States EXCEPT ![r] = "closed"])
              /\ HasTrueTotal(r)'
  <2>1. Position(r) = query[r].offset + Len(out[r])
    BY <1>11 DEF PageInv, RequestInv, OffsetInv
  <2>2. (r \notin misled)'
    BY <1>1, <1>11
  <2>3. HasTrueTotal(r)' /\ Position(r)' = query[r].offset + Len(out[r])
    BY <1>1, <2>2 DEF PageInv, RequestInv, OffsetInv
  <2>4. Position(r)' = Position(r)
    BY <2>1, <2>3
  <2> QED
    BY <1>8, <1>9, <2>3, <2>4 DEF Positions, IsComplete
<1>12. CASE r \notin misled /\ search[r].hasExactCount
  <2>1. metadata'[r].hasExactCount
    BY <1>1, <1>2, <1>12
  <2>2. metadata'[r].totalCount = Total(query[r].pattern)
    BY <1>1, <1>11, <1>12, <2>1, SamePage DEF HasTrueTotal
  <2>3. Totals' = [Totals EXCEPT ![r] = Total(query[r].pattern)]
    BY <1>6, <2>1, <2>2 DEF Totals
  <2> QED
    BY <1>1, <1>3, <1>5, <1>7, <1>11, <1>12, <2>3, AnnounceMaps
<1>13. CASE r \notin misled /\ ~search[r].hasExactCount
  <2>1. ~metadata'[r].hasExactCount
    BY <1>1, <1>2, <1>13
  <2>2. Totals' = Totals
    BY <1>4, <1>6, <2>1 DEF Totals, NoMetadata
  <2>3. CASE States' = States
    <3>1. UNCHANGED Promise!vars
      BY <1>1, <1>7, <1>11, <1>13, <2>2, <2>3, AbstractVars
         DEF AllMatches, Matches, States, Totals, Positions, Promise!vars
    <3> QED
      BY <3>1
  <2>4. CASE IsComplete(r) /\ States' = [States EXCEPT ![r] = "closed"]
    BY <1>1, <1>3, <1>5, <1>7, <1>11, <1>13, <2>2, <2>4, CloseMaps DEF IsFresh
  <2> QED
    BY <1>11, <1>13, <2>3, <2>4
<1> QED
  BY <1>10, <1>12, <1>13

\* The end of a sub-stream closes the stream, or goes unnoticed.
LEMMA CloseRefines ==
  ASSUME PageInv, PageInv', NEW r \in Requests, CloseDestination(r)
  PROVE  [Promise!Next]_(Promise!vars)
<1>1. /\ ~crashed /\ pc[r] = "stream"
      /\ pc' = pc \/ pc' = [pc EXCEPT ![r] = "closed"]
      /\ UNCHANGED <<size, available, crashed, query, search, out, metadata, misled>>
      /\ \A o \in Requests \ {r} : sub'[o] = sub[o]
  BY DEF CloseDestination, Running, Goto, contents, PageInv, TypeInv, TypeOK
<1>2. TypeInv /\ DOMAIN pc = Requests
  BY DEF PageInv, TypeInv, TypeOK
<1>3. query[r].pattern \in Patterns
  BY <1>1, <1>2, AcceptedTypes
<1>4. AllMatches' = AllMatches /\ Totals' = Totals /\ States[r] = "open"
  BY <1>1, SameMatches, SameTotals DEF States, State, Broken
<1>5. \A o \in Requests \ {r} : pc'[o] = pc[o]
  BY <1>1, <1>2
<1>6. Position(r)' = Position(r) /\ Positions' = Positions
  <2>1. Position(r)' = Position(r)
    BY CloseNext DEF PageInv
  <2> QED
    BY <1>1, <1>5, <2>1, SamePositions
<1>7. CASE pc' = pc
  <2>1. State(r)' = State(r)
    BY <1>1, <1>7 DEF State, Broken
  <2>2. States' = States
    BY <1>1, <1>7, <2>1, SameState
  <2> QED
    BY <1>1, <1>4, <1>6, <2>2, StutterMaps
<1>8. CASE pc' = [pc EXCEPT ![r] = "closed"]
  <2>1. pc'[r] = "closed"
    BY <1>2, <1>8
  <2>2. State(r)' = "closed"
    BY <2>1 DEF State
  <2>3. States' = [States EXCEPT ![r] = "closed"]
    BY <1>1, <1>5, <2>2, OwnState
  <2>4. IsComplete(r)'
    BY <2>1 DEF PageInv, RequestInv, PlaceInv
  <2>5. IsComplete(r)
    BY <1>1, <1>6, <2>4, SamePage DEF IsComplete
  <2> QED
    BY <1>1, <1>3, <1>4, <1>6, <2>3, <2>5, CloseMaps
<1> QED
  BY <1>1, <1>7, <1>8

\* The end of the process breaks off all open streams.
LEMMA ErrorRefines ==
  ASSUME PageInv, NEW r \in Requests, SubDatasourceError(r)
  PROVE  Promise!Next
<1>1. /\ crashed' = TRUE
      /\ UNCHANGED <<size, available, pc, query, search, sub, out, metadata, misled>>
  BY DEF SubDatasourceError, contents, requestVars
<1> DEFINE open == {o \in Requests : States[o] = "open"}
<1>2. States' = [o \in Requests |-> IF o \in open THEN "broken" ELSE States[o]]
  BY <1>1 DEF States, State, Broken
<1>3. AllMatches' = AllMatches /\ Totals' = Totals /\ Positions' = Positions
  BY <1>1, SameMatches, SameTotals, SamePosition, SamePositions
<1> QED
  BY <1>1, <1>2, <1>3, BreakMaps

\* Evictions, and steps of nobody, are invisible.
LEMMA OtherwiseRefines ==
  ASSUME PageInv, (\E k \in Keys : Evict(k)) \/ UNCHANGED vars
  PROVE  UNCHANGED Promise!vars
<1>1. UNCHANGED <<size, available, crashed, pc, query, search, sub, out, metadata, misled>>
  BY DEF Evict, vars, contents, requestVars
<1>2. States' = States
  BY <1>1 DEF States, State, Broken
<1>3. Positions' = Positions
  BY <1>1, SamePosition DEF Positions
<1> QED
  BY <1>1, <1>2, <1>3, SameMatches, StutterMaps

\* To the reader of its streams the composite datasource is one datasource that
\* holds the matches of its sub-datasources one after the other (the safety part
\* of IsConcatenation): what it announces, delivers and closes, and when.  A
\* wrong count from the cache can move the start of a later page, nothing else.
THEOREM ImplementsConcatenation == Spec => Promise!Spec
<1>1. Init => Promise!Init
  <2> SUFFICES ASSUME Init PROVE Promise!Init
    OBVIOUS
  <2>1. \A r \in Requests : Position(r) = 0
    BY DEF Init, Position, NoSub, NoQuery
  <2> QED
    BY <2>1 DEF Init, Promise!Init, Promise!Unknown, State, Broken, NoMetadata
<1>2. PageInv /\ PageInv' /\ [Next]_vars => [Promise!Next]_(Promise!vars)
  <2> SUFFICES ASSUME PageInv, PageInv', [Next]_vars PROVE [Promise!Next]_(Promise!vars)
    OBVIOUS
  <2> QED
    BY AcceptRefines, SelectRefines, WalkRefines, StartRefines, PushRefines, CloseRefines,
       ErrorRefines, OtherwiseRefines DEF Next, Progress
<1> QED
  BY <1>1, <1>2, PagesInvariant, PTL DEF Spec, Promise!Spec
=============================================================================
