------------------------ MODULE CompositeDatasource ------------------------
(***************************************************************************)
(* The composite datasource of packages/datasource-composite: one paged    *)
(* query is answered from a list of sub-datasources, as if their matching  *)
(* quads stood one after the other.                                        *)
(*                                                                         *)
(* A request first walks over all sub-datasources (findRecursive) to learn *)
(* in which of them the page starts and how many quads match in total,     *)
(* then streams from that one and, each time a sub-stream ends before the  *)
(* page is full, from the next.  Every step here is one callback: between  *)
(* two steps of a request any other request may take its own, and all      *)
(* requests share the count cache of the datasource.                       *)
(*                                                                         *)
(* The key of a cached count (line 67) is made of String(term) of the four *)
(* terms of the pattern: "[object Object]" for a term that is bound and    *)
(* "undefined" for one that is not.  All patterns with the same bound      *)
(* positions therefore share one entry, as do all sub-datasources, and a   *)
(* request may be given the count of another pattern or of another         *)
(* sub-datasource.  The history variable misled keeps the requests that    *)
(* were given a wrong one: what is promised to them is less.               *)
(*                                                                         *)
(* Abstractions.  A quad is the pair <<d, i>>: the i-th match in           *)
(* sub-datasource d.  A pattern stands for subject, predicate, object and  *)
(* graph together.  An unlimited page ("|| Infinity") is a large limit.    *)
(***************************************************************************)
EXTENDS Integers, Sequences, FiniteSets

CONSTANTS
  N,               \* number of sub-datasources, named 0 .. N-1 in order
  Requests,        \* the select() calls on the composite datasource
  Patterns,        \* quad patterns
  GraphPatterns,   \* the patterns that name a graph
  TripleOnly,      \* sub-datasources without the quadPattern feature
  Availability,    \* the sets of sub-datasources that may have initialized
  Estimating,      \* sub-datasources that may reply with an estimated count
  Failing,         \* sub-datasources that may emit an error on a stream
  MaxSize,         \* most matches of a pattern in one sub-datasource
  Contents,        \* the numbers of matches per pattern and sub-datasource
  Estimates,       \* the estimated counts a sub-datasource may give
  MaxOffset, Limits,
  CacheThreshold,  \* counts above it are cached (1000 in the code)
  CacheKey         \* CacheKey[p]: the key of p, its set of bound positions

Sources == 0 .. N - 1
Keys == {CacheKey[p] : p \in Patterns}
Queries == [pattern : Patterns, offset : 0 .. MaxOffset, limit : Limits]

ASSUME SourcesAssumption ==
  /\ N \in Nat /\ MaxSize \in Nat /\ MaxOffset \in Nat
  /\ Contents \subseteq [Patterns -> [Sources -> 0 .. MaxSize]]
  /\ Availability \subseteq SUBSET Sources
ASSUME QueryAssumption == /\ Limits \subseteq Nat \ {0}
                          /\ CacheThreshold \in Nat
                          /\ Estimates \subseteq Nat

VARIABLES
  size,      \* size[p][d]: the matches of pattern p in sub-datasource d
  available, \* the sub-datasources whose initialization succeeded
  cache,     \* this._countCache: a count per key, 0 when there is none
  pc,        \* pc[r]: what request r waits for
  query,     \* query[r]: the query of request r
  search,    \* search[r]: the arguments of findRecursive
  sub,       \* sub[r]: the sub-query whose results are being piped
  out,       \* out[r]: the quads pushed to the destination
  metadata,  \* metadata[r]: the metadata property of the destination
  misled,    \* history: the requests that took a cached count that is not the
             \* number of matches of their sub-datasource
  crashed    \* an 'error' event without a listener ended the process

requestVars == <<pc, query, search, sub, out, metadata>>
contents == <<size, available>>
vars == <<contents, cache, requestVars, misled, crashed>>

-----------------------------------------------------------------------------
(* What a sub-datasource offers.                                           *)

\* The third disjunct of the code compares two distinct term objects by
\* identity, so a triple-only source never matches a query with a graph.
HasDatasourceMatchingGraph(d, p) == p \notin GraphPatterns \/ d \notin TripleOnly

\* Mutant: forget that triple-only sources have no named graphs.
NextMatchingAny(i, p) == IF i < N THEN i ELSE N

\* The first sub-datasource from index i on that is not skipped, or N.
NextMatching(i, p) ==
  LET later == {d \in Sources : d >= i /\ HasDatasourceMatchingGraph(d, p)}
  IN  IF later = {} THEN N ELSE CHOOSE d \in later : \A e \in later : d <= e

\* A query is accepted as soon as one sub-datasource can evaluate it.
SupportsQuery(p) == \E d \in available : HasDatasourceMatchingGraph(d, p)

\* The metadata replies of sub-datasource d.  An estimate may be wrong, but
\* is positive when there are matches: HDT raises it above the number of
\* triples found and SPARQL falls back to 1e9.  A count that is called exact is
\* the number of matches: what this promises rests on sub-datasources that tell
\* the truth, which a SPARQL endpoint need not.
Replies(d, p) ==
  {[totalCount |-> size[p][d], hasExactCount |-> TRUE]} \cup
  {[totalCount |-> e, hasExactCount |-> FALSE] :
     e \in {x \in Estimates : d \in Estimating /\ (size[p][d] > 0 => x > 0)}}

-----------------------------------------------------------------------------
NoQuery == [pattern |-> CHOOSE p \in Patterns : TRUE, offset |-> 0, limit |-> 0]
NoMetadata == [totalCount |-> -1, hasExactCount |-> FALSE]
NoSub == [index |-> -1, offset |-> 0, limit |-> 0, sent |-> 0]

StartSearch(q) ==
  [datasourceIndex |-> NextMatching(0, q.pattern), offset |-> q.offset,
   chosenDatasource |-> -1, chosenOffset |-> -1,
   totalCount |-> 0, hasExactCount |-> TRUE]

Init ==
  /\ size \in Contents
  /\ available \in Availability
  /\ cache = [k \in Keys |-> 0]
  /\ pc = [r \in Requests |-> "idle"]
  /\ query = [r \in Requests |-> NoQuery]
  /\ search = [r \in Requests |-> StartSearch(NoQuery)]
  /\ sub = [r \in Requests |-> NoSub]
  /\ out = [r \in Requests |-> << >>]
  /\ metadata = [r \in Requests |-> NoMetadata]
  /\ misled = {}
  /\ crashed = FALSE

Running(r, state) == ~crashed /\ pc[r] = state
Goto(r, state) == pc' = [pc EXCEPT ![r] = state]

\* _executeQuery: start the walk over the sub-datasources.
ExecuteQuery(r, q) ==
  /\ Running(r, "idle")
  /\ SupportsQuery(q.pattern)
  /\ query' = [query EXCEPT ![r] = q]
  /\ search' = [search EXCEPT ![r] = StartSearch(q)]
  /\ Goto(r, "find")
  /\ UNCHANGED <<contents, cache, sub, out, metadata, misled, crashed>>

\* findRecursive at a sub-datasource: ask for its metadata with a query for
\* one quad.  One that never initialized returns an empty stream, on which
\* the metadata property is never set.
SelectMetadata(r) ==
  /\ Running(r, "find")
  /\ search[r].datasourceIndex < N
  /\ Goto(r, "metadata")
  /\ UNCHANGED <<contents, cache, query, search, sub, out, metadata, misled, crashed>>

\* Mutant: choose again at each later sub-datasource that reaches the offset.
ContinueRecursionRechoosing(r, count, exact) ==
  LET s == search[r]
      choose == s.offset < count
  IN  /\ search' = [search EXCEPT ![r] =
            [datasourceIndex |-> NextMatching(s.datasourceIndex + 1, query[r].pattern),
             offset |-> s.offset - count,
             chosenDatasource |-> IF choose THEN s.datasourceIndex ELSE s.chosenDatasource,
             chosenOffset |-> IF choose THEN s.offset ELSE s.chosenOffset,
             totalCount |-> s.totalCount + count,
             hasExactCount |-> s.hasExactCount /\ exact]]
      /\ Goto(r, "find")

\* Mutant: call the total exact when the last count is.
ContinueRecursionLastExact(r, count, exact) ==
  LET s == search[r]
      choose == s.chosenDatasource < 0 /\ s.offset < count
  IN  /\ search' = [search EXCEPT ![r] =
            [datasourceIndex |-> NextMatching(s.datasourceIndex + 1, query[r].pattern),
             offset |-> s.offset - count,
             chosenDatasource |-> IF choose THEN s.datasourceIndex ELSE s.chosenDatasource,
             chosenOffset |-> IF choose THEN s.offset ELSE s.chosenOffset,
             totalCount |-> s.totalCount + count,
             hasExactCount |-> exact]]
      /\ Goto(r, "find")

\* continueRecursion: account for count and go to the next sub-datasource.
ContinueRecursion(r, count, exact) ==
  LET s == search[r]
      choose == s.chosenDatasource < 0 /\ s.offset < count
  IN  /\ search' = [search EXCEPT ![r] =
            [datasourceIndex |-> NextMatching(s.datasourceIndex + 1, query[r].pattern),
             offset |-> s.offset - count,
             chosenDatasource |-> IF choose THEN s.datasourceIndex ELSE s.chosenDatasource,
             chosenOffset |-> IF choose THEN s.offset ELSE s.chosenOffset,
             totalCount |-> s.totalCount + count,
             hasExactCount |-> s.hasExactCount /\ exact]]
      /\ Goto(r, "find")

\* Mutant: off by one in the test for a remaining offset.
NeedsExactCountLate(r, reply) == search[r].offset > 1 /\ ~reply.hasExactCount

NeedsExactCount(r, reply) == search[r].offset > 0 /\ ~reply.hasExactCount

\* The metadata arrives and its count is good enough.
ReceiveMetadata(r) ==
  /\ Running(r, "metadata")
  /\ search[r].datasourceIndex \in available
  /\ \E reply \in Replies(search[r].datasourceIndex, query[r].pattern) :
       /\ ~NeedsExactCount(r, reply)
       /\ ContinueRecursion(r, reply.totalCount, reply.hasExactCount)
  /\ UNCHANGED <<contents, cache, query, sub, out, metadata, misled, crashed>>

\* The page may start after this sub-datasource, whose count is only
\* estimated: _getExactCount takes the cached count when there is one,
\* whatever pattern and sub-datasource it was counted for ...
UseCachedCount(r) ==
  LET count == cache[CacheKey[query[r].pattern]]
      matches == size[query[r].pattern][search[r].datasourceIndex]
  IN  /\ Running(r, "metadata")
      /\ search[r].datasourceIndex \in available
      /\ \E reply \in Replies(search[r].datasourceIndex, query[r].pattern) :
           NeedsExactCount(r, reply)
      /\ count # 0
      /\ ContinueRecursion(r, count, TRUE)
      /\ misled' = IF count = matches THEN misled ELSE misled \cup {r}
      /\ UNCHANGED <<contents, cache, query, sub, out, metadata, crashed>>

\* ... and otherwise selects all matches, to count them.
StartCount(r) ==
  /\ Running(r, "metadata")
  /\ search[r].datasourceIndex \in available
  /\ \E reply \in Replies(search[r].datasourceIndex, query[r].pattern) :
       NeedsExactCount(r, reply)
  /\ cache[CacheKey[query[r].pattern]] = 0
  /\ Goto(r, "count")
  /\ UNCHANGED <<contents, cache, query, search, sub, out, metadata, misled, crashed>>

\* All matches have been counted; a large count is cached.
FinishCount(r) ==
  LET count == size[query[r].pattern][search[r].datasourceIndex]
  IN  /\ Running(r, "count")
      /\ cache' = IF count > CacheThreshold
                    THEN [cache EXCEPT ![CacheKey[query[r].pattern]] = count]
                    ELSE cache
      /\ ContinueRecursion(r, count, TRUE)
      /\ UNCHANGED <<contents, query, sub, out, metadata, misled, crashed>>

\* Mutant: the metadata is only set when there are no results.
StartResultsSilently(r) ==
  LET s == search[r]
  IN  /\ Running(r, "find")
      /\ s.datasourceIndex >= N
      /\ IF s.chosenDatasource < 0
           THEN /\ Goto(r, "closed")
                /\ metadata' = [metadata EXCEPT ![r] =
                     [totalCount |-> s.totalCount, hasExactCount |-> s.hasExactCount]]
                /\ UNCHANGED sub
           ELSE /\ Goto(r, "stream")
                /\ sub' = [sub EXCEPT ![r] =
                     [index |-> s.chosenDatasource, offset |-> s.chosenOffset,
                      limit |-> query[r].limit, sent |-> 0]]
                /\ UNCHANGED metadata
      /\ UNCHANGED <<contents, cache, query, search, out, misled, crashed>>

\* The callback of _getDatasourceInfo: all sub-datasources have been
\* visited.  Set the metadata, then close or query the chosen one.
StartResults(r) ==
  LET s == search[r]
  IN  /\ Running(r, "find")
      /\ s.datasourceIndex >= N
      /\ metadata' = [metadata EXCEPT ![r] =
            [totalCount |-> s.totalCount, hasExactCount |-> s.hasExactCount]]
      /\ IF s.chosenDatasource < 0
           THEN Goto(r, "closed") /\ UNCHANGED sub
           ELSE /\ Goto(r, "stream")
                /\ sub' = [sub EXCEPT ![r] =
                     [index |-> s.chosenDatasource, offset |-> s.chosenOffset,
                      limit |-> query[r].limit, sent |-> 0]]
      /\ UNCHANGED <<contents, cache, query, search, out, misled, crashed>>

\* Whether the current sub-query of r still has a quad to deliver.
HasNext(r) == /\ sub[r].sent < sub[r].limit
              /\ sub[r].offset + sub[r].sent < size[query[r].pattern][sub[r].index]

\* pushToDestination: a quad of the current sub-stream arrives.
PushToDestination(r) ==
  /\ Running(r, "stream")
  /\ HasNext(r)
  /\ out' = [out EXCEPT ![r] =
       Append(@, <<sub[r].index, sub[r].offset + sub[r].sent + 1>>)]
  /\ sub' = [sub EXCEPT ![r].sent = @ + 1]
  /\ UNCHANGED <<contents, cache, pc, query, search, metadata, misled, crashed>>

\* Mutant: later sub-queries get the limit of the whole page.
CloseDestinationFullLimit(r) ==
  LET next == NextMatching(sub[r].index + 1, query[r].pattern)
  IN  /\ Running(r, "stream")
      /\ ~HasNext(r)
      /\ IF Len(out[r]) < query[r].limit /\ next < N
           THEN /\ sub' = [sub EXCEPT ![r] = [index |-> next, offset |-> 0,
                             limit |-> query[r].limit, sent |-> 0]]
                /\ UNCHANGED pc
           ELSE Goto(r, "closed") /\ UNCHANGED sub
      /\ UNCHANGED <<contents, cache, query, search, out, metadata, misled, crashed>>

\* Mutant: the destination only closes when the page is full.
CloseDestinationWhenFull(r) ==
  LET next == NextMatching(sub[r].index + 1, query[r].pattern)
      emitted == Len(out[r])
  IN  /\ Running(r, "stream")
      /\ ~HasNext(r)
      /\ \/ /\ emitted < query[r].limit /\ next < N
            /\ sub' = [sub EXCEPT ![r] = [index |-> next, offset |-> 0,
                             limit |-> query[r].limit - emitted, sent |-> 0]]
            /\ UNCHANGED pc
         \/ emitted = query[r].limit /\ Goto(r, "closed") /\ UNCHANGED sub
      /\ UNCHANGED <<contents, cache, query, search, out, metadata, misled, crashed>>

\* closeDestination: the current sub-stream has ended.  Fill the rest of
\* the page from the next sub-datasource, or close the destination.
CloseDestination(r) ==
  LET next == NextMatching(sub[r].index + 1, query[r].pattern)
      emitted == Len(out[r])
  IN  /\ Running(r, "stream")
      /\ ~HasNext(r)
      /\ IF emitted < query[r].limit /\ next < N
           THEN /\ sub' = [sub EXCEPT ![r] = [index |-> next, offset |-> 0,
                             limit |-> query[r].limit - emitted, sent |-> 0]]
                /\ UNCHANGED pc
           ELSE Goto(r, "closed") /\ UNCHANGED sub
      /\ UNCHANGED <<contents, cache, query, search, out, metadata, misled, crashed>>

\* No stream of a sub-datasource has an 'error' listener: the event throws
\* outside of any handler and takes the worker process down.
SubDatasourceError(r) ==
  /\ ~crashed
  /\ \/ pc[r] \in {"metadata", "count"} /\ search[r].datasourceIndex \in Failing
     \/ pc[r] = "stream" /\ sub[r].index \in Failing
  /\ crashed' = TRUE
  /\ UNCHANGED <<contents, cache, requestVars, misled>>

\* The LRU cache drops an entry because of its age or the number of entries.
Evict(k) ==
  /\ ~crashed
  /\ cache[k] # 0
  /\ cache' = [cache EXCEPT ![k] = 0]
  /\ UNCHANGED <<contents, requestVars, misled, crashed>>

Progress(r) ==
  \/ SelectMetadata(r)
  \/ ReceiveMetadata(r)
  \/ UseCachedCount(r)
  \/ StartCount(r)
  \/ FinishCount(r)
  \/ StartResults(r)
  \/ PushToDestination(r)
  \/ CloseDestination(r)

Next ==
  \/ \E r \in Requests, q \in Queries : ExecuteQuery(r, q)
  \/ \E r \in Requests : Progress(r)
  \/ \E r \in Requests : SubDatasourceError(r)
  \/ \E k \in Keys : Evict(k)

Spec == Init /\ [][Next]_vars

\* The event loop runs every callback whose event has happened.
FairSpec == Spec /\ \A r \in Requests : WF_vars(Progress(r))

-----------------------------------------------------------------------------
(* What the composite datasource promises.                                 *)

\* The quads that come before sub-datasource d in the concatenation.
Preceding(d, p) ==
  {m \in Sources \X (1 .. MaxSize) :
     m[1] < d /\ HasDatasourceMatchingGraph(m[1], p) /\ m[2] <= size[p][m[1]]}

Start(d, p) == Cardinality(Preceding(d, p))
Total(p) == Start(N, p)

\* The types of the records.
SearchState == [datasourceIndex : 0 .. N, offset : Int, chosenDatasource : -1 .. N - 1,
                chosenOffset : Int, totalCount : Nat, hasExactCount : BOOLEAN]
SubQuery == [index : -1 .. N - 1, offset : Nat, limit : Nat, sent : Nat]
Metadata == [totalCount : Nat, hasExactCount : BOOLEAN]
Quads == Sources \X (Nat \ {0})

TypeOK ==
  /\ size \in Contents
  /\ available \in Availability
  /\ cache \in [Keys -> Nat]
  /\ pc \in [Requests -> {"idle", "find", "metadata", "count", "stream", "closed"}]
  /\ query \in [Requests -> Queries \cup {NoQuery}]
  /\ search \in [Requests -> SearchState]
  /\ sub \in [Requests -> SubQuery]
  /\ out \in [Requests -> Seq(Quads)]
  /\ metadata \in [Requests -> Metadata \cup {NoMetadata}]
  /\ misled \subseteq Requests
  /\ crashed \in BOOLEAN

\* The place in the concatenation of the k-th quad of the page of r, from 1 on.
Place(r, k) == Start(out[r][k][1], query[r].pattern) + out[r][k][2]

\* The number of quads of the concatenation before the page of r: the requested
\* offset, but for a request that was given a wrong count.
From(r) == IF r \in misled THEN Place(r, 1) - 1 ELSE query[r].offset

IsSliceFrom(r, from) ==
  \A k \in DOMAIN out[r] :
    /\ HasDatasourceMatchingGraph(out[r][k][1], query[r].pattern)
    /\ Place(r, k) = from + k

\* Every page, a misled one too, is a contiguous run of the concatenation of the
\* matching sub-datasources: no gap, no repetition, and no quad of a skipped
\* one.  It starts at the requested offset, whatever estimates the walk relied
\* on, unless a wrong count was read from the cache.
PageIsSlice == \A r \in Requests : IsSliceFrom(r, From(r))

\* What line 64 says of the counts, "Count the quads in the query result to get
\* an exact count", carried to the pages: all of them start at their offset.
EveryPageIsSlice == \A r \in Requests : IsSliceFrom(r, query[r].offset)

FillsFrom(r, from) ==
  pc[r] = "closed" =>
    \/ Len(out[r]) = query[r].limit
    \/ /\ Len(out[r]) < query[r].limit
       /\ from + Len(out[r]) >= Total(query[r].pattern)

\* A stream that closed delivered all of its page: either the limit is
\* reached or the concatenation is exhausted.  A misled page may be empty, but
\* one that has quads goes on until it is full or the concatenation ends.
ClosedPageIsFull ==
  \A r \in Requests : (r \in misled => out[r] # << >>) => FillsFrom(r, From(r))

HasTrueTotal(r) ==
  metadata[r].hasExactCount => metadata[r].totalCount = Total(query[r].pattern)

\* A total announced as exact is the size of the concatenation, unless a wrong
\* count from the cache went into it.
ExactTotalIsTrue == \A r \in Requests \ misled : HasTrueTotal(r)

\* Consumers see the metadata before the first quad, it never changes, and
\* nothing is pushed once the stream has closed.
StreamProtocol ==
  [][\A r \in Requests :
       /\ metadata[r] # NoMetadata => metadata'[r] = metadata[r]
       /\ out'[r] # out[r] => metadata[r] # NoMetadata /\ pc[r] = "stream"
       /\ pc[r] = "closed" => UNCHANGED <<pc[r], out[r]>>]_vars

\* A request that can go no further: the process has ended, or it waits for
\* metadata that a sub-datasource which is down never sets.
Broken(r) == \/ crashed
             \/ pc[r] = "metadata" /\ search[r].datasourceIndex \notin available

\* Every accepted query is answered, its stream closes, unless its walk meets
\* a sub-datasource that is down or a sub-query fails and ends the process.
EveryQueryCloses ==
  \A r \in Requests : pc[r] = "find" ~> pc[r] = "closed" \/ Broken(r)
=============================================================================
