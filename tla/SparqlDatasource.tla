-------------------------- MODULE SparqlDatasource --------------------------
(***************************************************************************)
(* The SPARQL datasource: each request sends a SELECT query for its quads  *)
(* and, unless the total is known or being counted, a COUNT query for its  *)
(* metadata.  The answers, errors and the timer of the two queries come in *)
(* any order.  Requests for the same pattern share the cache of totals and *)
(* the marks of the count queries under way.                               *)
(*                                                                         *)
(* A promise callback runs right after the event that settles its promise, *)
(* so both are one step.  An endpoint may answer anything, at any time: a  *)
(* number need not be the right one, as the text of an error with a digit  *)
(* in it is a number too.                                                  *)
(***************************************************************************)
EXTENDS Integers

CONSTANTS
  Requests,
  Patterns,        \* SPARQL patterns, the keys of the cache
  PatternOf,       \* what each request asks for
  Numbers,         \* what an endpoint may count
  CacheThreshold   \* only larger counts are cached (100000)

ASSUME SparqlAssumption ==
  /\ PatternOf \in [Requests -> Patterns]
  /\ Numbers \subseteq Nat
  /\ CacheThreshold \in Nat

VARIABLES
  up,         \* whether the process runs
  cache,      \* _countCache, NoNumber where it has no entry
  resolving,  \* _resolvingCountQueries
  stream,     \* per request: the stream of quads,
  error,      \* the error event of the stream, and whether it had a listener,
  count,      \* the count query of its own, if it needed one,
  settled,    \* whether the promise of its total is settled,
  metadata,   \* the metadata property of its stream
  answers     \* history: the numbers that count queries for a pattern returned

vars == <<up, cache, resolving, stream, error, count, settled, metadata, answers>>

NoNumber == -1
NoMetadata == [totalCount |-> NoNumber, hasExactCount |-> FALSE]
DefaultEstimate == [totalCount |-> 1000000000, hasExactCount |-> FALSE]
Exact(n) == [totalCount |-> n, hasExactCount |-> TRUE]

Init ==
  /\ up = TRUE
  /\ cache = [p \in Patterns |-> NoNumber]
  /\ resolving = {}
  /\ stream = [r \in Requests |-> "none"]
  /\ error = [r \in Requests |-> "none"]
  /\ count = [r \in Requests |-> "none"]
  /\ settled = [r \in Requests |-> FALSE]
  /\ metadata = [r \in Requests |-> NoMetadata]
  /\ answers = [p \in Patterns |-> {}]

-----------------------------------------------------------------------------
(* A new request.                                                          *)

\* The promise of the total is settled, and its callback sets the metadata.
Settle(r, total) ==
  /\ settled' = [settled EXCEPT ![r] = TRUE]
  /\ metadata' = [metadata EXCEPT ![r] = total]

\* Mutant: wait for the answer to the other request's query.
JoinCountAndWait(r) == UNCHANGED <<settled, metadata>>

\* The total is being counted for another request: use the default.
JoinCount(r) == Settle(r, DefaultEstimate)

\* _getPatternCount: from the cache, the default while the pattern is marked,
\* or by a new count query.
GetPatternCount(r, p) ==
  \/ /\ cache[p] # NoNumber
     /\ Settle(r, Exact(cache[p]))
     /\ UNCHANGED <<resolving, count>>
  \/ /\ cache[p] = NoNumber /\ p \in resolving
     /\ JoinCount(r)
     /\ UNCHANGED <<resolving, count>>
  \/ /\ cache[p] = NoNumber /\ p \notin resolving
     /\ resolving' = resolving \cup {p}
     /\ count' = [count EXCEPT ![r] = "open"]
     /\ UNCHANGED <<settled, metadata>>

ExecuteQuery(r) ==
  /\ stream[r] = "none"
  /\ stream' = [stream EXCEPT ![r] = "open"]
  /\ GetPatternCount(r, PatternOf[r])
  /\ UNCHANGED <<up, cache, error, answers>>

\* emitError: at most one error per stream.  A stream that has ended has
\* dropped its listener, so an error then is thrown in the callback of the
\* promise: it ends the process, or, in older versions of Node, nothing does.
EmitError(r) ==
  \/ /\ error[r] # "none"
     /\ UNCHANGED <<up, error>>
  \/ /\ error[r] = "none" /\ stream[r] # "ended"
     /\ error' = [error EXCEPT ![r] = "heard"]
     /\ UNCHANGED up
  \/ /\ error[r] = "none" /\ stream[r] = "ended"
     /\ error' = [error EXCEPT ![r] = "unheard"]
     /\ up' \in BOOLEAN

-----------------------------------------------------------------------------
(* The SELECT query.                                                       *)

Receiving(r) == stream[r] \in {"open", "errored"}

\* All quads are pushed at the end of the response, and the stream is closed.
SelectEnd(r) ==
  /\ Receiving(r)
  /\ stream' = [stream EXCEPT ![r] = "closed"]
  /\ UNCHANGED <<up, cache, resolving, error, count, settled, metadata, answers>>

\* The response is not JSON: the stream has an error and never closes.
SelectInvalid(r) ==
  /\ Receiving(r)
  /\ stream' = [stream EXCEPT ![r] = "failed"]
  /\ EmitError(r)
  /\ UNCHANGED <<cache, resolving, count, settled, metadata, answers>>

\* The response is JSON but not SPARQL results: reading "bindings" throws, in
\* a listener, outside of the try.
SelectMalformed(r) ==
  /\ Receiving(r)
  /\ up' = FALSE
  /\ UNCHANGED <<cache, resolving, stream, error, count, settled, metadata, answers>>

\* Mutant: a failed request is not reported.
SelectErrorIgnored(r) ==
  /\ Receiving(r)
  /\ stream' = [stream EXCEPT ![r] = "errored"]
  /\ UNCHANGED <<up, cache, resolving, error, count, settled, metadata, answers>>

\* The request fails.  One that is aborted in its response may still end later,
\* others do not.
SelectError(r) ==
  /\ Receiving(r)
  /\ stream' = [stream EXCEPT ![r] = "errored"]
  /\ EmitError(r)
  /\ UNCHANGED <<cache, resolving, count, settled, metadata, answers>>

\* The view has read all quads.
StreamEnds(r) ==
  /\ stream[r] = "closed"
  /\ stream' = [stream EXCEPT ![r] = "ended"]
  /\ UNCHANGED <<up, cache, resolving, error, count, settled, metadata, answers>>

-----------------------------------------------------------------------------
(* The COUNT query.                                                        *)

Counting(r) == count[r] \in {"open", "errored"}

\* Mutant: set the property without a promise in between.
ResolveAgain(r, total) == Settle(r, total)

\* resolve(): only the first call has an effect.
Resolve(r, total) ==
  IF settled[r] THEN UNCHANGED <<settled, metadata>> ELSE Settle(r, total)

\* Mutant: all patterns share one entry of the cache.
CacheUnderAnyPattern(p, n) ==
  cache' = IF n > CacheThreshold THEN [q \in Patterns |-> n] ELSE cache

CacheLarge(p, n) ==
  cache' = IF n > CacheThreshold THEN [cache EXCEPT ![p] = n] ELSE cache

\* The response ends, with a number in it.
CountNumber(r, n) ==
  LET p == PatternOf[r]
  IN  /\ Counting(r)
      /\ count' = [count EXCEPT ![r] = "ended"]
      /\ resolving' = resolving \ {p}
      /\ answers' = [answers EXCEPT ![p] = @ \cup {n}]
      /\ CacheLarge(p, n)
      /\ Resolve(r, Exact(n))
      /\ UNCHANGED <<up, stream, error>>

\* It ends without a number: reject(), whose callback is emitError.
CountRejected(r) ==
  /\ Counting(r)
  /\ count' = [count EXCEPT ![r] = "ended"]
  /\ resolving' = resolving \ {PatternOf[r]}
  /\ settled' = [settled EXCEPT ![r] = TRUE]
  /\ IF settled[r] THEN UNCHANGED <<up, error>> ELSE EmitError(r)
  /\ UNCHANGED <<cache, stream, metadata, answers>>

\* The request fails.  An aborted response may still end, others do not.
CountError(r) ==
  /\ count[r] = "open"
  /\ count' = [count EXCEPT ![r] = "errored"]
  /\ Resolve(r, DefaultEstimate)
  /\ UNCHANGED <<up, cache, resolving, stream, error, answers>>

\* Mutant: let others count after the time-out.
CountTimeoutUnmarks(r) ==
  /\ count[r] # "none" /\ ~settled[r]
  /\ resolving' = resolving \ {PatternOf[r]}
  /\ Resolve(r, DefaultEstimate)
  /\ UNCHANGED <<up, cache, stream, error, count, answers>>

\* The timer of 3 seconds.  (After the promise is settled it does nothing.)
CountTimeout(r) ==
  /\ count[r] # "none" /\ ~settled[r]
  /\ Resolve(r, DefaultEstimate)
  /\ UNCHANGED <<up, cache, resolving, stream, error, count, answers>>

\* Mutant: an expired entry counts as 0.
EvictToZero(p) ==
  /\ cache[p] # NoNumber
  /\ cache' = [cache EXCEPT ![p] = 0]
  /\ UNCHANGED <<up, resolving, stream, error, count, settled, metadata, answers>>

\* An entry leaves the cache: by its age of 3 hours, or as one of 1000.
Evict(p) ==
  /\ cache[p] # NoNumber
  /\ cache' = [cache EXCEPT ![p] = NoNumber]
  /\ UNCHANGED <<up, resolving, stream, error, count, settled, metadata, answers>>

-----------------------------------------------------------------------------

SelectEvent(r) == SelectEnd(r) \/ SelectInvalid(r) \/ SelectMalformed(r)
                    \/ SelectError(r) \/ StreamEnds(r)

CountEvent(r) == \/ \E n \in Numbers : CountNumber(r, n)
                 \/ CountRejected(r) \/ CountError(r) \/ CountTimeout(r)

Next ==
  /\ up
  /\ \/ \E r \in Requests : ExecuteQuery(r) \/ SelectEvent(r) \/ CountEvent(r)
     \/ \E p \in Patterns : Evict(p)

Spec == Init /\ [][Next]_vars

\* Timers run out.  Nothing is assumed of the endpoint.
FairSpec == Spec /\ \A r \in Requests : WF_vars(up /\ CountTimeout(r))

-----------------------------------------------------------------------------

Totals == {NoMetadata, DefaultEstimate} \cup {Exact(n) : n \in Numbers}

TypeOK ==
  /\ up \in BOOLEAN
  /\ cache \in [Patterns -> Numbers \cup {NoNumber}]
  /\ resolving \subseteq Patterns
  /\ stream \in [Requests -> {"none", "open", "errored", "failed", "closed", "ended"}]
  /\ error \in [Requests -> {"none", "heard", "unheard"}]
  /\ count \in [Requests -> {"none", "open", "errored", "ended"}]
  /\ settled \in [Requests -> BOOLEAN]
  /\ metadata \in [Requests -> Totals]
  /\ answers \in [Patterns -> SUBSET Numbers]

\* At most one count query is under way for a pattern, whatever timers, errors
\* and late answers do; a pattern is marked from the start of its count query
\* until the end of the response.
OneCountAtATime ==
  /\ \A r, q \in Requests :
       Counting(r) /\ Counting(q) /\ PatternOf[r] = PatternOf[q] => r = q
  /\ resolving = {PatternOf[r] : r \in {q \in Requests : Counting(q)}}

\* A total that is called exact is a number that the endpoint gave for that
\* very pattern: never a default, nor the total of another pattern.
ExactTotalsWereCounted ==
  \A r \in Requests : metadata[r].hasExactCount =>
    metadata[r].totalCount \in answers[PatternOf[r]]

\* A request whose SELECT query failed, or that will get no total, has an error.
FailuresAreReported ==
  \A r \in Requests :
    /\ stream[r] \in {"errored", "failed"} => error[r] # "none"
    /\ settled[r] /\ metadata[r] = NoMetadata => error[r] # "none"

\* Once a request has its total, what its count query does changes neither
\* this total nor makes the request fail.
LateAnswersAreHarmless ==
  [][\A r \in Requests : metadata[r] # NoMetadata =>
       /\ metadata'[r] = metadata[r]
       /\ count'[r] # count[r] => error'[r] = error[r]]_vars

\* Every request gets a total or an error in time, even from an endpoint that
\* never answers, unless the process ends first.
EveryRequestGetsTotal ==
  \A r \in Requests :
    stream[r] # "none" ~> metadata[r] # NoMetadata \/ error[r] # "none" \/ ~up

\* Violated.  "Immediately return the fallback URL if a count is already going
\* on" (SparqlDatasource.ts:105): a count query that has failed leaves its mark
\* behind, and a later request gets the fallback with no count going on.
FallbackMeansCounting ==
  [][\A r \in Requests : stream[r] = "none" /\ metadata'[r] = DefaultEstimate =>
       \E q \in Requests : PatternOf[q] = PatternOf[r] /\ count[q] = "open"]_vars
=============================================================================
