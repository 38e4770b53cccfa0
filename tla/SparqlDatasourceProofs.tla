----------------------- MODULE SparqlDatasourceProofs -----------------------
(***************************************************************************)
(* Theorems about the SPARQL datasource, for every number of requests,     *)
(* patterns and counts.                                                    *)
(***************************************************************************)
EXTENDS SparqlDatasource, TLAPS

(* The four kinds of totals differ.                                        *)
LEMMA TotalsDiffer ==
  /\ NoMetadata # DefaultEstimate
  /\ ~NoMetadata.hasExactCount /\ ~DefaultEstimate.hasExactCount
  /\ \A n : /\ Exact(n) # NoMetadata
            /\ Exact(n).hasExactCount /\ Exact(n).totalCount = n
BY DEF NoMetadata, DefaultEstimate, Exact, NoNumber

-----------------------------------------------------------------------------
(* Types.                                                                  *)

LEMMA TypeInit == Init => TypeOK
BY DEF Init, TypeOK, Totals

LEMMA TypeExecute ==
  ASSUME TypeOK, NEW r \in Requests, ExecuteQuery(r)
  PROVE  TypeOK'
<1> USE SparqlAssumption
<1>p. PatternOf[r] \in Patterns
  OBVIOUS
<1>1. /\ up' \in BOOLEAN
      /\ cache' \in [Patterns -> Numbers \cup {NoNumber}]
      /\ stream' \in [Requests -> {"none", "open", "errored", "failed", "closed", "ended"}]
      /\ error' \in [Requests -> {"none", "heard", "unheard"}]
      /\ answers' \in [Patterns -> SUBSET Numbers]
  BY DEF TypeOK, ExecuteQuery
<1>2. CASE cache[PatternOf[r]] # NoNumber /\ Settle(r, Exact(cache[PatternOf[r]]))
             /\ UNCHANGED <<resolving, count>>
  <2>1. Exact(cache[PatternOf[r]]) \in Totals
    BY <1>2, <1>p DEF TypeOK, Totals
  <2> QED
    BY <1>1, <1>2, <2>1 DEF TypeOK, Settle
<1>3. CASE JoinCount(r) /\ UNCHANGED <<resolving, count>>
  <2>1. DefaultEstimate \in Totals
    BY DEF Totals
  <2> QED
    BY <1>1, <1>3, <2>1 DEF TypeOK, JoinCount, Settle
<1>4. CASE /\ resolving' = resolving \cup {PatternOf[r]}
           /\ count' = [count EXCEPT ![r] = "open"]
           /\ UNCHANGED <<settled, metadata>>
  BY <1>1, <1>4, <1>p DEF TypeOK
<1> QED
  BY <1>2, <1>3, <1>4 DEF ExecuteQuery, GetPatternCount

LEMMA TypeSelect ==
  ASSUME TypeOK, NEW r \in Requests, SelectEvent(r)
  PROVE  TypeOK'
<1>1. /\ up' \in BOOLEAN
      /\ stream' \in [Requests -> {"none", "open", "errored", "failed", "closed", "ended"}]
      /\ error' \in [Requests -> {"none", "heard", "unheard"}]
  BY DEF TypeOK, SelectEvent, SelectEnd, SelectInvalid, SelectMalformed, SelectError,
         StreamEnds, EmitError
<1>2. UNCHANGED <<cache, resolving, count, settled, metadata, answers>>
  BY DEF SelectEvent, SelectEnd, SelectInvalid, SelectMalformed, SelectError, StreamEnds
<1> QED
  BY <1>1, <1>2 DEF TypeOK

LEMMA TypeResolve ==
  ASSUME TypeOK, NEW r \in Requests, NEW total \in Totals, Resolve(r, total)
  PROVE  settled' \in [Requests -> BOOLEAN] /\ metadata' \in [Requests -> Totals]
BY DEF TypeOK, Resolve, Settle

LEMMA TypeCount ==
  ASSUME TypeOK, NEW r \in Requests, CountEvent(r)
  PROVE  TypeOK'
<1> USE SparqlAssumption
<1>p. PatternOf[r] \in Patterns
  OBVIOUS
<1>d. DefaultEstimate \in Totals
  BY DEF Totals
<1>1. ASSUME NEW n \in Numbers, CountNumber(r, n)
      PROVE  TypeOK'
  <2>1. Exact(n) \in Totals
    BY DEF Totals
  <2>2. settled' \in [Requests -> BOOLEAN] /\ metadata' \in [Requests -> Totals]
    BY <1>1, <2>1, TypeResolve DEF CountNumber
  <2>3. cache' \in [Patterns -> Numbers \cup {NoNumber}]
    BY <1>1 DEF TypeOK, CountNumber, CacheLarge
  <2>4. answers' \in [Patterns -> SUBSET Numbers]
    BY <1>1, <1>p DEF TypeOK, CountNumber
  <2>5. /\ count' \in [Requests -> {"none", "open", "errored", "ended"}]
        /\ resolving' \subseteq Patterns
        /\ UNCHANGED <<up, stream, error>>
    BY <1>1 DEF TypeOK, CountNumber
  <2> QED
    BY <2>2, <2>3, <2>4, <2>5 DEF TypeOK
<1>2. CASE CountRejected(r)
  <2>1. up' \in BOOLEAN /\ error' \in [Requests -> {"none", "heard", "unheard"}]
    BY <1>2 DEF TypeOK, CountRejected, EmitError
  <2>2. /\ count' \in [Requests -> {"none", "open", "errored", "ended"}]
        /\ resolving' \subseteq Patterns
        /\ settled' \in [Requests -> BOOLEAN]
        /\ UNCHANGED <<cache, stream, metadata, answers>>
    BY <1>2 DEF TypeOK, CountRejected
  <2> QED
    BY <2>1, <2>2 DEF TypeOK
<1>3. CASE CountError(r)
  BY <1>3, <1>d, TypeResolve DEF TypeOK, CountError
<1>4. CASE CountTimeout(r)
  BY <1>4, <1>d, TypeResolve DEF TypeOK, CountTimeout
<1> QED
  BY <1>1, <1>2, <1>3, <1>4 DEF CountEvent

LEMMA TypeStep == TypeOK /\ [Next]_vars => TypeOK'
<1> SUFFICES ASSUME TypeOK, [Next]_vars
             PROVE  TypeOK'
  OBVIOUS
<1>1. ASSUME NEW p \in Patterns, Evict(p)
      PROVE  TypeOK'
  BY <1>1 DEF TypeOK, Evict
<1>2. CASE UNCHANGED vars
  BY <1>2 DEF TypeOK, vars
<1> QED
  BY <1>1, <1>2, TypeExecute, TypeSelect, TypeCount DEF Next

(* The state of a SPARQL datasource keeps its types.                       *)
THEOREM TypeCorrect == Spec => []TypeOK
  BY TypeInit, TypeStep, PTL DEF Spec

-----------------------------------------------------------------------------
(* One count query at a time.  The set of marked patterns is easier to use *)
(* by its members.                                                         *)

Marked(p) == \E r \in Requests : Counting(r) /\ PatternOf[r] = p

MarksAreCounts ==
  /\ \A r, q \in Requests :
       Counting(r) /\ Counting(q) /\ PatternOf[r] = PatternOf[q] => r = q
  /\ \A p \in Patterns : p \in resolving <=> Marked(p)

LEMMA MarksByMembers ==
  TypeOK => (MarksAreCounts <=> OneCountAtATime)
<1> USE SparqlAssumption
<1>1. ASSUME TypeOK
      PROVE  (\A p \in Patterns : p \in resolving <=> Marked(p))
               <=> resolving = {PatternOf[r] : r \in {q \in Requests : Counting(q)}}
  BY <1>1 DEF TypeOK, Marked
<1> QED
  BY <1>1 DEF MarksAreCounts, OneCountAtATime

LEMMA MarksInit == Init => MarksAreCounts
BY DEF Init, MarksAreCounts, Marked, Counting

(* A step that leaves the marks alone keeps everyone counting or not.      *)
LEMMA MarksUntouched ==
  ASSUME MarksAreCounts, resolving' = resolving,
         \A r \in Requests : Counting(r)' <=> Counting(r)
  PROVE  MarksAreCounts'
BY DEF MarksAreCounts, Marked

LEMMA MarksStart ==
  ASSUME TypeOK, MarksAreCounts, NEW r \in Requests,
         PatternOf[r] \notin resolving,
         resolving' = resolving \cup {PatternOf[r]},
         count' = [count EXCEPT ![r] = "open"]
  PROVE  MarksAreCounts'
<1> USE SparqlAssumption
<1>1. Counting(r)' /\ \A q \in Requests \ {r} : Counting(q)' <=> Counting(q)
  BY DEF TypeOK, Counting
<1>2. \A q \in Requests \ {r} : Counting(q) => PatternOf[q] # PatternOf[r]
  BY DEF MarksAreCounts, Marked
<1> QED
  BY <1>1, <1>2 DEF MarksAreCounts, Marked

LEMMA MarksEnd ==
  ASSUME TypeOK, MarksAreCounts, NEW r \in Requests, Counting(r),
         resolving' = resolving \ {PatternOf[r]},
         count' = [count EXCEPT ![r] = "ended"]
  PROVE  MarksAreCounts'
<1> USE SparqlAssumption
<1>1. ~Counting(r)' /\ \A q \in Requests \ {r} : Counting(q)' <=> Counting(q)
  BY DEF TypeOK, Counting
<1>2. \A q \in Requests \ {r} : Counting(q) => PatternOf[q] # PatternOf[r]
  BY DEF MarksAreCounts
<1> QED
  BY <1>1, <1>2 DEF MarksAreCounts, Marked

LEMMA MarksStep == TypeOK /\ MarksAreCounts /\ [Next]_vars => MarksAreCounts'
<1> SUFFICES ASSUME TypeOK, MarksAreCounts, [Next]_vars
             PROVE  MarksAreCounts'
  OBVIOUS
<1> DEFINE Same == UNCHANGED <<resolving, count>>
<1>0. Same => MarksAreCounts'
  BY MarksUntouched DEF Counting
<1>1. ASSUME NEW r \in Requests, ExecuteQuery(r)
      PROVE  MarksAreCounts'
  <2>1. \/ Same
        \/ /\ PatternOf[r] \notin resolving
           /\ resolving' = resolving \cup {PatternOf[r]}
           /\ count' = [count EXCEPT ![r] = "open"]
    BY <1>1 DEF ExecuteQuery, GetPatternCount
  <2> QED
    BY <2>1, <1>0, MarksStart
<1>2. ASSUME NEW r \in Requests, SelectEvent(r)
      PROVE  MarksAreCounts'
  BY <1>0, <1>2 DEF SelectEvent, SelectEnd, SelectInvalid, SelectMalformed, SelectError,
                    StreamEnds
<1>3. ASSUME NEW r \in Requests, CountEvent(r)
      PROVE  MarksAreCounts'
  <2>1. ASSUME NEW n \in Numbers, CountNumber(r, n)
        PROVE  MarksAreCounts'
    BY <2>1, MarksEnd DEF CountNumber
  <2>2. CASE CountRejected(r)
    BY <2>2, MarksEnd DEF CountRejected
  <2>3. CASE CountError(r)
    <3>1. resolving' = resolving /\ \A q \in Requests : Counting(q)' <=> Counting(q)
      BY <2>3 DEF TypeOK, CountError, Counting
    <3> QED
      BY <3>1, MarksUntouched
  <2>4. CASE CountTimeout(r)
    BY <2>4, <1>0 DEF CountTimeout
  <2> QED
    BY <1>3, <2>1, <2>2, <2>3, <2>4 DEF CountEvent
<1>4. ASSUME NEW p \in Patterns, Evict(p)
      PROVE  MarksAreCounts'
  BY <1>0, <1>4 DEF Evict
<1>5. CASE UNCHANGED vars
  BY <1>0, <1>5 DEF vars
<1> QED
  BY <1>1, <1>2, <1>3, <1>4, <1>5 DEF Next

(* For any number of requests, at most one count query is under way for a  *)
(* pattern, and a pattern is marked exactly from its start to its end.     *)
THEOREM OneCountOnly == Spec => []OneCountAtATime
<1>1. TypeOK /\ MarksAreCounts /\ [Next]_vars => (TypeOK /\ MarksAreCounts)'
  BY TypeStep, MarksStep
<1>2. TypeOK /\ MarksAreCounts => OneCountAtATime
  BY MarksByMembers
<1> QED
  BY <1>1, <1>2, TypeInit, MarksInit, PTL DEF Spec

-----------------------------------------------------------------------------
(* Exact totals.  Those of the cache have been counted, too.               *)

CacheWasCounted == \A p \in Patterns : cache[p] # NoNumber => cache[p] \in answers[p]

CountedInv == CacheWasCounted /\ ExactTotalsWereCounted

LEMMA CountedInit == Init => CountedInv
BY SparqlAssumption, TotalsDiffer DEF Init, CountedInv, CacheWasCounted, ExactTotalsWereCounted

LEMMA CountedStep == TypeOK /\ CountedInv /\ [Next]_vars => CountedInv'
<1> USE SparqlAssumption
<1> SUFFICES ASSUME TypeOK, CountedInv, [Next]_vars
             PROVE  CountedInv'
  OBVIOUS
<1>0. UNCHANGED <<cache, metadata, answers>> => CountedInv'
  BY DEF CountedInv, CacheWasCounted, ExactTotalsWereCounted
<1>e. ASSUME NEW r \in Requests, UNCHANGED <<cache, answers>>,
             UNCHANGED metadata \/ metadata' = [metadata EXCEPT ![r] = DefaultEstimate]
      PROVE  CountedInv'
  BY <1>e, TotalsDiffer DEF TypeOK, CountedInv, CacheWasCounted, ExactTotalsWereCounted
<1>1. ASSUME NEW r \in Requests, ExecuteQuery(r)
      PROVE  CountedInv'
  <2>1. CASE cache[PatternOf[r]] # NoNumber /\ Settle(r, Exact(cache[PatternOf[r]]))
    <3>1. cache[PatternOf[r]] \in answers[PatternOf[r]] /\ UNCHANGED <<cache, answers>>
      BY <1>1, <2>1 DEF CountedInv, CacheWasCounted, ExecuteQuery
    <3> QED
      BY <2>1, <3>1, TotalsDiffer
         DEF TypeOK, Settle, CountedInv, CacheWasCounted, ExactTotalsWereCounted
  <2>2. CASE JoinCount(r) \/ UNCHANGED metadata
    BY <1>1, <2>2, <1>e DEF ExecuteQuery, JoinCount, Settle
  <2> QED
    BY <1>1, <2>1, <2>2 DEF ExecuteQuery, GetPatternCount
<1>2. ASSUME NEW r \in Requests, SelectEvent(r)
      PROVE  CountedInv'
  BY <1>0, <1>2 DEF SelectEvent, SelectEnd, SelectInvalid, SelectMalformed, SelectError,
                    StreamEnds
<1>3. ASSUME NEW r \in Requests, CountEvent(r)
      PROVE  CountedInv'
  <2>1. ASSUME NEW n \in Numbers, CountNumber(r, n)
        PROVE  CountedInv'
    <3>1. /\ \A p \in Patterns : answers[p] \subseteq answers'[p]
          /\ n \in answers'[PatternOf[r]]
      BY <2>1 DEF TypeOK, CountNumber
    <3>2. cache' = cache \/ cache' = [cache EXCEPT ![PatternOf[r]] = n]
      BY <2>1 DEF CountNumber, CacheLarge
    <3>3. CacheWasCounted'
      BY <3>1, <3>2 DEF TypeOK, CountedInv, CacheWasCounted
    <3>4. metadata' = metadata \/ metadata' = [metadata EXCEPT ![r] = Exact(n)]
      BY <2>1 DEF CountNumber, Resolve, Settle
    <3>5. ExactTotalsWereCounted'
      BY <3>1, <3>4, TotalsDiffer DEF TypeOK, CountedInv, ExactTotalsWereCounted
    <3> QED
      BY <3>3, <3>5 DEF CountedInv
  <2>2. CASE CountRejected(r)
    BY <2>2, <1>0 DEF CountRejected
  <2>3. CASE CountError(r) \/ CountTimeout(r)
    BY <2>3, <1>e DEF CountError, CountTimeout, Resolve, Settle
  <2> QED
    BY <1>3, <2>1, <2>2, <2>3 DEF CountEvent
<1>4. ASSUME NEW p \in Patterns, Evict(p)
      PROVE  CountedInv'
  BY <1>4 DEF TypeOK, Evict, CountedInv, CacheWasCounted, ExactTotalsWereCounted
<1>5. CASE UNCHANGED vars
  BY <1>0, <1>5 DEF vars
<1> QED
  BY <1>1, <1>2, <1>3, <1>4, <1>5 DEF Next

(* A total that is called exact was counted for its own pattern, however   *)
(* many requests share the cache.                                          *)
THEOREM ExactTotalsCounted == Spec => []ExactTotalsWereCounted
<1>1. TypeOK /\ CountedInv /\ [Next]_vars => (TypeOK /\ CountedInv)'
  BY TypeStep, CountedStep
<1>2. CountedInv => ExactTotalsWereCounted
  BY DEF CountedInv
<1> QED
  BY <1>1, <1>2, TypeInit, CountedInit, PTL DEF Spec

-----------------------------------------------------------------------------
(* Failures and late answers.  An error is never taken back.               *)

Failed(r) == stream[r] \in {"errored", "failed"}

LEMMA ErrorsOfEmit ==
  ASSUME TypeOK, NEW r \in Requests, EmitError(r)
  PROVE  /\ error'[r] # "none"
         /\ \A q \in Requests : error[q] # "none" => error'[q] # "none"
BY DEF TypeOK, EmitError

LEMMA FailuresInit == Init => FailuresAreReported
BY DEF Init, FailuresAreReported

\* A request that is settled has a total or an error; the rest is kept.
LEMMA FailuresOfSettle ==
  ASSUME TypeOK, FailuresAreReported, NEW r \in Requests, NEW total,
         total # NoMetadata, Settle(r, total), UNCHANGED error,
         \A q \in Requests : Failed(q)' => Failed(q)
  PROVE  FailuresAreReported'
BY DEF TypeOK, Settle, Failed, FailuresAreReported

LEMMA FailuresKept ==
  ASSUME FailuresAreReported, UNCHANGED <<settled, metadata>>,
         \A q \in Requests : error[q] # "none" => error'[q] # "none",
         \A q \in Requests : Failed(q)' => Failed(q) \/ error'[q] # "none"
  PROVE  FailuresAreReported'
BY DEF Failed, FailuresAreReported

LEMMA FailuresStep == TypeOK /\ FailuresAreReported /\ [Next]_vars => FailuresAreReported'
<1> SUFFICES ASSUME TypeOK, FailuresAreReported, [Next]_vars
             PROVE  FailuresAreReported'
  OBVIOUS
<1>0. UNCHANGED <<stream, error, settled, metadata>> => FailuresAreReported'
  BY DEF FailuresAreReported
<1>1. ASSUME NEW r \in Requests, ExecuteQuery(r)
      PROVE  FailuresAreReported'
  <2>1. /\ UNCHANGED error
        /\ \A q \in Requests : Failed(q)' => Failed(q)
    BY <1>1 DEF TypeOK, ExecuteQuery, Failed
  <2>2. \/ \E total : total # NoMetadata /\ Settle(r, total)
        \/ UNCHANGED <<settled, metadata>>
    BY <1>1, TotalsDiffer DEF ExecuteQuery, GetPatternCount, JoinCount
  <2> QED
    BY <2>1, <2>2, FailuresOfSettle, FailuresKept
<1>2. ASSUME NEW r \in Requests, SelectEvent(r)
      PROVE  FailuresAreReported'
  <2>1. CASE SelectInvalid(r) \/ SelectError(r)
    <3>1. EmitError(r) /\ UNCHANGED <<settled, metadata>>
      BY <2>1 DEF SelectInvalid, SelectError
    <3>2. \A q \in Requests : Failed(q)' => Failed(q) \/ q = r
      BY <2>1 DEF TypeOK, SelectInvalid, SelectError, Failed
    <3> QED
      BY <3>1, <3>2, ErrorsOfEmit, FailuresKept
  <2>2. CASE SelectEnd(r) \/ StreamEnds(r) \/ SelectMalformed(r)
    <3>1. /\ UNCHANGED <<error, settled, metadata>>
          /\ \A q \in Requests : Failed(q)' => Failed(q)
      BY <2>2 DEF TypeOK, SelectEnd, StreamEnds, SelectMalformed, Failed
    <3> QED
      BY <3>1, FailuresKept
  <2> QED
    BY <1>2, <2>1, <2>2 DEF SelectEvent
<1>3. ASSUME NEW r \in Requests, CountEvent(r)
      PROVE  FailuresAreReported'
  <2>1. ASSUME NEW total, total # NoMetadata, Resolve(r, total), UNCHANGED <<stream, error>>
        PROVE  FailuresAreReported'
    BY <2>1, <1>0, FailuresOfSettle DEF Resolve, Failed
  <2>2. ASSUME NEW n \in Numbers, CountNumber(r, n)
        PROVE  FailuresAreReported'
    BY <2>1, <2>2, TotalsDiffer DEF CountNumber
  <2>3. CASE CountError(r) \/ CountTimeout(r)
    BY <2>1, <2>3, TotalsDiffer DEF CountError, CountTimeout
  <2>4. CASE CountRejected(r)
    <3>1. CASE settled[r]
      BY <2>4, <3>1, <1>0 DEF TypeOK, CountRejected
    <3>2. CASE ~settled[r]
      <4>1. /\ error'[r] # "none"
            /\ \A q \in Requests : error[q] # "none" => error'[q] # "none"
        BY <2>4, <3>2, ErrorsOfEmit DEF CountRejected
      <4> QED
        BY <2>4, <4>1 DEF TypeOK, CountRejected, FailuresAreReported
    <3> QED
      BY <3>1, <3>2
  <2> QED
    BY <1>3, <2>2, <2>3, <2>4 DEF CountEvent
<1>4. ASSUME NEW p \in Patterns, Evict(p)
      PROVE  FailuresAreReported'
  BY <1>0, <1>4 DEF Evict
<1>5. CASE UNCHANGED vars
  BY <1>0, <1>5 DEF vars
<1> QED
  BY <1>1, <1>2, <1>3, <1>4, <1>5 DEF Next

(* No request stops without its quads or its total and without an error.   *)
THEOREM SparqlFailuresReported == Spec => []FailuresAreReported
<1>1. TypeOK /\ FailuresAreReported /\ [Next]_vars => (TypeOK /\ FailuresAreReported)'
  BY TypeStep, FailuresStep
<1> QED
  BY <1>1, TypeInit, FailuresInit, PTL DEF Spec

\* A total is there only after its promise was settled, and the promise of a
\* request that has not been made is not settled.
SettledInv ==
  \A r \in Requests :
    /\ metadata[r] # NoMetadata => settled[r]
    /\ settled[r] => stream[r] # "none"
    /\ count[r] # "none" => stream[r] # "none"

LEMMA SettledInit == Init => SettledInv
BY DEF Init, SettledInv

LEMMA SettledStep == TypeOK /\ SettledInv /\ [Next]_vars => SettledInv'
<1> SUFFICES ASSUME TypeOK, SettledInv, [Next]_vars
             PROVE  SettledInv'
  OBVIOUS
<1>1. ASSUME NEW r \in Requests, ExecuteQuery(r)
      PROVE  SettledInv'
  BY <1>1 DEF TypeOK, ExecuteQuery, GetPatternCount, JoinCount, Settle, SettledInv
<1>2. ASSUME NEW r \in Requests, SelectEvent(r)
      PROVE  SettledInv'
  <2>1. /\ UNCHANGED <<count, settled, metadata>>
        /\ \A q \in Requests : stream[q] # "none" => stream'[q] # "none"
    BY <1>2 DEF TypeOK, SelectEvent, SelectEnd, SelectInvalid, SelectMalformed,
                SelectError, StreamEnds
  <2> QED
    BY <2>1 DEF SettledInv
<1>3. ASSUME NEW r \in Requests, CountEvent(r)
      PROVE  SettledInv'
  <2>1. /\ count[r] # "none" /\ UNCHANGED stream
        /\ \A q \in Requests : count[q] = "none" => count'[q] = "none"
    BY <1>3 DEF TypeOK, CountEvent, CountNumber, CountRejected, CountError, CountTimeout,
                Counting
  <2>2. \/ UNCHANGED <<settled, metadata>>
        \/ \E total : Settle(r, total)
        \/ settled' = [settled EXCEPT ![r] = TRUE] /\ UNCHANGED metadata
    BY <1>3 DEF CountEvent, CountNumber, CountRejected, CountError, CountTimeout, Resolve
  <2> QED
    BY <2>1, <2>2 DEF TypeOK, Settle, SettledInv
<1>4. ASSUME NEW p \in Patterns, Evict(p)
      PROVE  SettledInv'
  BY <1>4 DEF Evict, SettledInv
<1>5. CASE UNCHANGED vars
  BY <1>5 DEF vars, SettledInv
<1> QED
  BY <1>1, <1>2, <1>3, <1>4, <1>5 DEF Next

\* LateAnswersAreHarmless, for one request.
Harmless(r) ==
  metadata[r] # NoMetadata =>
    /\ metadata'[r] = metadata[r]
    /\ count'[r] # count[r] => error'[r] = error[r]

LEMMA HarmlessStep ==
  TypeOK /\ SettledInv /\ [Next]_vars => \A r \in Requests : Harmless(r)
<1> SUFFICES ASSUME TypeOK, SettledInv, [Next]_vars,
                    NEW q \in Requests, metadata[q] # NoMetadata
             PROVE  metadata'[q] = metadata[q] /\ (count'[q] # count[q] => error'[q] = error[q])
  BY DEF Harmless
<1>q. settled[q] /\ stream[q] # "none"
  BY DEF SettledInv
<1>1. ASSUME NEW r \in Requests, ExecuteQuery(r)
      PROVE  metadata'[q] = metadata[q] /\ UNCHANGED error
  <2>1. q # r
    BY <1>q, <1>1 DEF ExecuteQuery
  <2> QED
    BY <1>1, <2>1 DEF TypeOK, ExecuteQuery, GetPatternCount, JoinCount, Settle
<1>2. ASSUME NEW r \in Requests, SelectEvent(r)
      PROVE  UNCHANGED <<metadata, count>>
  BY <1>2 DEF SelectEvent, SelectEnd, SelectInvalid, SelectMalformed, SelectError, StreamEnds
<1>3. ASSUME NEW r \in Requests, CountEvent(r)
      PROVE  metadata'[q] = metadata[q] /\ (count'[q] # count[q] => error'[q] = error[q])
  <2>1. ASSUME NEW total, Resolve(r, total)
        PROVE  metadata'[q] = metadata[q]
    BY <2>1, <1>q DEF TypeOK, Resolve, Settle
  <2>2. ASSUME NEW n \in Numbers, CountNumber(r, n)
        PROVE  metadata'[q] = metadata[q] /\ UNCHANGED error
    BY <2>1, <2>2 DEF CountNumber
  <2>3. CASE CountError(r) \/ CountTimeout(r)
    BY <2>1, <2>3 DEF CountError, CountTimeout
  <2>4. CASE CountRejected(r)
    <3>1. UNCHANGED metadata /\ (count'[q] # count[q] => q = r)
      BY <2>4 DEF TypeOK, CountRejected
    <3>2. q = r => UNCHANGED error
      BY <2>4, <1>q DEF CountRejected
    <3> QED
      BY <3>1, <3>2
  <2> QED
    BY <1>3, <2>2, <2>3, <2>4 DEF CountEvent
<1>4. ASSUME NEW p \in Patterns, Evict(p)
      PROVE  UNCHANGED <<metadata, count>>
  BY <1>4 DEF Evict
<1>5. CASE UNCHANGED vars
  BY <1>5 DEF vars
<1> QED
  BY <1>1, <1>2, <1>3, <1>4, <1>5 DEF Next

(* A time-out and the late answer behind it never disturb a request that   *)
(* has its total.                                                          *)
THEOREM LateAnswersHarmless == Spec => LateAnswersAreHarmless
<1>1. TypeOK /\ SettledInv /\ [Next]_vars => (TypeOK /\ SettledInv)'
  BY TypeStep, SettledStep
<1>2. TypeOK /\ SettledInv /\ [Next]_vars =>
        [\A r \in Requests : Harmless(r)]_vars
  BY HarmlessStep
<1> QED
  BY <1>1, <1>2, TypeInit, SettledInit, PTL DEF Spec, LateAnswersAreHarmless, Harmless
=============================================================================
