------------------------ MODULE ClusterMasterProofs ------------------------
(***************************************************************************)
(* Proofs about ClusterMaster, for any number of workers, crashes and      *)
(* reloads.                                                                *)
(***************************************************************************)
EXTENDS ClusterMaster, OrderLemmas, FiniteSetTheorems, TLAPS

\* A reload only waits for a new worker while there is an old one to kill, so
\* that workers.pop() in line 103 never returns undefined.
OldWorkerLeft == round.phase = "starting" => round.old # {}

TypeInv == TypeOK /\ OldWorkerLeft

-----------------------------------------------------------------------------
(* Types.                                                                  *)

\* The old worker that pop() takes is one of the list.
LEMMA MaxIsOld ==
  ASSUME TypeInv, round.phase = "starting"
  PROVE  Max(round.old) \in round.old /\ Max(round.old) \in Workers
<1>1. forked \in Nat /\ round.old \in SUBSET (1 .. forked) /\ round.old # {}
  BY DEF TypeInv, TypeOK, OldWorkerLeft, Round, Workers
<1>2. \E d \in round.old : \A e \in round.old : d >= e
  BY <1>1, LargestElement
<1> QED
  BY <1>1, <1>2 DEF Max, Workers

LEMMA TypeInit == Init => TypeInv
<1> SUFFICES ASSUME Init
             PROVE  TypeInv
  OBVIOUS
<1>1. round \in Round /\ round.phase = "none"
  BY DEF Init, NoRound, Round
<1>2. TypeOK
  BY <1>1, ClusterAssumption DEF Init, TypeOK, Workers
<1> QED
  BY <1>1, <1>2 DEF TypeInv, OldWorkerLeft

\* Listening keeps the types.
LEMMA TypeListen ==
  ASSUME TypeInv, NEW w \in Workers, Listen(w)
  PROVE  TypeInv'
<1> USE DEF TypeInv, TypeOK, OldWorkerLeft, Workers
<1>1. CASE round.phase = "starting" /\ w = round.new
  <2> DEFINE m == Max(round.old)
  <2>1. m \in round.old /\ m \in Workers
    BY <1>1, MaxIsOld
  <2>2. round' = [round EXCEPT !.phase = "killing", !.victim = m, !.old = @ \ {m}]
    BY <1>1 DEF Listen
  <2>3. Kill(m)
    BY <1>1 DEF Listen
  <2> HIDE DEF m
  <2>4. round' \in Round' /\ round'.phase = "killing"
    BY <2>1, <2>2 DEF Round, Listen
  <2>5. leaving' \subseteq Workers' /\ killed' \subseteq Workers'
    BY <2>1, <2>3 DEF Kill, Listen
  <2> QED
    BY <2>4, <2>5 DEF Listen
<1>2. CASE ~(round.phase = "starting" /\ w = round.new)
  BY <1>2 DEF Listen, Round
<1> QED
  BY <1>1, <1>2

\* respawnNext only names a new worker that is forked in the same step.
LEMMA RespawnNextType ==
  ASSUME NEW S, NEW n \in S,
         NEW r \in [phase : {"none", "starting", "killing"}, old : SUBSET S,
                    new : {0} \cup S, victim : {0} \cup S, since : {0} \cup S]
  PROVE  /\ RespawnNext(r, n) \in
              [phase : {"none", "starting", "killing"}, old : SUBSET S,
               new : {0} \cup S, victim : {0} \cup S, since : {0} \cup S]
         /\ RespawnNext(r, n).phase = "starting" => RespawnNext(r, n).old # {}
<1>1. CASE r.old = {}
  BY <1>1 DEF RespawnNext, NoRound
<1>2. CASE r.old # {}
  BY <1>2 DEF RespawnNext
<1> QED
  BY <1>1, <1>2

\* The outcomes of the death of a worker.
Restarted(w) == IF Restarts(w) THEN 1 ELSE 0

ContinuesRound(w) ==
  /\ round.phase = "killing" /\ w = round.victim /\ round.old # {}
  /\ forked' = forked + Restarted(w) + 1
  /\ round' = [round EXCEPT !.phase = "starting", !.new = forked']

FinishesRound(w) ==
  /\ round.phase = "killing" /\ w = round.victim /\ round.old = {}
  /\ forked' = forked + Restarted(w)
  /\ round' = NoRound

AbortsRound(w) ==
  /\ round.phase = "starting" /\ w = round.new /\ w \notin leaving
  /\ forked' = forked + Restarted(w)
  /\ round' = NoRound

KeepsRound(w) ==
  /\ round.phase = "killing" => w # round.victim
  /\ round.phase = "starting" => w # round.new \/ w \in leaving
  /\ forked' = forked + Restarted(w)
  /\ round' = round

LEMMA ExitCases ==
  ASSUME TypeInv, NEW w \in Workers, Exit(w)
  PROVE  ContinuesRound(w) \/ FinishesRound(w) \/ AbortsRound(w) \/ KeepsRound(w)
<1> USE DEF TypeInv, TypeOK, Round
<1>0. Restarted(w) \in {0, 1} /\ forked \in Nat
  BY DEF Restarted
<1>1. CASE round.phase = "killing" /\ w = round.victim /\ round.old # {}
  <2>1. round' = [round EXCEPT !.phase = "starting", !.new = forked + Restarted(w) + 1]
    BY <1>1 DEF Exit, Restarted, RespawnNext
  <2>2. Forks(round') = 1
    BY <2>1 DEF Forks
  <2>3. forked' = forked + Restarted(w) + 1
    BY <1>1, <2>2 DEF Exit, Restarted
  <2> QED
    BY <1>1, <2>1, <2>3 DEF ContinuesRound
<1>2. CASE round.phase = "killing" /\ w = round.victim /\ round.old = {}
  <2>1. round' = NoRound
    BY <1>2 DEF Exit, RespawnNext
  <2>2. Forks(round') = 0
    BY <2>1 DEF Forks, NoRound
  <2>3. forked' = forked + Restarted(w)
    BY <1>0, <1>2, <2>2 DEF Exit, Restarted
  <2> QED
    BY <1>2, <2>1, <2>3 DEF FinishesRound
<1>3. CASE ~(round.phase = "killing" /\ w = round.victim)
  <2>1. forked' = forked + Restarted(w)
    BY <1>0, <1>3 DEF Exit, Restarted
  <2>2. CASE round.phase = "starting" /\ w = round.new /\ w \notin leaving
    BY <1>3, <2>1, <2>2 DEF Exit, AbortsRound
  <2>3. CASE ~(round.phase = "starting" /\ w = round.new /\ w \notin leaving)
    BY <1>3, <2>1, <2>3 DEF Exit, KeepsRound
  <2> QED
    BY <2>2, <2>3
<1> QED
  BY <1>1, <1>2, <1>3

LEMMA IntervalSize ==
  ASSUME NEW a \in Nat, NEW b \in Nat, a <= b
  PROVE  IsFiniteSet(a + 1 .. b) /\ Cardinality(a + 1 .. b) = b - a
<1>1. CASE a = b
  <2>1. a + 1 .. b = {}
    BY <1>1
  <2> QED
    BY <1>1, <2>1, FS_EmptySet
<1>2. CASE a < b
  <2>1. a + 1 \in Int /\ b \in Int /\ ~(a + 1 > b)
    BY <1>2
  <2>2. IsFiniteSet(a + 1 .. b) /\ Cardinality(a + 1 .. b) = b - (a + 1) + 1
    BY <2>1, FS_Interval
  <2> QED
    BY <2>2
<1> QED
  BY <1>1, <1>2

\* The workers forked in a step.
Forked == forked + 1 .. forked'

LEMMA ForkedAreNew ==
  ASSUME forked \in Nat, forked' \in Nat, forked <= forked'
  PROVE  /\ Workers \subseteq Workers' /\ Forked \subseteq Workers'
         /\ Forked \cap Workers = {}
         /\ IsFiniteSet(Forked) /\ Cardinality(Forked) = forked' - forked
<1>1. IsFiniteSet(Forked) /\ Cardinality(Forked) = forked' - forked
  BY IntervalSize DEF Forked
<1> QED
  BY <1>1 DEF Workers, Forked

\* The death of a worker keeps the types.
LEMMA TypeExit ==
  ASSUME TypeInv, NEW w \in Workers, Exit(w), crashes' \in Nat, reloads' \in Nat
  PROVE  TypeInv'
<1>0. Restarted(w) \in {0, 1} /\ forked \in Nat /\ failedStarts \in Nat
  BY DEF TypeInv, TypeOK, Restarted
<1>1. forked' \in Nat /\ forked <= forked' /\ round' \in Round'
      /\ (round'.phase = "starting" => round'.old # {})
  <2> USE DEF TypeInv, TypeOK, OldWorkerLeft, Round, Workers
  <2>1. CASE ContinuesRound(w)
    <3>1. forked' \in Nat /\ forked <= forked' /\ forked' >= 1
      BY <1>0, <2>1 DEF ContinuesRound
    <3>2. Workers \subseteq Workers' /\ forked' \in Workers'
      BY <1>0, <3>1
    <3> HIDE DEF Workers
    <3> QED
      BY <2>1, <3>1, <3>2 DEF ContinuesRound
  <2>2. CASE FinishesRound(w) \/ AbortsRound(w)
    BY <1>0, <2>2 DEF FinishesRound, AbortsRound, NoRound
  <2>3. CASE KeepsRound(w)
    <3>1. forked' \in Nat /\ forked <= forked'
      BY <1>0, <2>3 DEF KeepsRound
    <3>2. Workers \subseteq Workers'
      BY <1>0, <3>1
    <3> HIDE DEF Workers
    <3> QED
      BY <2>3, <3>1, <3>2 DEF KeepsRound
  <2> QED
    BY <2>1, <2>2, <2>3, ExitCases
<1>2. failedStarts' \in Nat
  BY <1>0 DEF Exit
<1>3. /\ starting' \subseteq Workers' /\ listening' \subseteq Workers' \ starting'
      /\ leaving' \subseteq Workers' /\ killed' \subseteq Workers'
  <2>1. /\ starting' = (starting \ {w}) \cup Forked /\ listening' = listening \ {w}
        /\ leaving' = leaving /\ killed' = killed
    BY DEF Exit, Forked
  <2>2. /\ Workers \subseteq Workers' /\ Forked \subseteq Workers'
        /\ Forked \cap Workers = {}
    BY <1>0, <1>1, ForkedAreNew
  <2> QED
    BY <2>1, <2>2 DEF TypeInv, TypeOK
<1> QED
  BY <1>1, <1>2, <1>3 DEF Exit, TypeInv, TypeOK, OldWorkerLeft

\* A signal keeps the types.
LEMMA TypeRespawn ==
  ASSUME TypeInv, Respawn
  PROVE  TypeInv'
<1> DEFINE r == [NoRound EXCEPT !.old = Live \ leaving, !.since = forked]
<1>1. forked \in Nat /\ Live \subseteq Workers
  BY DEF TypeInv, TypeOK, Live
<1>2. r.old = Live \ leaving /\ r.phase = "none"
  BY DEF NoRound
<1>3. round' = RespawnNext(r, forked + 1) /\ forked' = forked + Forks(round')
  BY DEF Respawn
<1>4. forked' \in Nat /\ forked <= forked' /\ round' \in Round'
      /\ (round'.phase = "starting" => round'.old # {})
  <2>1. CASE Live \ leaving = {}
    <3>1. round' = NoRound
      BY <1>2, <1>3, <2>1 DEF RespawnNext
    <3> QED
      BY <1>1, <1>3, <3>1 DEF Round, NoRound, Forks
  <2>2. CASE Live \ leaving # {}
    <3>1. round' = [r EXCEPT !.phase = "starting", !.new = forked + 1]
      BY <1>2, <1>3, <2>2 DEF RespawnNext
    <3>2. forked' = forked + 1
      BY <1>3, <3>1 DEF Forks, NoRound
    <3>3. Workers \subseteq Workers' /\ forked + 1 \in Workers' /\ forked \in {0} \cup Workers'
      BY <1>1, <3>2 DEF Workers
    <3>4. /\ round'.phase = "starting" /\ round'.old = Live \ leaving
          /\ round' = [phase |-> "starting", old |-> Live \ leaving, new |-> forked + 1,
                       victim |-> 0, since |-> forked]
      BY <3>1 DEF NoRound
    <3>5. round' \in Round'
      BY <1>1, <3>3, <3>4 DEF Round
    <3> QED
      BY <1>1, <2>2, <3>2, <3>4, <3>5
  <2> QED
    BY <2>1, <2>2
<1>5. /\ starting' \subseteq Workers' /\ listening' \subseteq Workers' \ starting'
      /\ leaving' \subseteq Workers' /\ killed' \subseteq Workers'
  <2>1. /\ starting' = starting \cup Forked
        /\ UNCHANGED <<listening, leaving, killed>>
    BY DEF Respawn, Forked
  <2>2. /\ Workers \subseteq Workers' /\ Forked \subseteq Workers'
        /\ Forked \cap Workers = {}
    BY <1>1, <1>4, ForkedAreNew
  <2> QED
    BY <2>1, <2>2 DEF TypeInv, TypeOK
<1> QED
  BY <1>4, <1>5 DEF Respawn, TypeInv, TypeOK, OldWorkerLeft

LEMMA TypeNext == TypeInv /\ [Next]_vars => TypeInv'
<1> SUFFICES ASSUME TypeInv, [Next]_vars
             PROVE  TypeInv'
  OBVIOUS
<1>1. ASSUME NEW w \in Workers, Listen(w)
      PROVE  TypeInv'
  BY <1>1, TypeListen
<1>2. ASSUME NEW w \in Workers, Crash(w) \/ Terminate(w)
      PROVE  TypeInv'
  <2>1. Exit(w) /\ crashes' \in Nat /\ reloads' \in Nat
    BY <1>2 DEF Crash, Terminate, TypeInv, TypeOK
  <2> QED
    BY <2>1, TypeExit
<1>3. CASE Respawn
  BY <1>3, TypeRespawn
<1>4. CASE Disconnect
  BY <1>4 DEF Disconnect, TypeInv, TypeOK, OldWorkerLeft, Round, Workers, Live
<1>5. CASE UNCHANGED vars
  BY <1>5 DEF vars, TypeInv, TypeOK, OldWorkerLeft, Round, Workers
<1> QED
  BY <1>1, <1>2, <1>3, <1>4, <1>5 DEF Next

\* The variables of the master keep their types, and no reload ever runs out
\* of old workers while a new one starts.
THEOREM TypeCorrect == Spec => []TypeOK
<1>1. TypeInv => TypeOK
  BY DEF TypeInv
<1> QED
  BY <1>1, TypeInit, TypeNext, PTL DEF Spec

-----------------------------------------------------------------------------
(* How many workers are there to stay.                                     *)

LEMMA Difference ==
  ASSUME NEW a \in Nat, NEW b \in Nat, a <= b
  PROVE  b - a >= 0
OBVIOUS

LEMMA StayingFinite ==
  ASSUME TypeInv
  PROVE  /\ Staying \subseteq Workers /\ IsFiniteSet(Staying)
         /\ Cardinality(Staying) \in Nat
<1>1. IsFiniteSet(Workers)
  <2>1. forked \in Int
    BY DEF TypeInv, TypeOK
  <2> QED
    BY <2>1, FS_Interval DEF Workers
<1>2. Staying \in SUBSET Workers
  BY DEF Staying, Live, TypeInv, TypeOK
<1> QED
  BY <1>1, <1>2, FS_Subset, FS_CardinalityType

\* A worker w that was there to stay is not any more.
Leaves(w) == IF w \in Staying THEN 1 ELSE 0

LEMMA OneLess ==
  ASSUME TypeInv, NEW w
  PROVE  /\ IsFiniteSet(Staying \ {w})
         /\ Cardinality(Staying \ {w}) = Cardinality(Staying) - Leaves(w)
BY StayingFinite, FS_RemoveElement DEF Leaves

\* Adding the workers of this step to some of the earlier ones.
LEMMA AddForked ==
  ASSUME forked \in Nat, forked' \in Nat, forked <= forked',
         NEW S, S \subseteq Workers, IsFiniteSet(S)
  PROVE  Cardinality(S \cup Forked) = Cardinality(S) + (forked' - forked)
<1>1. IsFiniteSet(Forked) /\ Cardinality(Forked) = forked' - forked
      /\ Forked \cap Workers = {}
  BY ForkedAreNew
<1>2. S \cap Forked = {}
  BY <1>1
<1>3. Cardinality(S \cup Forked) = Cardinality(S) + Cardinality(Forked) - Cardinality({})
  BY <1>1, <1>2, FS_Union
<1>4. Cardinality({}) = 0 /\ Cardinality(S) \in Nat
  BY FS_EmptySet, FS_CardinalityType
<1> QED
  BY <1>1, <1>3, <1>4

\* The number of workers there to stay after the death of w.
LEMMA ExitStaying ==
  ASSUME TypeInv, NEW w \in Live, Exit(w), forked' \in Nat, forked <= forked'
  PROVE  /\ Staying' = (Staying \ {w}) \cup Forked
         /\ Cardinality(Staying') = Cardinality(Staying) - Leaves(w) + (forked' - forked)
<1>1. forked \in Nat /\ leaving \subseteq Workers /\ Forked \cap Workers = {}
  BY ForkedAreNew DEF TypeInv, TypeOK
<1>2. Staying' = (Staying \ {w}) \cup Forked
  <2>1. /\ starting' = (starting \ {w}) \cup Forked /\ listening' = listening \ {w}
        /\ leaving' = leaving
    BY DEF Exit, Forked
  <2> QED
    BY <1>1, <2>1 DEF Staying, Live
<1>3. Cardinality((Staying \ {w}) \cup Forked) = Cardinality(Staying \ {w}) + (forked' - forked)
  <2>1. Staying \ {w} \subseteq Workers
    BY StayingFinite
  <2> QED
    BY <1>1, <2>1, OneLess, AddForked
<1> QED
  BY <1>2, <1>3, OneLess

\* Whoever was there to stay is replaced, or counted as a failed start, or
\* was the new worker of a reload.
Failed(w) == IF w \in starting /\ ~(round.phase = "starting" /\ w = round.new) THEN 1 ELSE 0

LEMMA LossIsCounted ==
  ASSUME TypeInv, NEW w \in Live, Exit(w)
  PROVE  /\ failedStarts' = failedStarts + Failed(w)
         /\ Leaves(w) <= Restarted(w) + Failed(w) \/ (round.phase = "starting" /\ w = round.new)
         /\ w \in leaving => Leaves(w) = 0
         /\ Leaves(w) \in {0, 1} /\ Restarted(w) \in {0, 1} /\ Failed(w) \in {0, 1}
<1>1. failedStarts \in Nat
  BY DEF TypeInv, TypeOK
<1>2. failedStarts' = failedStarts + Failed(w)
  BY <1>1 DEF Exit, Failed
<1>3. w \in Staying => Restarts(w) \/ w \in starting
  BY DEF Staying, Live, Restarts
<1>4. w \in leaving => w \notin Staying
  BY DEF Staying
<1> QED
  BY <1>2, <1>3, <1>4 DEF Leaves, Restarted, Failed

LEMMA ExitForks ==
  ASSUME TypeInv, NEW w \in Live, Exit(w)
  PROVE  /\ w \in Workers /\ forked \in Nat /\ forked' \in Nat /\ forked <= forked'
         /\ ContinuesRound(w) \/ FinishesRound(w) \/ AbortsRound(w) \/ KeepsRound(w)
<1>1. w \in Workers /\ forked \in Nat /\ Restarted(w) \in {0, 1}
  BY DEF TypeInv, TypeOK, Live, Restarted
<1>2. ContinuesRound(w) \/ FinishesRound(w) \/ AbortsRound(w) \/ KeepsRound(w)
  BY <1>1, ExitCases
<1> QED
  BY <1>1, <1>2 DEF ContinuesRound, FinishesRound, AbortsRound, KeepsRound

\* The place of the new worker of a reload.
Extra == IF round.phase = "starting" THEN 1 ELSE 0

LEMMA CapacityExit ==
  ASSUME TypeInv, CapacityKept, NEW w \in Live, Exit(w)
  PROVE  CapacityKept'
<1> SUFFICES ASSUME ~stopping
             PROVE  Cardinality(Staying') + failedStarts' >= NumWorkers + Extra'
  BY DEF CapacityKept, Exit, Extra
<1>1. /\ Cardinality(Staying) \in Nat /\ failedStarts \in Nat /\ NumWorkers \in Nat
      /\ Extra \in {0, 1}
  BY StayingFinite, ClusterAssumption DEF TypeInv, TypeOK, Extra
<1>2. Cardinality(Staying) + failedStarts >= NumWorkers + Extra
  BY DEF CapacityKept, Extra
<1>3. /\ Cardinality(Staying') = Cardinality(Staying) - Leaves(w) + (forked' - forked)
      /\ forked \in Nat /\ forked' \in Nat /\ forked <= forked'
  BY ExitStaying, ExitForks
<1>4. forked' - forked >= Restarted(w) + Extra' - Extra
      /\ (round.phase = "starting" /\ w = round.new =>
            w \in leaving \/ (Extra = 1 /\ Extra' = 0))
  <2> USE <1>1, <1>3, LossIsCounted DEF Extra
  <2>1. CASE ContinuesRound(w)
    <3>1. round'.phase = "starting"
      BY <2>1 DEF ContinuesRound, TypeInv, TypeOK, Round
    <3> QED
      BY <2>1, <3>1 DEF ContinuesRound
  <2>2. CASE FinishesRound(w)
    BY <2>2 DEF FinishesRound, NoRound
  <2>3. CASE AbortsRound(w)
    BY <2>3 DEF AbortsRound, NoRound
  <2>4. CASE KeepsRound(w)
    BY <2>4 DEF KeepsRound
  <2> QED
    BY <2>1, <2>2, <2>3, <2>4, ExitForks
<1> DEFINE c == Cardinality(Staying)
           d == Cardinality(Staying')
           f == failedStarts
           g == failedStarts'
           e == Extra
           h == Extra'
           k == forked' - forked
           l == Leaves(w)
           r == Restarted(w)
           x == Failed(w)
<1>5. /\ c \in Nat /\ f \in Nat /\ NumWorkers \in Nat /\ e \in {0, 1} /\ h \in {0, 1}
      /\ c + f >= NumWorkers + e /\ d = c - l + k /\ k \in Int
      /\ k >= r + h - e /\ g = f + x
      /\ l \in {0, 1} /\ r \in {0, 1} /\ x \in {0, 1}
      /\ l <= r + x \/ l = 0 \/ (e = 1 /\ h = 0)
  BY <1>1, <1>2, <1>3, <1>4, LossIsCounted DEF Extra
<1>6. k >= 0
  BY <1>3, Difference
<1> HIDE DEF c, d, f, g, e, h, k, l, r, x
<1>7. d + g >= NumWorkers + h
  BY <1>5, <1>6
<1> QED
  BY <1>7 DEF d, g, h

\* The outcomes of a worker starting to listen.
ListensAlone(w) ==
  /\ ~(round.phase = "starting" /\ w = round.new)
  /\ UNCHANGED <<round, leaving, killed>>

ListensAsNew(w, m) ==
  /\ round.phase = "starting" /\ w = round.new /\ m \in round.old
  /\ round' = [round EXCEPT !.phase = "killing", !.victim = m, !.old = @ \ {m}]
  /\ Kill(m)

LEMMA ListenCases ==
  ASSUME TypeInv, NEW w \in Workers, Listen(w)
  PROVE  /\ Live' = Live
         /\ UNCHANGED <<forked, stopping, crashes, reloads, failedStarts>>
         /\ ListensAlone(w) \/ \E m \in Workers : ListensAsNew(w, m)
<1>1. Live' = Live
  BY DEF Listen, Live
<1>2. CASE round.phase = "starting" /\ w = round.new
  <2>1. Max(round.old) \in round.old /\ Max(round.old) \in Workers
    BY <1>2, MaxIsOld
  <2>2. ListensAsNew(w, Max(round.old))
    BY <1>2, <2>1 DEF Listen, ListensAsNew
  <2> QED
    BY <1>1, <2>1, <2>2 DEF Listen
<1>3. CASE ~(round.phase = "starting" /\ w = round.new)
  BY <1>1, <1>3 DEF Listen, ListensAlone
<1> QED
  BY <1>2, <1>3

LEMMA CapacityListen ==
  ASSUME TypeInv, CapacityKept, NEW w \in Workers, Listen(w)
  PROVE  CapacityKept'
<1> SUFFICES ASSUME ~stopping
             PROVE  Cardinality(Staying') + failedStarts' >= NumWorkers + Extra'
  BY ListenCases DEF CapacityKept, Extra
<1>1. Cardinality(Staying) \in Nat /\ failedStarts \in Nat /\ NumWorkers \in Nat
  BY StayingFinite, ClusterAssumption DEF TypeInv, TypeOK
<1>2. CASE ListensAlone(w)
  <2>1. Staying' = Staying /\ failedStarts' = failedStarts /\ Extra' = Extra
    BY <1>2, ListenCases DEF ListensAlone, Staying, Extra
  <2> QED
    BY <2>1 DEF CapacityKept, Extra
<1>3. CASE \E m \in Workers : ListensAsNew(w, m)
  <2>1. PICK m \in Workers : ListensAsNew(w, m)
    BY <1>3
  <2>2. Staying' = Staying \/ Staying' = Staying \ {m}
    BY <2>1, ListenCases DEF ListensAsNew, Kill, Staying
  <2>3. Cardinality(Staying') >= Cardinality(Staying) - 1
    BY <1>1, <2>2, OneLess DEF Leaves
  <2>4. Cardinality(Staying) + failedStarts >= NumWorkers + 1
    BY <2>1 DEF CapacityKept, ListensAsNew
  <2>5. round'.phase = "killing"
    BY <2>1 DEF ListensAsNew, TypeInv, TypeOK, Round
  <2>6. Extra' = 0 /\ failedStarts' = failedStarts /\ Cardinality(Staying') \in Nat
    BY <1>1, <2>2, <2>5, ListenCases, OneLess, StayingFinite, FS_CardinalityType DEF Extra
  <2> HIDE DEF Extra
  <2> QED
    BY <1>1, <2>3, <2>4, <2>6
<1> QED
  BY <1>2, <1>3, ListenCases

\* The outcomes of a signal to reload.
LEMMA RespawnCases ==
  ASSUME TypeInv, Respawn
  PROVE  /\ round.phase = "none" /\ UNCHANGED <<leaving, killed, stopping, failedStarts>>
         /\ Staying' = Staying \cup Forked /\ Live' = Live \cup Forked
         /\ \/ forked' = forked /\ round' = NoRound
            \/ /\ forked' = forked + 1
               /\ round' = [phase |-> "starting", old |-> Staying, new |-> forked + 1,
                            victim |-> 0, since |-> forked]
<1> DEFINE r == [NoRound EXCEPT !.old = Live \ leaving, !.since = forked]
<1>1. forked \in Nat
  BY DEF TypeInv, TypeOK
<1>2. r.old = Staying /\ r.phase = "none"
  BY DEF NoRound, Staying
<1>3. round' = RespawnNext(r, forked + 1) /\ forked' = forked + Forks(round')
  BY DEF Respawn
<1>4. \/ forked' = forked /\ round' = NoRound
      \/ /\ forked' = forked + 1
         /\ round' = [phase |-> "starting", old |-> Staying, new |-> forked + 1,
                      victim |-> 0, since |-> forked]
  <2>1. CASE Staying = {}
    BY <1>1, <1>2, <1>3, <2>1 DEF RespawnNext, NoRound, Forks
  <2>2. CASE Staying # {}
    <3>1. round' = [r EXCEPT !.phase = "starting", !.new = forked + 1]
      BY <1>2, <1>3, <2>2 DEF RespawnNext
    <3>2. round' = [phase |-> "starting", old |-> Staying, new |-> forked + 1,
                    victim |-> 0, since |-> forked]
      BY <3>1 DEF NoRound, Staying
    <3> QED
      BY <1>3, <3>2 DEF Forks
  <2> QED
    BY <2>1, <2>2
<1>5. forked' \in Nat /\ forked <= forked' /\ Forked \cap leaving = {}
  <2>1. forked' \in Nat /\ forked <= forked'
    BY <1>1, <1>4
  <2> QED
    BY <1>1, <2>1, ForkedAreNew DEF TypeInv, TypeOK
<1>6. Live' = Live \cup Forked /\ leaving' = leaving
  BY DEF Respawn, Live, Forked
<1> QED
  BY <1>4, <1>5, <1>6 DEF Respawn, Reloading, Staying

LEMMA CapacityRespawn ==
  ASSUME TypeInv, CapacityKept, Respawn
  PROVE  CapacityKept'
<1>1. /\ Cardinality(Staying) \in Nat /\ failedStarts \in Nat /\ NumWorkers \in Nat
      /\ forked \in Nat
  BY StayingFinite, ClusterAssumption DEF TypeInv, TypeOK
<1>2. forked' \in Nat /\ forked <= forked'
  BY <1>1, RespawnCases
<1>3. Cardinality(Staying') = Cardinality(Staying) + (forked' - forked)
  BY <1>1, <1>2, RespawnCases, StayingFinite, AddForked
<1>4. CASE forked' = forked /\ round' = NoRound
  BY <1>1, <1>3, <1>4, RespawnCases DEF CapacityKept, NoRound
<1>5. CASE forked' = forked + 1 /\ round'.phase = "starting"
  BY <1>1, <1>3, <1>5, RespawnCases DEF CapacityKept
<1> QED
  BY <1>4, <1>5, RespawnCases

LEMMA CapacityNext == TypeInv /\ CapacityKept /\ [Next]_vars => CapacityKept'
<1> SUFFICES ASSUME TypeInv, CapacityKept, [Next]_vars
             PROVE  CapacityKept'
  OBVIOUS
<1>1. ASSUME NEW w \in Workers, Listen(w)
      PROVE  CapacityKept'
  BY <1>1, CapacityListen
<1>2. ASSUME NEW w \in Workers, Crash(w) \/ Terminate(w)
      PROVE  CapacityKept'
  BY <1>2, CapacityExit DEF Crash, Terminate
<1>3. CASE Respawn
  BY <1>3, CapacityRespawn
<1>4. CASE Disconnect
  BY <1>4 DEF Disconnect, CapacityKept
<1>5. CASE UNCHANGED vars
  BY <1>5 DEF vars, CapacityKept, Staying, Live
<1> QED
  BY <1>1, <1>2, <1>3, <1>4, <1>5 DEF Next

LEMMA CapacityInit == Init => CapacityKept
<1> SUFFICES ASSUME Init
             PROVE  CapacityKept
  OBVIOUS
<1>1. NumWorkers \in Nat /\ Staying = 0 + 1 .. NumWorkers
  BY ClusterAssumption DEF Init, Staying, Live
<1>2. Cardinality(Staying) = NumWorkers
  BY <1>1, IntervalSize
<1> QED
  BY <1>1, <1>2 DEF Init, CapacityKept, NoRound

\* Whatever crashes and reloads happen, and whether or not kill() counts as a
\* disconnection, the master only falls short of the configured number of
\* workers by those that died before they listened.
THEOREM CapacityIsKept == Spec => []CapacityKept
BY TypeInit, TypeNext, CapacityInit, CapacityNext, PTL DEF Spec

-----------------------------------------------------------------------------
(* What a reload replaces.                                                 *)

\* The workers that the reload still has to replace: those left in its list,
\* and the one being killed.
Pending == round.old \cup (IF round.phase = "killing" THEN {round.victim} ELSE {})

\* The rest of the inductive invariant: whoever is there to stay from before
\* the reload is still to be replaced; the new worker does not listen yet;
\* and, if killing disconnects, the list holds no worker already killed.
ReloadInv ==
  /\ Reloading => Staying \cap (1 .. round.since) \subseteq Pending
  /\ round.phase = "starting" => round.new \notin listening
  /\ KillDisconnects => killed \subseteq leaving
  /\ KillDisconnects /\ ~stopping => round.old \cap leaving = {}

LEMMA ReloadInit == Init => ReloadInv
BY DEF Init, ReloadInv, Reloading, NoRound

LEMMA ReloadListen ==
  ASSUME TypeInv, ReloadInv, NEW w \in Workers, Listen(w)
  PROVE  ReloadInv'
<1>0. /\ Live' = Live /\ stopping' = stopping
      /\ listening' = listening \cup {w}
  BY ListenCases DEF Listen
<1>1. CASE ListensAlone(w)
  BY <1>0, <1>1 DEF ListensAlone, ReloadInv, Reloading, Staying, Pending
<1>2. CASE \E m \in Workers : ListensAsNew(w, m)
  <2>1. PICK m \in Workers : ListensAsNew(w, m)
    BY <1>2
  <2>2. /\ round.phase = "starting" /\ m \in round.old
        /\ round'.phase = "killing" /\ round'.old = round.old \ {m}
        /\ round'.victim = m /\ round'.since = round.since
    BY <2>1 DEF ListensAsNew, TypeInv, TypeOK, Round
  <2>3. /\ leaving \subseteq leaving' /\ leaving' \subseteq leaving \cup {m}
        /\ killed' = killed \/ (killed' = killed \cup {m}
                                /\ (KillDisconnects => leaving' = leaving \cup {m}))
    BY <2>1 DEF ListensAsNew, Kill
  <2>4. Staying' \subseteq Staying /\ Pending' = Pending
    BY <1>0, <2>2, <2>3 DEF Staying, Pending
  <2> QED
    BY <1>0, <2>2, <2>3, <2>4 DEF ReloadInv, Reloading
<1> QED
  BY <1>1, <1>2, ListenCases

LEMMA ReloadExit ==
  ASSUME TypeInv, ReloadInv, NEW w \in Live, Exit(w)
  PROVE  ReloadInv'
<1>0. /\ Staying' = (Staying \ {w}) \cup Forked
      /\ listening' = listening \ {w} /\ UNCHANGED <<leaving, killed, stopping>>
  BY ExitStaying, ExitForks DEF Exit
<1>1. /\ Forked \cap Workers = {} /\ forked \in Nat /\ listening \subseteq Workers
      /\ forked' \in Nat
  BY ExitForks, ForkedAreNew DEF TypeInv, TypeOK
<1>2. \A k \in {0} \cup Workers : Forked \cap (1 .. k) = {}
  BY <1>1 DEF Workers, Forked
<1>3. CASE ContinuesRound(w)
  <2>1. /\ round.phase = "killing" /\ w = round.victim
        /\ round'.phase = "starting" /\ round'.old = round.old
        /\ round'.since = round.since /\ round.since \in {0} \cup Workers
        /\ round'.new = forked'
    BY <1>3 DEF ContinuesRound, TypeInv, TypeOK, Round
  <2>2. forked' \notin listening'
    <3>1. forked' > forked
      BY <1>1, <1>3 DEF ContinuesRound, Restarted
    <3> QED
      BY <1>0, <1>1, <3>1 DEF Workers
  <2>3. Staying' \cap (1 .. round'.since) \subseteq Pending'
    BY <1>0, <1>2, <2>1 DEF ReloadInv, Reloading, Pending
  <2> QED
    BY <1>0, <2>1, <2>2, <2>3 DEF ReloadInv
<1>4. CASE FinishesRound(w) \/ AbortsRound(w)
  BY <1>0, <1>4 DEF FinishesRound, AbortsRound, NoRound, ReloadInv, Reloading
<1>5. CASE KeepsRound(w)
  <2>1. round' = round /\ round.since \in {0} \cup Workers
    BY <1>5 DEF KeepsRound, TypeInv, TypeOK, Round
  <2>2. Reloading' => Staying' \cap (1 .. round'.since) \subseteq Pending'
    BY <1>0, <1>2, <2>1 DEF ReloadInv, Reloading, Pending
  <2> QED
    BY <1>0, <2>1, <2>2 DEF ReloadInv
<1> QED
  BY <1>3, <1>4, <1>5, ExitForks

LEMMA ReloadRespawn ==
  ASSUME TypeInv, ReloadInv, Respawn
  PROVE  ReloadInv'
<1>1. CASE round' = NoRound
  BY <1>1, RespawnCases DEF ReloadInv, Reloading, NoRound
<1>2. CASE /\ forked' = forked + 1
           /\ round' = [phase |-> "starting", old |-> Staying, new |-> forked + 1,
                        victim |-> 0, since |-> forked]
  <2>1. forked \in Nat /\ forked' \in Nat /\ forked <= forked' /\ listening \subseteq Workers
    BY <1>2 DEF TypeInv, TypeOK
  <2>2. /\ round'.phase = "starting" /\ round'.old = Staying /\ round'.since = forked
        /\ round'.new = forked + 1
    BY <1>2
  <2>3. Forked \cap (1 .. forked) = {} /\ forked + 1 \notin listening
    BY <2>1 DEF Forked, Workers
  <2>4. Staying' \cap (1 .. round'.since) \subseteq Pending'
    BY <2>2, <2>3, RespawnCases DEF Pending
  <2>5. Staying \cap leaving = {} /\ listening' = listening
    BY DEF Staying, Respawn
  <2> QED
    BY <2>2, <2>3, <2>4, <2>5, RespawnCases DEF ReloadInv
<1> QED
  BY <1>1, <1>2, RespawnCases

LEMMA ReloadNext == TypeInv /\ ReloadInv /\ [Next]_vars => ReloadInv'
<1> SUFFICES ASSUME TypeInv, ReloadInv, [Next]_vars
             PROVE  ReloadInv'
  OBVIOUS
<1>1. ASSUME NEW w \in Workers, Listen(w)
      PROVE  ReloadInv'
  BY <1>1, ReloadListen
<1>2. ASSUME NEW w \in Workers, Crash(w) \/ Terminate(w)
      PROVE  ReloadInv'
  BY <1>2, ReloadExit DEF Crash, Terminate
<1>3. CASE Respawn
  BY <1>3, ReloadRespawn
<1>4. CASE Disconnect
  BY <1>4 DEF Disconnect, ReloadInv, Reloading, Staying, Live, Pending
<1>5. CASE UNCHANGED vars
  BY <1>5 DEF vars, ReloadInv, Reloading, Staying, Live, Pending
<1> QED
  BY <1>1, <1>2, <1>3, <1>4, <1>5 DEF Next

LEMMA CompleteNext ==
  ASSUME TypeInv, ReloadInv, Next, round.phase = "killing", round'.phase = "none"
  PROVE  \A v \in Staying' : v > round.since
<1>1. PICK w \in Live : Exit(w)
  <2>1. ASSUME NEW w \in Workers, Listen(w)
        PROVE  FALSE
    <3>1. CASE ListensAlone(w)
      BY <3>1 DEF ListensAlone
    <3>2. ASSUME NEW m \in Workers, ListensAsNew(w, m)
          PROVE  FALSE
      BY <3>2 DEF ListensAsNew
    <3> QED
      BY <2>1, <3>1, <3>2, ListenCases
  <2>2. ~Respawn /\ ~Disconnect
    BY DEF Respawn, Reloading, Disconnect
  <2> QED
    BY <2>1, <2>2 DEF Next, Crash, Terminate
<1>2. FinishesRound(w)
  <2>1. ~ContinuesRound(w) /\ ~AbortsRound(w) /\ ~KeepsRound(w)
    BY DEF ContinuesRound, AbortsRound, KeepsRound, TypeInv, TypeOK, Round
  <2> QED
    BY <1>1, <2>1, ExitForks
<1>3. Staying \cap (1 .. round.since) \subseteq {w}
  BY <1>2 DEF FinishesRound, ReloadInv, Reloading, Pending
<1>4. Staying' = (Staying \ {w}) \cup Forked
  BY <1>1, ExitStaying, ExitForks
<1>5. forked \in Nat /\ forked' \in Nat /\ round.since \in {0} \cup Workers
      /\ Staying \subseteq Workers
  BY <1>1, ExitForks, StayingFinite DEF TypeInv, TypeOK, Round
<1>6. \A v \in Forked : v > round.since
  BY <1>5 DEF Forked, Workers
<1>7. \A v \in Staying \ {w} : v > round.since
  BY <1>3, <1>5 DEF Workers
<1> QED
  BY <1>4, <1>6, <1>7

\* A reload that has finished leaves no worker from before it, however it
\* interleaves with crashes, failed starts and a stop of the server.
THEOREM ReloadsAreComplete == Spec => ReloadIsComplete
<1>1. TypeInv /\ ReloadInv /\ [Next]_vars
        => [round.phase = "killing" /\ round'.phase = "none"
              => \A w \in Staying' : w > round.since]_vars
  BY CompleteNext
<1> QED
  BY <1>1, TypeInit, TypeNext, ReloadInit, ReloadNext, PTL DEF Spec, ReloadIsComplete

-----------------------------------------------------------------------------
(* No worker too many.                                                     *)

Room == IF round.phase = "starting" \/ Stalled THEN 1 ELSE 0

LEMMA SurplusListen ==
  ASSUME KillDisconnects, TypeInv, ReloadInv, NoSurplus, NEW w \in Workers, Listen(w)
  PROVE  NoSurplus'
<1> SUFFICES ASSUME ~stopping
             PROVE  Cardinality(Staying') <= NumWorkers + Room'
  BY ListenCases DEF NoSurplus, Room
<1>1. Cardinality(Staying) \in Nat /\ NumWorkers \in Nat
  BY StayingFinite, ClusterAssumption
<1>2. Cardinality(Staying) <= NumWorkers + Room
  BY DEF NoSurplus, Room
<1>3. CASE ListensAlone(w)
  <2>1. Staying' = Staying /\ Room' = Room
    BY <1>3, ListenCases DEF ListensAlone, Staying, Room, Stalled
  <2> QED
    BY <1>2, <2>1
<1>4. CASE \E m \in Workers : ListensAsNew(w, m)
  <2>1. PICK m \in Workers : ListensAsNew(w, m)
    BY <1>4
  <2>2. /\ round.phase = "starting" /\ m \in round.old
        /\ round'.phase = "killing" /\ round'.victim = m
    BY <2>1 DEF ListensAsNew, TypeInv, TypeOK, Round
  <2>3. m \notin leaving /\ m \notin killed
    BY <2>2 DEF ReloadInv
  <2>4. Cardinality(Staying) <= NumWorkers + 1
    BY <1>2, <2>2 DEF Room
  <2>5. CASE m \in Live
    <3>1. Staying' = Staying \ {m}
      BY <2>1, <2>5, ListenCases DEF ListensAsNew, Kill, Staying
    <3>2. Cardinality(Staying') = Cardinality(Staying) - 1
      BY <2>3, <2>5, <3>1, OneLess DEF Leaves, Staying
    <3>3. Room' \in {0, 1}
      BY DEF Room
    <3> HIDE DEF Room
    <3> QED
      BY <1>1, <2>4, <3>2, <3>3
  <2>6. CASE m \notin Live
    <3>1. Staying' = Staying /\ killed' = killed
      BY <2>1, <2>6, ListenCases DEF ListensAsNew, Kill, Staying
    <3>2. Room' = 1
      BY <2>2, <2>3, <2>6, <3>1, ListenCases DEF Room, Stalled
    <3> QED
      BY <1>1, <2>4, <3>1, <3>2
  <2> QED
    BY <2>5, <2>6
<1> QED
  BY <1>3, <1>4, ListenCases

LEMMA SurplusExit ==
  ASSUME TypeInv, ReloadInv, NoSurplus, NEW w \in Live, Exit(w)
  PROVE  NoSurplus'
<1> SUFFICES ASSUME ~stopping
             PROVE  Cardinality(Staying') <= NumWorkers + Room'
  BY DEF NoSurplus, Room, Exit
<1>1. /\ Cardinality(Staying) \in Nat /\ NumWorkers \in Nat
      /\ Cardinality(Staying) <= NumWorkers + Room
      /\ Room \in {0, 1} /\ Room' \in {0, 1}
  BY StayingFinite, ClusterAssumption DEF NoSurplus, Room
<1>2. /\ Cardinality(Staying') = Cardinality(Staying) - Leaves(w) + (forked' - forked)
      /\ forked \in Nat /\ forked' \in Nat
  BY ExitStaying, ExitForks
<1>3. /\ Leaves(w) \in {0, 1} /\ Restarted(w) \in {0, 1} /\ Restarted(w) <= Leaves(w)
      /\ Restarted(w) = 1 => w \in listening
      /\ w \notin leaving => Leaves(w) = 1
  BY DEF Leaves, Restarted, Restarts, Staying, Live
<1>4. \/ Room = 0 /\ Room' = 1 /\ forked' = forked + Restarted(w) + 1
      \/ Room = 0 /\ forked' = forked + Restarted(w)
      \/ Leaves(w) = 1 /\ Restarted(w) = 0 /\ forked' = forked + Restarted(w)
      \/ Room' >= Room /\ forked' = forked + Restarted(w)
  <2>1. CASE ContinuesRound(w)
    <3>1. Room = 0
      BY <2>1 DEF ContinuesRound, Room, Stalled
    <3>2. Room' = 1
      BY <2>1 DEF ContinuesRound, Room, TypeInv, TypeOK, Round
    <3> QED
      BY <2>1, <3>1, <3>2 DEF ContinuesRound
  <2>2. CASE FinishesRound(w)
    <3>1. Room = 0
      BY <2>2 DEF FinishesRound, Room, Stalled
    <3> QED
      BY <2>2, <3>1 DEF FinishesRound
  <2>3. CASE AbortsRound(w)
    <3>1. Leaves(w) = 1 /\ Restarted(w) = 0
      BY <1>3, <2>3 DEF AbortsRound, ReloadInv
    <3> QED
      BY <2>3, <3>1 DEF AbortsRound
  <2>4. CASE KeepsRound(w)
    <3>1. round' = round /\ killed' = killed
      BY <2>4 DEF KeepsRound, Exit
    <3>2. Stalled => Stalled'
      <4>1. Live' = (Live \ {w}) \cup Forked
        BY DEF Exit, Live, Forked
      <4>2. round.victim \notin Forked
        BY <1>2 DEF Forked, TypeInv, TypeOK, Round, Workers
      <4> QED
        BY <3>1, <4>1, <4>2 DEF Stalled
    <3>3. Room' >= Room
      BY <3>1, <3>2 DEF Room
    <3> QED
      BY <2>4, <3>3 DEF KeepsRound
  <2> QED
    BY <2>1, <2>2, <2>3, <2>4, ExitForks
<1> DEFINE c == Cardinality(Staying)
           d == Cardinality(Staying')
           e == Room
           h == Room'
           a == forked
           b == forked'
           l == Leaves(w)
           r == Restarted(w)
<1>5. /\ c \in Nat /\ NumWorkers \in Nat /\ e \in {0, 1} /\ h \in {0, 1} /\ l \in {0, 1}
      /\ r \in {0, 1} /\ r <= l /\ a \in Nat /\ b \in Nat
      /\ c <= NumWorkers + e /\ d = c - l + (b - a)
      /\ \/ e = 0 /\ h = 1 /\ b = a + r + 1
         \/ e = 0 /\ b = a + r
         \/ l = 1 /\ r = 0 /\ b = a + r
         \/ h >= e /\ b = a + r
  BY <1>1, <1>2, <1>3, <1>4
<1> HIDE DEF c, d, e, h, a, b, l, r
<1>6. d <= NumWorkers + h
  BY <1>5
<1> QED
  BY <1>6 DEF d, h

LEMMA SurplusRespawn ==
  ASSUME TypeInv, NoSurplus, Respawn
  PROVE  NoSurplus'
<1>1. /\ Cardinality(Staying) \in Nat /\ NumWorkers \in Nat
      /\ forked \in Nat
  BY StayingFinite, ClusterAssumption DEF TypeInv, TypeOK
<1>2. forked' \in Nat /\ forked <= forked'
  BY <1>1, RespawnCases
<1>3. Cardinality(Staying') = Cardinality(Staying) + (forked' - forked)
  BY <1>1, <1>2, RespawnCases, StayingFinite, AddForked
<1>4. stopping \/ Cardinality(Staying) <= NumWorkers
  <2>1. ~(round.phase = "starting" \/ Stalled)
    BY RespawnCases DEF Stalled
  <2>2. stopping \/ Cardinality(Staying) <= NumWorkers + 0
    BY <2>1 DEF NoSurplus
  <2> QED
    BY <1>1, <2>2
<1>5. CASE forked' = forked /\ round' = NoRound
  <2>1. Cardinality(Staying') = Cardinality(Staying)
    BY <1>1, <1>3, <1>5
  <2>2. ~(round'.phase = "starting" \/ Stalled')
    BY <1>5 DEF NoRound, Stalled
  <2> QED
    BY <1>1, <1>4, <2>1, <2>2, RespawnCases DEF NoSurplus
<1>6. CASE forked' = forked + 1 /\ round'.phase = "starting"
  <2>1. Cardinality(Staying') = Cardinality(Staying) + 1
    BY <1>1, <1>3, <1>6
  <2> QED
    BY <1>1, <1>4, <1>6, <2>1, RespawnCases DEF NoSurplus
<1> QED
  BY <1>5, <1>6, RespawnCases

LEMMA SurplusInit == Init => NoSurplus
<1> SUFFICES ASSUME Init
             PROVE  NoSurplus
  OBVIOUS
<1>1. NumWorkers \in Nat /\ Staying = 0 + 1 .. NumWorkers
  BY ClusterAssumption DEF Init, Staying, Live
<1>2. Cardinality(Staying) = NumWorkers
  BY <1>1, IntervalSize
<1> QED
  BY <1>1, <1>2 DEF Init, NoSurplus, NoRound, Stalled

LEMMA SurplusNext ==
  ASSUME KillDisconnects
  PROVE  TypeInv /\ ReloadInv /\ NoSurplus /\ [Next]_vars => NoSurplus'
<1> SUFFICES ASSUME TypeInv, ReloadInv, NoSurplus, [Next]_vars
             PROVE  NoSurplus'
  OBVIOUS
<1>1. ASSUME NEW w \in Workers, Listen(w)
      PROVE  NoSurplus'
  BY <1>1, SurplusListen
<1>2. ASSUME NEW w \in Workers, Crash(w) \/ Terminate(w)
      PROVE  NoSurplus'
  BY <1>2, SurplusExit DEF Crash, Terminate
<1>3. CASE Respawn
  BY <1>3, SurplusRespawn
<1>4. CASE Disconnect
  BY <1>4 DEF Disconnect, NoSurplus
<1>5. CASE UNCHANGED vars
  BY <1>5 DEF vars, NoSurplus, Staying, Live, Stalled
<1> QED
  BY <1>1, <1>2, <1>3, <1>4, <1>5 DEF Next

\* When kill() counts as a disconnection, crashes and reloads never leave a
\* worker too many.  (Otherwise line 76 replaces the killed worker again.)
THEOREM NeverASurplus ==
  ASSUME KillDisconnects
  PROVE  Spec => []NoSurplus
BY TypeInit, TypeNext, ReloadInit, ReloadNext, SurplusInit, SurplusNext, PTL DEF Spec

-----------------------------------------------------------------------------
(* Reloading without downtime.                                             *)

\* The new worker of a reload is nobody that the reload replaces, and was not
\* told to go, but by a stop of the server.
NewWorkerInv == round.phase = "starting" =>
  /\ round.new \notin round.old \cup killed
  /\ ~stopping => round.new \notin leaving

LEMMA NewWorkerExit ==
  ASSUME TypeInv, NewWorkerInv, NEW w \in Live, Exit(w)
  PROVE  NewWorkerInv'
<1>1. UNCHANGED <<leaving, killed, stopping>>
  BY DEF Exit
<1>2. CASE ContinuesRound(w)
  <2>1. /\ round'.new = forked' /\ round'.old = round.old
        /\ forked' > forked
    BY <1>2, ExitForks DEF ContinuesRound, TypeInv, TypeOK, Round, Restarted
  <2>2. forked' \notin Workers
    BY <2>1, ExitForks DEF Workers
  <2>3. round.old \cup killed \cup leaving \subseteq Workers
    BY DEF TypeInv, TypeOK, Round
  <2> QED
    BY <1>1, <2>1, <2>2, <2>3 DEF NewWorkerInv
<1>3. CASE FinishesRound(w) \/ AbortsRound(w)
  BY <1>3 DEF FinishesRound, AbortsRound, NoRound, NewWorkerInv
<1>4. CASE KeepsRound(w)
  BY <1>1, <1>4 DEF KeepsRound, NewWorkerInv
<1> QED
  BY <1>2, <1>3, <1>4, ExitForks

LEMMA NewWorkerRespawn ==
  ASSUME TypeInv, Respawn
  PROVE  NewWorkerInv'
<1>1. CASE round' = NoRound
  BY <1>1 DEF NewWorkerInv, NoRound
<1>2. CASE round' = [phase |-> "starting", old |-> Staying, new |-> forked + 1,
                     victim |-> 0, since |-> forked]
  <2>1. round'.new = forked + 1 /\ round'.old = Staying
    BY <1>2
  <2>2. forked \in Nat /\ Staying \cup killed \cup leaving \subseteq Workers
    BY StayingFinite DEF TypeInv, TypeOK
  <2>3. forked + 1 \notin Workers
    BY <2>2 DEF Workers
  <2> QED
    BY <2>1, <2>2, <2>3, RespawnCases DEF NewWorkerInv
<1> QED
  BY <1>1, <1>2, RespawnCases

LEMMA NewWorkerNext == TypeInv /\ NewWorkerInv /\ [Next]_vars => NewWorkerInv'
<1> SUFFICES ASSUME TypeInv, NewWorkerInv, [Next]_vars
             PROVE  NewWorkerInv'
  OBVIOUS
<1>1. ASSUME NEW w \in Workers, Listen(w)
      PROVE  NewWorkerInv'
  <2>1. CASE ListensAlone(w)
    BY <1>1, <2>1, ListenCases DEF ListensAlone, NewWorkerInv
  <2>2. ASSUME NEW m \in Workers, ListensAsNew(w, m)
        PROVE  NewWorkerInv'
    <3>1. round'.phase = "killing"
      BY <2>2 DEF ListensAsNew, TypeInv, TypeOK, Round
    <3> QED
      BY <3>1 DEF NewWorkerInv
  <2> QED
    BY <1>1, <2>1, <2>2, ListenCases
<1>2. ASSUME NEW w \in Workers, Crash(w) \/ Terminate(w)
      PROVE  NewWorkerInv'
  BY <1>2, NewWorkerExit DEF Crash, Terminate
<1>3. CASE Respawn
  BY <1>3, NewWorkerRespawn
<1>4. CASE Disconnect
  BY <1>4 DEF Disconnect, NewWorkerInv
<1>5. CASE UNCHANGED vars
  BY <1>5 DEF vars, NewWorkerInv
<1> QED
  BY <1>1, <1>2, <1>3, <1>4, <1>5 DEF Next

\* The worker that starts to listen makes up for the one it replaces.
LEMMA ListenServes ==
  ASSUME TypeInv, NewWorkerInv, NEW w \in Workers, Listen(w), ~stopping, leaving' # leaving
  PROVE  Cardinality(Serving') >= Cardinality(Serving)
<1>1. PICK m \in Workers : ListensAsNew(w, m)
  BY ListenCases DEF ListensAlone
<1>2. /\ w \notin leaving \cup killed /\ m # w /\ w \notin listening
      /\ leaving' \subseteq leaving \cup {m} /\ killed' \subseteq killed \cup {m}
      /\ listening' = listening \cup {w}
  BY <1>1 DEF ListensAsNew, NewWorkerInv, Kill, Listen, TypeInv, TypeOK
<1>3. (Serving \ {m}) \cup {w} \subseteq Serving' /\ w \notin Serving \ {m}
  BY <1>2 DEF Serving
<1>4. IsFiniteSet(Serving) /\ IsFiniteSet(Serving')
  <2>1. Serving \in SUBSET Workers /\ Serving' \in SUBSET Workers
    BY <1>2 DEF Serving, TypeInv, TypeOK
  <2>2. IsFiniteSet(Workers)
    BY FS_Interval DEF Workers, TypeInv, TypeOK
  <2> QED
    BY <2>1, <2>2, FS_Subset
<1>5. IsFiniteSet(Serving \ {m}) /\ Cardinality(Serving \ {m}) >= Cardinality(Serving) - 1
      /\ Cardinality(Serving \ {m}) \in Nat /\ Cardinality(Serving) \in Nat
  <2>1. IsFiniteSet(Serving \ {m}) /\ Cardinality(Serving) \in Nat
    BY <1>4, FS_RemoveElement, FS_CardinalityType
  <2>2. Cardinality(Serving \ {m}) \in Nat
    BY <2>1, FS_CardinalityType
  <2>3. Cardinality(Serving \ {m}) = IF m \in Serving THEN Cardinality(Serving) - 1
                                                       ELSE Cardinality(Serving)
    BY <1>4, FS_RemoveElement
  <2> QED
    BY <2>1, <2>2, <2>3
<1>6. Cardinality((Serving \ {m}) \cup {w}) = Cardinality(Serving \ {m}) + 1
  BY <1>3, <1>5, FS_AddElement
<1>7. Cardinality((Serving \ {m}) \cup {w}) <= Cardinality(Serving')
  BY <1>3, <1>4, FS_Subset
<1>8. Cardinality(Serving') \in Nat
  BY <1>4, FS_CardinalityType
<1> QED
  BY <1>5, <1>6, <1>7, <1>8

\* Replacing the workers costs no serving worker: one is told to go only when
\* another one has started to listen, and this is not one that will go, too.
THEOREM ReloadsWithoutDowntime == Spec => NoDowntime
<1>1. TypeInv /\ NewWorkerInv /\ [Next]_vars
        => [~stopping' /\ leaving' # leaving
              => Cardinality(Serving') >= Cardinality(Serving)]_vars
  <2> SUFFICES ASSUME TypeInv, NewWorkerInv, Next, ~stopping', leaving' # leaving
               PROVE  Cardinality(Serving') >= Cardinality(Serving)
    BY DEF vars
  <2>1. PICK w \in Workers : Listen(w)
    BY DEF Next, Crash, Terminate, Exit, Respawn, Disconnect
  <2> QED
    BY <2>1, ListenCases, ListenServes
<1>2. Init => NewWorkerInv
  BY DEF Init, NewWorkerInv, NoRound
<1> QED
  BY <1>1, <1>2, TypeInit, TypeNext, NewWorkerNext, PTL DEF Spec, NoDowntime
=============================================================================
