----------------------- MODULE WorkerLifecycleProofs -----------------------
(***************************************************************************)
(* Theorems about the life of a worker, for any number of datasources,     *)
(* every configuration and any number of connections.                      *)
(***************************************************************************)
EXTENDS WorkerLifecycle, FiniteSetTheorems, TLAPS

Unsettled == {d \in Datasources : ~Settled(d)}

\* The countdown is the number of datasources that have not settled.
CountdownInv == pending = Cardinality(Unsettled)

\* What holds before run() is called.
StartInv ==
  process = "starting" =>
    /\ server = "created"
    /\ interrupted = 0
    /\ loading = {}
    /\ \A d \in Datasources : ~Settled(d) /\ document[d] = "none"

ServerInv ==
  /\ server # "created" => pending = 0
  /\ Running /\ config.validPort /\ NumDatasources # 0 =>
       (pending = 0 => server # "created")

StopInv ==
  interrupted > 0 /\ ~stoppedEarly =>
    /\ pending = 0
    /\ server # "listening" /\ sockets = destroyed

DocumentInv ==
  /\ \A d \in loading : ~Initialized(d) /\ document[d] = "none"
  /\ interrupted > 0 => loading \cap Of("hdt") \subseteq closeWhenReady
  /\ DocumentsAreClosed

Inv == /\ TypeOK
       /\ CountdownInv
       /\ StartInv
       /\ ServerInv
       /\ StopInv
       /\ DocumentInv

-----------------------------------------------------------------------------
(* The countdown.                                                          *)

LEMMA DatasourcesFinite ==
  /\ IsFiniteSet(Datasources)
  /\ Cardinality(Datasources) = NumDatasources
<1>1. NumDatasources \in Nat
  BY LifecycleAssumption
<1> QED
  BY <1>1, FS_Interval DEF Datasources

LEMMA UnsettledFinite ==
  /\ IsFiniteSet(Unsettled)
  /\ Cardinality(Unsettled) \in Nat
  /\ Cardinality(Unsettled) = 0 <=> \A d \in Datasources : Settled(d)
<1>1. Unsettled \in SUBSET Datasources
  BY DEF Unsettled
<1>2. IsFiniteSet(Unsettled)
  BY <1>1, DatasourcesFinite, FS_Subset
<1>3. Unsettled = {} <=> \A d \in Datasources : Settled(d)
  BY DEF Unsettled
<1> QED
  BY <1>2, <1>3, FS_EmptySet, FS_CardinalityType

\* An event of one datasource keeps the countdown right, whether it is the
\* first event of the datasource or not.
LEMMA CountdownStep ==
  ASSUME CountdownInv, NEW d \in Datasources, Countdown(d), pending \in Nat,
         Settled(d)', \A e \in Datasources \ {d} : emitted'[e] = emitted[e]
  PROVE  /\ CountdownInv'
         /\ pending' \in Nat /\ pending' <= pending
         /\ pending # 0 /\ pending' = 0 <=> Completes(d)
<1>1. Unsettled' = Unsettled \ {d}
  BY DEF Unsettled, Settled
<1>2. d \in Unsettled <=> ~Settled(d)
  BY DEF Unsettled
<1>3. Cardinality(Unsettled \ {d}) =
        IF d \in Unsettled THEN Cardinality(Unsettled) - 1 ELSE Cardinality(Unsettled)
  BY UnsettledFinite, FS_RemoveElement
<1>4. Cardinality(Unsettled \ {d}) \in Nat
  BY UnsettledFinite, FS_RemoveElement, FS_CardinalityType
<1>5. Cardinality(Unsettled') = Cardinality(Unsettled)' /\ Cardinality(Unsettled') = Cardinality(Unsettled \ {d})
  BY <1>1
<1>6. pending = Cardinality(Unsettled)
  BY DEF CountdownInv
<1>7. pending' = Cardinality(Unsettled)'
  BY <1>2, <1>3, <1>5, <1>6 DEF Countdown
<1>8. pending' \in Nat
  BY <1>4, <1>5, <1>7
<1>9. pending' = IF Settled(d) THEN pending ELSE pending - 1
  BY DEF Countdown
<1> QED
  BY <1>7, <1>8, <1>9 DEF CountdownInv, Completes

-----------------------------------------------------------------------------
(* The invariant.                                                          *)

LEMMA InvInit == Init => Inv
<1> SUFFICES ASSUME Init PROVE Inv
  OBVIOUS
<1>1. NumDatasources \in Nat
  BY LifecycleAssumption
<1>2. Unsettled = Datasources
  BY DEF Init, Unsettled, Settled, Datasources
<1>3. CountdownInv
  BY <1>2, DatasourcesFinite DEF Init, CountdownInv
<1>4. TypeOK
  <2>1. emitted \in [Datasources -> SUBSET {"initialized", "error"}]
    BY DEF Init
  <2>2. /\ document \in [Datasources -> {"none", "open", "closed"}]
        /\ \A d \in Datasources : document[d] = "none"
    BY DEF Init
  <2>3. pending \in 0 .. NumDatasources /\ interrupted \in 0 .. 2
    BY <1>1 DEF Init
  <2>4. /\ process \in {"starting", "running", "exited"}
        /\ server \in {"created", "listening", "closed"}
        /\ stoppedEarly \in BOOLEAN
    BY DEF Init
  <2>5. /\ config \in Configurations
        /\ loading \subseteq Datasources /\ listed \subseteq Datasources
        /\ closeWhenReady \subseteq Of("hdt")
        /\ sockets \subseteq Clients /\ destroyed \subseteq sockets
    BY DEF Init
  <2>6. \A d \in Datasources : document[d] # "none" => d \in Of("hdt")
    BY <2>2
  <2> QED
    BY <2>1, <2>2, <2>3, <2>4, <2>5, <2>6 DEF TypeOK
<1>5. StartInv
  BY DEF Init, StartInv, Settled
<1>6. ServerInv
  BY DEF Init, ServerInv, Running
<1>7. StopInv /\ DocumentInv
  BY DEF Init, StopInv, DocumentInv, DocumentsAreClosed
<1> QED
  BY <1>3, <1>4, <1>5, <1>6, <1>7 DEF Inv

LEMMA InvRun == Inv /\ Run => Inv'
<1> SUFFICES ASSUME Inv, Run PROVE Inv'
  OBVIOUS
<1> DEFINE atOnce == Of("disabled") \cup Of("throwing")
<1>1. NumDatasources \in Nat /\ pending \in Nat
  BY LifecycleAssumption DEF Inv, TypeOK
<1>2. /\ process = "starting" /\ server = "created" /\ interrupted = 0
      /\ \A d \in Datasources : document[d] = "none"
  BY DEF Run, Inv, StartInv
<1>3. /\ UNCHANGED <<config, document, closeWhenReady, sockets, destroyed, interrupted, stoppedEarly>>
      /\ pending' = NumDatasources - Cardinality(atOnce)
      /\ loading' = Datasources \ atOnce
      /\ process' \in {"running", "exited"}
  BY DEF Run
<1>4. Unsettled' = Datasources \ atOnce
  BY DEF Run, Unsettled, Settled, Of
<1>5. /\ IsFiniteSet(Datasources \ atOnce)
      /\ Cardinality(Datasources \ atOnce) = NumDatasources - Cardinality(Datasources \cap atOnce)
  BY DatasourcesFinite, FS_Difference
<1>6. Datasources \cap atOnce = atOnce
  BY DEF Of
<1>7. Cardinality(Unsettled)' = Cardinality(Datasources \ atOnce)
  BY <1>4
<1>8. CountdownInv' /\ pending' \in Nat
  BY <1>3, <1>5, <1>6, <1>7, FS_CardinalityType DEF CountdownInv
<1>9. pending' <= NumDatasources
  <2>1. IsFiniteSet(atOnce)
    BY DatasourcesFinite, <1>6, FS_Subset
  <2>2. Cardinality(atOnce) \in Nat
    BY <2>1, FS_CardinalityType
  <2> QED
    BY <1>1, <1>3, <2>2
<1>10. TypeOK'
  <2>1. emitted' \in [Datasources -> SUBSET {"initialized", "error"}]
    BY DEF Run
  <2>2. listed' \subseteq Datasources
    BY DEF Run, Listed
  <2>3. server' \in {"created", "listening", "closed"}
    BY DEF Run, ListenWhenReady, Inv, TypeOK
  <2> QED
    BY <1>1, <1>3, <1>8, <1>9, <2>1, <2>2, <2>3 DEF Inv, TypeOK, Of
<1>11. pending = NumDatasources
  <2>1. Unsettled = Datasources
    BY <1>2 DEF Inv, StartInv, Unsettled
  <2> QED
    BY <2>1, DatasourcesFinite DEF Inv, CountdownInv
<1>12. ServerInv'
  BY <1>2, <1>3, <1>11 DEF Run, ListenWhenReady, ServerInv, Running
<1>13. StartInv' /\ StopInv'
  BY <1>2, <1>3 DEF StartInv, StopInv
<1>14. DocumentInv'
  <2>1. \A d \in loading' : ~Initialized(d)'
    BY <1>3 DEF Run, Initialized, Of
  <2> QED
    BY <1>2, <1>3, <2>1 DEF DocumentInv, DocumentsAreClosed
<1> QED
  BY <1>8, <1>10, <1>12, <1>13, <1>14 DEF Inv

\* What the three ways of settling have in common: one event of d is counted,
\* and the server listens when it was the last.
LEMMA InvSettle ==
  ASSUME Inv, Running, NEW d \in loading,
         Countdown(d), ListenWhenReady,
         NEW events \in SUBSET {"initialized", "error"}, events # {},
         emitted' = [emitted EXCEPT ![d] = @ \cup events],
         process' \in {"running", "exited"},
         loading' \subseteq loading,
         UNCHANGED <<config, listed, sockets, destroyed, interrupted, stoppedEarly>>,
         document' \in [Datasources -> {"none", "open", "closed"}],
         \A e \in Datasources : document'[e] # "none" => e \in Of("hdt"),
         closeWhenReady' \subseteq Of("hdt")
  PROVE  /\ TypeOK' /\ CountdownInv' /\ StartInv' /\ ServerInv' /\ StopInv'
         /\ pending # 0 /\ pending' = 0 <=> Completes(d)
<1>1. d \in Datasources /\ pending \in Nat
  BY LifecycleAssumption DEF Inv, TypeOK
<1>2. /\ emitted' \in [Datasources -> SUBSET {"initialized", "error"}]
      /\ emitted'[d] = emitted[d] \cup events
      /\ \A e \in Datasources \ {d} : emitted'[e] = emitted[e]
  BY <1>1 DEF Inv, TypeOK
<1>3. Settled(d)'
  BY <1>2 DEF Settled
<1>4. /\ CountdownInv'
      /\ pending' \in Nat /\ pending' <= pending
      /\ pending # 0 /\ pending' = 0 <=> Completes(d)
  BY <1>1, <1>2, <1>3, CountdownStep DEF Inv
<1>5. server' \in {"created", "listening", "closed"}
  BY DEF ListenWhenReady, Inv, TypeOK
<1>6. pending' \in 0 .. NumDatasources
  BY <1>1, <1>4, LifecycleAssumption DEF Inv, TypeOK
<1>7. TypeOK'
  BY <1>2, <1>5, <1>6 DEF Inv, TypeOK, Of
<1>8. StartInv'
  BY DEF StartInv, Running
<1>9. ServerInv'
  BY <1>1, <1>4 DEF ServerInv, Inv, ListenWhenReady, Running
<1>10. StopInv'
  BY <1>1, <1>4 DEF StopInv, Inv, ListenWhenReady, Running
<1> QED
  BY <1>4, <1>7, <1>8, <1>9, <1>10

LEMMA InvLoad ==
  ASSUME Inv, NEW d \in Datasources, Load(d)
  PROVE  Inv'
<1> DEFINE events == IF Throws(d) THEN {"initialized", "error"} ELSE {"initialized"}
<1>1. /\ Running /\ d \in loading
      /\ Countdown(d) /\ ListenWhenReady
      /\ emitted' = [emitted EXCEPT ![d] = @ \cup events]
      /\ process' = process
      /\ loading' = loading \ {d}
      /\ UNCHANGED <<config, listed, sockets, destroyed, interrupted, stoppedEarly>>
  BY DEF Load
<1>2. events \in SUBSET {"initialized", "error"} /\ events # {}
  OBVIOUS
<1>3. document' = [document EXCEPT ![d] =
        CASE config.kind[d] # "hdt" -> "none"
          [] d \in closeWhenReady /\ ~Throws(d) -> "closed"
          [] OTHER -> "open"]
  BY DEF Load
<1>4. /\ \A e \in Datasources \ {d} : document'[e] = document[e]
      /\ document'[d] \in {"none", "open", "closed"}
      /\ document'[d] # "none" => d \in Of("hdt")
      /\ document'[d] = "open" => d \in Of("hdt") /\ (d \notin closeWhenReady \/ Throws(d))
      /\ document' \in [Datasources -> {"none", "open", "closed"}]
  BY <1>3 DEF Inv, TypeOK, Of
<1>5. \A e \in Datasources : document'[e] # "none" => e \in Of("hdt")
  BY <1>4 DEF Inv, TypeOK
<1>6. closeWhenReady' \subseteq closeWhenReady /\ closeWhenReady \subseteq closeWhenReady' \cup {d}
  BY DEF Load
<1>7. closeWhenReady' \subseteq Of("hdt")
  BY <1>6 DEF Inv, TypeOK
<1>8. process' \in {"running", "exited"} /\ loading' \subseteq loading
  BY <1>1 DEF Running
<1> HIDE DEF events
<1>9. TypeOK' /\ CountdownInv' /\ StartInv' /\ ServerInv' /\ StopInv'
  BY <1>1, <1>2, <1>4, <1>5, <1>7, <1>8, InvSettle
<1>10. \A e \in loading' : ~Initialized(e)' /\ document'[e] = "none"
  <2> SUFFICES ASSUME NEW e \in loading' PROVE ~Initialized(e)' /\ document'[e] = "none"
    OBVIOUS
  <2>1. e # d /\ e \in loading /\ e \in Datasources
    BY <1>1 DEF Inv, TypeOK
  <2>2. emitted'[e] = emitted[e]
    BY <1>1, <2>1 DEF Inv, TypeOK
  <2> QED
    BY <1>4, <2>1, <2>2 DEF Inv, DocumentInv, Initialized
<1>11. interrupted' > 0 => loading' \cap Of("hdt")' \subseteq closeWhenReady'
  BY <1>1, <1>6 DEF Inv, DocumentInv, Of
<1>12. DocumentsAreClosed'
  <2> SUFFICES ASSUME interrupted > 0, config.validPort, NEW e \in Datasources
               PROVE  document'[e] # "open"
    BY <1>1 DEF DocumentsAreClosed
  <2>1. CASE e = d
    BY <1>1, <1>4, <2>1 DEF Inv, DocumentInv, Throws
  <2>2. CASE e # d
    BY <1>4, <2>2 DEF Inv, DocumentInv, DocumentsAreClosed
  <2> QED
    BY <2>1, <2>2
<1> QED
  BY <1>9, <1>10, <1>11, <1>12 DEF Inv, DocumentInv

\* A failure, of _initialize or of a stream, leaves the documents alone.
LEMMA InvFailure ==
  ASSUME Inv, Running, NEW d \in loading, Emit(d, "error"),
         Countdown(d), ListenWhenReady,
         process' \in {"running", "exited"},
         loading' \subseteq loading,
         UNCHANGED <<config, listed, document, closeWhenReady, sockets, destroyed,
                     interrupted, stoppedEarly>>
  PROVE  Inv'
<1>1. emitted' = [emitted EXCEPT ![d] = @ \cup {"error"}]
  BY DEF Emit
<1>2. {"error"} \in SUBSET {"initialized", "error"} /\ {"error"} # {}
  OBVIOUS
<1>3. /\ document' \in [Datasources -> {"none", "open", "closed"}]
      /\ \A e \in Datasources : document'[e] # "none" => e \in Of("hdt")
      /\ closeWhenReady' \subseteq Of("hdt")
  BY DEF Inv, TypeOK
<1> DEFINE events == {"error"}
<1> HIDE DEF events
<1>4. TypeOK' /\ CountdownInv' /\ StartInv' /\ ServerInv' /\ StopInv'
  <2>1. /\ emitted' = [emitted EXCEPT ![d] = @ \cup events]
        /\ events \in SUBSET {"initialized", "error"} /\ events # {}
    BY <1>1, <1>2 DEF events
  <2> QED
    BY <1>3, <2>1, InvSettle
<1>5. \A e \in loading' : ~Initialized(e)'
  <2> SUFFICES ASSUME NEW e \in loading' PROVE ~Initialized(e)'
    OBVIOUS
  <2>1. e \in loading /\ e \in Datasources
    BY DEF Inv, TypeOK
  <2>2. emitted'[e] = emitted[e] \/ emitted'[e] = emitted[e] \cup {"error"}
    BY <1>1, <2>1 DEF Inv, TypeOK
  <2> QED
    BY <2>1, <2>2 DEF Inv, DocumentInv, Initialized
<1>6. DocumentInv'
  BY <1>5 DEF Inv, DocumentInv, DocumentsAreClosed, Of
<1> QED
  BY <1>4, <1>6 DEF Inv

LEMMA InvLoadFails ==
  ASSUME Inv, NEW d \in Datasources, LoadFails(d)
  PROVE  Inv'
<1>1. process' \in {"running", "exited"} /\ loading' \subseteq loading
  BY DEF LoadFails
<1> QED
  BY <1>1, InvFailure DEF LoadFails

LEMMA InvFetchFails ==
  ASSUME Inv, NEW d \in Datasources, FetchFails(d)
  PROVE  Inv'
<1>1. process' \in {"running", "exited"} /\ loading' \subseteq loading
  BY DEF FetchFails
<1> QED
  BY <1>1, InvFailure DEF FetchFails

\* What happens to the connections leaves the countdown alone.
LEMMA InvConnections ==
  ASSUME Inv, NEW c \in Clients, Connect(c) \/ SocketCloses(c)
  PROVE  Inv'
<1> USE DEF Connect, SocketCloses
<1>1. TypeOK'
  BY DEF Inv, TypeOK, Of
<1>2. CountdownInv' /\ StartInv' /\ ServerInv'
  BY DEF Inv, CountdownInv, Unsettled, Settled, StartInv, ServerInv, Running
<1>3. StopInv'
  BY DEF Inv, StopInv
<1>4. DocumentInv'
  BY DEF Inv, DocumentInv, DocumentsAreClosed, Initialized, Of
<1> QED
  BY <1>1, <1>2, <1>3, <1>4 DEF Inv

LEMMA InvExit ==
  ASSUME Inv, ServerError \/ Kill
  PROVE  Inv'
<1>1. /\ process = "running" /\ process' = "exited" /\ interrupted' \in 0 .. 2
      /\ UNCHANGED <<config, server, pending, emitted, loading, listed, document,
                     closeWhenReady, sockets, destroyed, stoppedEarly>>
      /\ (interrupted' > 0 <=> interrupted > 0)
  BY DEF ServerError, Kill, serverVars, Running, Inv, TypeOK
<1>2. TypeOK'
  BY <1>1 DEF Inv, TypeOK, Of
<1>3. CountdownInv' /\ StartInv' /\ ServerInv'
  BY <1>1 DEF Inv, CountdownInv, Unsettled, Settled, StartInv, ServerInv, Running
<1>4. StopInv' /\ DocumentInv'
  BY <1>1 DEF Inv, StopInv, DocumentInv, DocumentsAreClosed, Initialized, Of
<1> QED
  BY <1>2, <1>3, <1>4 DEF Inv

LEMMA InvStop ==
  ASSUME Inv, Stop
  PROVE  Inv'
<1>1. /\ Running /\ interrupted = 0 /\ interrupted' = 1
      /\ stoppedEarly' = (pending # 0)
      /\ server' = (IF server = "listening" THEN "closed" ELSE server)
      /\ destroyed' = sockets
      /\ UNCHANGED <<config, process, pending, emitted, loading, listed, sockets>>
  BY DEF Stop, Close
<1>2. /\ document' = [d \in Datasources |->
                        IF document[d] = "open" THEN "closed" ELSE document[d]]
      /\ closeWhenReady' = closeWhenReady \cup
           {d \in Of("hdt") : document[d] # "open" /\ ~Initialized(d)}
  BY DEF Stop, CloseDatasources
<1>3. TypeOK'
  BY <1>1, <1>2 DEF Inv, TypeOK, Of
<1>4. CountdownInv' /\ StartInv' /\ ServerInv'
  BY <1>1 DEF Inv, CountdownInv, Unsettled, Settled, StartInv, ServerInv, Running
<1>5. StopInv'
  BY <1>1 DEF Inv, StopInv
<1>6. \A d \in loading' : ~Initialized(d)' /\ document'[d] = "none"
  BY <1>1, <1>2 DEF Inv, TypeOK, DocumentInv, Initialized
<1>7. loading' \cap Of("hdt")' \subseteq closeWhenReady'
  BY <1>1, <1>2 DEF Inv, DocumentInv, Of
<1>8. DocumentsAreClosed'
  BY <1>2 DEF DocumentsAreClosed
<1> QED
  BY <1>3, <1>4, <1>5, <1>6, <1>7, <1>8 DEF Inv, DocumentInv

LEMMA InvNext == Inv /\ [Next]_vars => Inv'
<1> SUFFICES ASSUME Inv, [Next]_vars PROVE Inv'
  OBVIOUS
<1>1. CASE Run
  BY <1>1, InvRun
<1>2. ASSUME NEW d \in Datasources, Load(d) \/ LoadFails(d) \/ FetchFails(d) PROVE Inv'
  BY <1>2, InvLoad, InvLoadFails, InvFetchFails
<1>3. ASSUME NEW c \in Clients, Connect(c) \/ SocketCloses(c) PROVE Inv'
  BY <1>3, InvConnections
<1>4. CASE ServerError \/ Kill
  BY <1>4, InvExit
<1>5. CASE Stop
  BY <1>5, InvStop
<1>6. CASE UNCHANGED vars
  BY <1>6 DEF vars, serverVars, Inv, TypeOK, CountdownInv, Unsettled, Settled, StartInv,
         ServerInv, StopInv, DocumentInv, DocumentsAreClosed, Initialized, Running, Of
<1> QED
  BY <1>1, <1>2, <1>3, <1>4, <1>5, <1>6 DEF Next

LEMMA InvHolds == Spec => []Inv
<1> QED
  BY InvInit, InvNext, PTL DEF Spec

-----------------------------------------------------------------------------
(* What the index lists.                                                   *)

\* Since its turn, the index lists what the configuration does not hide, but
\* possibly datasources that threw before that turn, which never load.
IndexInv ==
  process # "starting" =>
    /\ \A d \in Of("throwing") : d \notin loading /\ ~Initialized(d)
    /\ Of("index") # {} => \A d \in Datasources \ Of("index") :
         /\ d \notin config.hidden \cup Of("disabled") \cup Of("throwing") => d \in listed
         /\ d \in listed => d \notin config.hidden \cup Of("disabled")

LEMMA IndexRun ==
  ASSUME Inv, Run
  PROVE  IndexInv'
<1>1. /\ \A d \in Datasources : emitted[d] = {}
      /\ config' = config
      /\ listed' = UNION {Listed(i) : i \in Of("index")}
      /\ loading' = Datasources \ (Of("disabled") \cup Of("throwing"))
  BY DEF Run, Inv, StartInv, Settled
<1>2. Hidden = config.hidden \cup Of("disabled")
  BY <1>1 DEF Hidden
<1>3. \A d \in Of("throwing") : d \notin loading' /\ ~Initialized(d)'
  <2>1. \A d \in Of("throwing") : d \in Datasources /\ d \notin Of("disabled")
    BY DEF Of
  <2>2. \A d \in Of("throwing") : emitted'[d] = {"error"}
    BY <2>1 DEF Run
  <2> QED
    BY <1>1, <2>2 DEF Initialized
<1>4. ASSUME NEW d \in Datasources \ Of("index"), Of("index") # {}
      PROVE  /\ d \notin config.hidden \cup Of("disabled") \cup Of("throwing") => d \in listed'
             /\ d \in listed' => d \notin config.hidden \cup Of("disabled")
  <2>1. PICK i \in Of("index") : i # d
    BY <1>4
  <2>2. d \notin Hidden \cup Of("throwing") => d \in Listed(i)
    BY <2>1 DEF Listed, Of
  <2>3. \A j \in Of("index") : d \in Listed(j) => d \notin Hidden
    BY DEF Listed
  <2> QED
    BY <1>1, <1>2, <2>2, <2>3
<1> QED
  BY <1>1, <1>3, <1>4 DEF IndexInv, Of

\* Afterwards the list stays, and only what loads is initialized.
LEMMA IndexLater ==
  ASSUME Inv, IndexInv, [Next]_vars, ~Run
  PROVE  IndexInv'
<1>1. config' = config /\ listed' = listed /\ loading' \subseteq loading
      /\ (process' # "starting" => process # "starting")
  BY DEF Next, Load, LoadFails, FetchFails, Connect, SocketCloses, ServerError, Stop, Kill,
         vars, serverVars, Running
<1>2. ASSUME NEW e \in Datasources, e \notin loading, ~Initialized(e)
      PROVE  ~Initialized(e)'
  <2>1. ASSUME NEW d \in Datasources, Load(d)
        PROVE  emitted'[e] = emitted[e]
    BY <1>2, <2>1 DEF Load, Inv, TypeOK
  <2>2. ASSUME NEW d \in Datasources, LoadFails(d) \/ FetchFails(d)
        PROVE  emitted'[e] \in {emitted[e], emitted[e] \cup {"error"}}
    BY <2>2 DEF LoadFails, FetchFails, Emit, Inv, TypeOK
  <2>3. \/ emitted' = emitted
        \/ \E d \in Datasources : Load(d) \/ LoadFails(d) \/ FetchFails(d)
    BY DEF Next, Connect, SocketCloses, ServerError, Stop, Kill, vars, serverVars
  <2> QED
    BY <1>2, <2>1, <2>2, <2>3 DEF Initialized
<1>3. \A d \in Of("throwing") : d \in Datasources
  BY DEF Of
<1> QED
  BY <1>1, <1>2, <1>3 DEF IndexInv, Of

LEMMA IndexInvHolds == Spec => []IndexInv
<1>1. Init => IndexInv
  BY DEF Init, IndexInv
<1>2. Inv /\ IndexInv /\ [Next]_vars => IndexInv'
  BY IndexRun, IndexLater
<1> QED
  BY <1>1, <1>2, InvHolds, PTL DEF Spec

-----------------------------------------------------------------------------
(* The theorems.                                                           *)

\* Every reachable state has its types: so the countdown of run() never goes
\* below zero, and only HDT datasources hold a document.
THEOREM TypeCorrect == Spec => []TypeOK
<1>1. Inv => TypeOK
  BY DEF Inv
<1> QED
  BY <1>1, InvHolds, PTL

\* The server listens when all datasources have settled and not before, however
\* many events each of them emits (the ready listeners of run()).
THEOREM ServerListensWhenSettled == Spec => []ListensWhenSettled
<1>1. Inv => ListensWhenSettled
  <2> SUFFICES ASSUME Inv PROVE ListensWhenSettled
    OBVIOUS
  <2>1. pending = 0 <=> \A d \in Datasources : Settled(d)
    BY UnsettledFinite DEF Inv, CountdownInv
  <2>2. Datasources # {} => NumDatasources # 0
    BY LifecycleAssumption DEF Datasources
  <2> QED
    BY <2>1, <2>2 DEF ListensWhenSettled, Inv, ServerInv
<1> QED
  BY <1>1, InvHolds, PTL

\* A worker that is stopped after its startup accepts no connection any more
\* (stop() of the server).
THEOREM StoppedForGood == Spec => []StopIsFinal
<1>1. Inv => StopIsFinal
  BY DEF Inv, StopInv, StopIsFinal
<1> QED
  BY <1>1, InvHolds, PTL

\* No HDT document stays open after a stop, in whatever order the documents are
\* opened and the stop comes (close() of the HDT datasource).
THEOREM NoDocumentLeaks == Spec => []DocumentsAreClosed
<1>1. Inv => DocumentsAreClosed
  BY DEF Inv, DocumentInv
<1> QED
  BY <1>1, InvHolds, PTL

\* The index lists what the other datasources serve, whatever fails or hangs
\* and wherever the index stands in the configuration (_initialize of
\* IndexDatasource).
THEOREM IndexIsComplete == Spec => []IndexListsWhatIsServed
<1>1. IndexInv => IndexListsWhatIsServed
  BY DEF IndexInv, IndexListsWhatIsServed, Running
<1> QED
  BY <1>1, IndexInvHolds, PTL
=============================================================================
