-------------------------- MODULE WorkerLifecycle --------------------------
(***************************************************************************)
(* The life of a server process (LinkedDataFragmentsServerWorker): it      *)
(* initializes all datasources, listens when each of them has settled,     *)
(* serves connections, and stops on SIGINT, which may come at any time.    *)
(*                                                                         *)
(* Every action is one turn of the event loop, with all listeners that it  *)
(* runs synchronously.  The order of these listeners matters: those of the *)
(* worker's constructor come first, then the countdown of run(), then the  *)
(* deferred close of an HDT datasource.                                    *)
(*                                                                         *)
(* A datasource is known by its kind:                                      *)
(*   disabled   settles within initialize(), as if it had loaded;          *)
(*   throwing   its _initialize throws, so it fails within initialize();   *)
(*   file       parses a document, or fails to (N3, JSON-LD, RDFa);        *)
(*   stream     reads with _fetch and leaves the errors to the base class; *)
(*   hdt        opens an HDT document, which must be closed;               *)
(*   index      lists the datasources, when its turn to initialize comes.  *)
(***************************************************************************)
EXTENDS Integers, FiniteSets

CONSTANTS
  NumDatasources,   \* datasources are 1, 2, ... in the order of the configuration
  Configurations,   \* the configurations to start the process with
  Clients           \* the connections that clients may open

Datasources == 1 .. NumDatasources
Kinds == {"disabled", "throwing", "file", "stream", "hdt", "index"}

ASSUME LifecycleAssumption ==
  /\ NumDatasources \in Nat
  /\ Configurations \subseteq [kind : [Datasources -> Kinds],
                               hidden : SUBSET Datasources, validPort : BOOLEAN]
  /\ IsFiniteSet(Clients)

VARIABLES
  config,         \* the configuration; hidden are those with hide set in it
  process,        \* "starting", "running" or "exited"
  server,         \* "created", "listening" or "closed"
  pending,        \* the countdown of run()
  emitted,        \* emitted[d]: the events that datasource d has emitted
  loading,        \* the datasources whose _initialize has not settled
  listed,         \* the datasources that the index lists
  document,       \* document[d]: the HDT document of d
  closeWhenReady, \* the datasources that close as soon as they have loaded
  sockets,        \* server._sockets
  destroyed,      \* the sockets that stop() has destroyed
  interrupted,    \* the number of SIGINTs received
  stoppedEarly    \* the first SIGINT came before all datasources had settled

serverVars == <<server, sockets, destroyed, interrupted, stoppedEarly>>
vars == <<config, process, pending, emitted, loading, listed, document,
          closeWhenReady, serverVars>>

Of(kind) == {d \in Datasources : config.kind[d] = kind}
Initialized(d) == "initialized" \in emitted[d]
Settled(d) == emitted[d] # {}

\* datasource.hide: set by the configuration, for disabled datasources, and
\* by the error listener of the worker's constructor.
Hidden == config.hidden \cup Of("disabled") \cup {d \in Datasources : "error" \in emitted[d]}

Init ==
  /\ config \in Configurations
  /\ process = "starting"
  /\ server = "created"
  /\ pending = NumDatasources
  /\ emitted = [d \in Datasources |-> {}]
  /\ loading = {}
  /\ listed = {}
  /\ document = [d \in Datasources |-> "none"]
  /\ closeWhenReady = {}
  /\ sockets = {} /\ destroyed = {}
  /\ interrupted = 0
  /\ stoppedEarly = FALSE

Running == process = "running"

-----------------------------------------------------------------------------
(* Startup.                                                                *)

\* Datasource d emits an event.
Emit(d, event) == emitted' = [emitted EXCEPT ![d] = @ \cup {event}]

\* Mutant: startWhenReady without _.once.
CountdownTwice(d) == pending' = pending - 1

\* The ready listener of d, which counts the first event only.
Countdown(d) == pending' = IF Settled(d) THEN pending ELSE pending - 1

\* The listener makes the server listen when it counted the last datasource.
Completes(d) == ~Settled(d) /\ pending = 1
Throws(d) == Completes(d) /\ ~config.validPort

\* Mutant: the countdown tests its value before it decrements.
ListenPostfix ==
  server' = IF pending = 0 /\ pending' # 0 /\ config.validPort
              THEN "listening" ELSE server

ListenWhenReady ==
  server' = IF pending # 0 /\ pending' = 0 /\ config.validPort
              THEN "listening" ELSE server

\* Mutant: the index lists the datasources before it only.
ListedBy(i) ==
  {e \in 1 .. i - 1 : e \notin Hidden /\ config.kind[e] # "throwing"}

\* What the index i lists in its turn: all that are not hidden by then.
Listed(i) ==
  {e \in Datasources \ {i} : e \notin Hidden /\ ~(config.kind[e] = "throwing" /\ e < i)}

\* run(): initialize every datasource in order.  An exception of listen()
\* ends in CliRunner, which exits.
Run ==
  LET atOnce == Of("disabled") \cup Of("throwing")
  IN  /\ process = "starting"
      /\ emitted' = [d \in Datasources |->
                       CASE d \in Of("disabled") -> {"initialized"}
                         [] d \in Of("throwing") -> {"error"}
                         [] OTHER -> {}]
      /\ pending' = NumDatasources - Cardinality(atOnce)
      /\ loading' = Datasources \ atOnce
      /\ listed' = UNION {Listed(i) : i \in Of("index")}
      /\ process' = IF pending # 0 /\ pending' = 0 /\ ~config.validPort
                      THEN "exited" ELSE "running"
      /\ ListenWhenReady
      /\ UNCHANGED <<config, document, closeWhenReady, sockets, destroyed,
                     interrupted, stoppedEarly>>

\* _initialize of d succeeds.  If the countdown throws (listen() with a bad
\* port), the catch of initialize() reports it as an error of d, and the
\* listeners after the countdown do not run.
Load(d) ==
  /\ Running
  /\ d \in loading
  /\ loading' = loading \ {d}
  /\ emitted' = [emitted EXCEPT ![d] = @ \cup
       IF Throws(d) THEN {"initialized", "error"} ELSE {"initialized"}]
  /\ Countdown(d)
  /\ ListenWhenReady
  /\ document' = [document EXCEPT ![d] =
       CASE config.kind[d] # "hdt" -> "none"
         [] d \in closeWhenReady /\ ~Throws(d) -> "closed"
         [] OTHER -> "open"]
  /\ closeWhenReady' = IF Throws(d) THEN closeWhenReady ELSE closeWhenReady \ {d}
  /\ UNCHANGED <<config, process, listed, sockets, destroyed, interrupted, stoppedEarly>>

\* _initialize of d fails: a file that cannot be read or parsed.  What the
\* countdown throws now is an unhandled rejection, which ends the process
\* under newer versions of Node.
LoadFails(d) ==
  /\ Running
  /\ d \in loading
  /\ config.kind[d] # "index"
  /\ loading' = loading \ {d}
  /\ Emit(d, "error")
  /\ Countdown(d)
  /\ ListenWhenReady
  /\ process' \in IF Throws(d) THEN {"running", "exited"} ELSE {"running"}
  /\ UNCHANGED <<config, listed, document, closeWhenReady, sockets, destroyed,
                 interrupted, stoppedEarly>>

\* The stream that d reads from fails while nobody else listens for errors:
\* _fetch makes it an error of the datasource.  Loading may still end.
FetchFails(d) ==
  /\ Running
  /\ d \in loading
  /\ config.kind[d] = "stream"
  /\ "error" \notin emitted[d]
  /\ Emit(d, "error")
  /\ Countdown(d)
  /\ ListenWhenReady
  /\ process' = IF Throws(d) THEN "exited" ELSE "running"
  /\ UNCHANGED <<config, loading, listed, document, closeWhenReady, sockets,
                 destroyed, interrupted, stoppedEarly>>

-----------------------------------------------------------------------------
(* Service and stop.                                                       *)

Connect(c) ==
  /\ Running
  /\ server = "listening"
  /\ c \notin sockets
  /\ sockets' = sockets \cup {c}
  /\ UNCHANGED <<config, process, server, pending, emitted, loading, listed, document,
                 closeWhenReady, destroyed, interrupted, stoppedEarly>>

\* A connection closes, as the client left or as stop() destroyed it.
SocketCloses(c) ==
  /\ Running
  /\ c \in sockets
  /\ sockets' = sockets \ {c}
  /\ destroyed' = destroyed \ {c}
  /\ UNCHANGED <<config, process, server, pending, emitted, loading, listed, document,
                 closeWhenReady, interrupted, stoppedEarly>>

\* The server fails outside of a request, as when its port is in use.
ServerError ==
  /\ Running
  /\ server = "listening"
  /\ process' = "exited"
  /\ UNCHANGED <<config, pending, emitted, loading, listed, document,
                 closeWhenReady, serverVars>>

\* Mutant: datasources of every kind defer their close.
CloseAnyDatasource ==
  /\ document' = [d \in Datasources |->
                    IF document[d] = "open" THEN "closed" ELSE document[d]]
  /\ closeWhenReady' = closeWhenReady \cup {d \in Datasources : ~Initialized(d)}

\* Mutant: the controllers close only what is open.
CloseOpenDatasources ==
  /\ document' = [d \in Datasources |->
                    IF document[d] = "open" THEN "closed" ELSE document[d]]
  /\ UNCHANGED closeWhenReady

\* The controllers close their datasources.  An HDT datasource closes its
\* document, or else promises to do so if it has not been initialized.
CloseDatasources ==
  /\ document' = [d \in Datasources |->
                    IF document[d] = "open" THEN "closed" ELSE document[d]]
  /\ closeWhenReady' = closeWhenReady \cup
       {d \in Of("hdt") : document[d] # "open" /\ ~Initialized(d)}

\* Mutant: stop() destroys the connections, but keeps accepting new ones.
CloseSockets == destroyed' = sockets /\ UNCHANGED server

\* Mutant: stop() leaves the connections to their clients.
CloseServer ==
  /\ server' = IF server = "listening" THEN "closed" ELSE server
  /\ UNCHANGED destroyed

\* Stop accepting connections and destroy those in the table.  close() does
\* nothing to a server that does not listen.
Close ==
  /\ server' = IF server = "listening" THEN "closed" ELSE server
  /\ destroyed' = sockets

\* The first SIGINT: server.stop().
Stop ==
  /\ Running
  /\ interrupted = 0
  /\ interrupted' = 1
  /\ stoppedEarly' = (pending # 0)
  /\ Close
  /\ CloseDatasources
  /\ UNCHANGED <<config, process, pending, emitted, loading, listed, sockets>>

\* The second SIGINT ends the process.
Kill ==
  /\ Running
  /\ interrupted = 1
  /\ interrupted' = 2
  /\ process' = "exited"
  /\ UNCHANGED <<config, server, pending, emitted, loading, listed, document,
                 closeWhenReady, sockets, destroyed, stoppedEarly>>

Next ==
  \/ Run
  \/ \E d \in Datasources : Load(d) \/ LoadFails(d) \/ FetchFails(d)
  \/ \E c \in Clients : Connect(c) \/ SocketCloses(c)
  \/ ServerError
  \/ Stop
  \/ Kill

Spec == Init /\ [][Next]_vars

\* run() is called, what is read from the disk is read to its end or fails,
\* and a destroyed socket closes.  A fetch may hang, as it has no timeout.
FairSpec ==
  /\ Spec
  /\ WF_vars(Run)
  /\ \A d \in Datasources :
       WF_vars(config.kind[d] # "stream" /\ (Load(d) \/ LoadFails(d)))
  /\ \A c \in Clients : WF_vars(c \in destroyed /\ SocketCloses(c))

-----------------------------------------------------------------------------
(* What a worker promises.                                                 *)

TypeOK ==
  /\ config \in Configurations
  /\ process \in {"starting", "running", "exited"}
  /\ server \in {"created", "listening", "closed"}
  /\ pending \in 0 .. NumDatasources
  /\ emitted \in [Datasources -> SUBSET {"initialized", "error"}]
  /\ loading \subseteq Datasources
  /\ listed \subseteq Datasources
  /\ document \in [Datasources -> {"none", "open", "closed"}]
  /\ \A d \in Datasources : document[d] # "none" => d \in Of("hdt")
  /\ closeWhenReady \subseteq Of("hdt")
  /\ sockets \subseteq Clients /\ destroyed \subseteq sockets
  /\ interrupted \in 0 .. 2
  /\ stoppedEarly \in BOOLEAN

\* The server starts to listen when every datasource has been initialized or
\* has failed, and not before, however many events each of them emits.
ListensWhenSettled ==
  /\ server # "created" => \A d \in Datasources : Settled(d)
  /\ Running /\ config.validPort /\ Datasources # {} =>
       ((\A d \in Datasources : Settled(d)) => server # "created")

\* Whatever fails or hangs, the index lists every datasource that answers
\* queries and is not hidden by the configuration, and none that is.  It may
\* also list datasources that failed after its turn.
IndexListsWhatIsServed ==
  Running /\ Of("index") # {} =>
    \A d \in Datasources \ Of("index") :
      /\ Initialized(d) /\ d \notin config.hidden \cup Of("disabled") => d \in listed
      /\ d \in listed => d \notin config.hidden \cup Of("disabled")

\* A worker that is stopped after its startup accepts no connection any more
\* and has destroyed those it had.  One that is stopped earlier still goes on
\* to listen.
StopIsFinal ==
  Running /\ interrupted > 0 /\ ~stoppedEarly =>
    server # "listening" /\ sockets = destroyed

\* A worker that is stopped leaves no HDT document open, not even one that is
\* only opened later, unless listen() throws.
DocumentsAreClosed ==
  interrupted > 0 /\ config.validPort => \A d \in Datasources : document[d] # "open"

\* A worker with a valid port starts to listen in the end, whatever loads or
\* fails, provided that each stream its datasources fetch ends or fails.
WorkerListens ==
  config.validPort /\ Datasources # {} =>
    ((\A d \in Datasources : config.kind[d] = "stream" => <>Settled(d))
       => <>(server # "created" \/ process = "exited"))

\* The connections that a stop finds open come to an end.
ConnectionsEnd ==
  interrupted > 0 /\ ~stoppedEarly ~> sockets = {} \/ process = "exited"
=============================================================================
