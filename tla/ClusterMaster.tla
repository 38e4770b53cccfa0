--------------------------- MODULE ClusterMaster ---------------------------
(***************************************************************************)
(* The master process of packages/core/lib/CliRunner.ts: it forks the      *)
(* worker processes, replaces those that die, and on SIGHUP replaces all   *)
(* of them one by one.                                                     *)
(*                                                                         *)
(* Workers are numbered in the order of their fork() calls, as Node's      *)
(* cluster module does; that module is external and appears as the sets of *)
(* starting, listening and disconnecting workers.  Every step is one event *)
(* with all the listeners the code has attached to it: the death of a      *)
(* worker, its first 'listening' event, or a signal to the master.         *)
(*                                                                         *)
(* An 'exit' event reaches, in this order, the listener that every         *)
(* listening worker has (line 76), and then the one of the current reload: *)
(* "abort" on the new worker until it listens, or "respawnNext" on the old *)
(* worker being killed.                                                    *)
(***************************************************************************)
EXTENDS Integers, FiniteSets, FiniteSetsExt

CONSTANTS
  NumWorkers,       \* the number of workers to run
  KillDisconnects,  \* whether worker.kill() sets exitedAfterDisconnect
  MaxCrashes,       \* bound: workers that die by themselves
  MaxReloads        \* bound: SIGHUP signals that start a reload

ASSUME ClusterAssumption == /\ NumWorkers \in Nat \ {0}
                            /\ KillDisconnects \in BOOLEAN
                            /\ MaxCrashes \in Nat /\ MaxReloads \in Nat

VARIABLES
  forked,     \* number of calls of cluster.fork()
  starting,   \* live workers that do not listen yet
  listening,  \* live workers that do
  leaving,    \* workers with exitedAfterDisconnect set
  killed,     \* workers that were sent a kill signal
  round,      \* the reload in progress
  stopping,   \* SIGINT has been received
  crashes, reloads,  \* counters for the bounds
  failedStarts       \* history: deaths before listening that abort no reload

vars == <<forked, starting, listening, leaving, killed, round, stopping,
          crashes, reloads, failedStarts>>

Live == starting \cup listening
Workers == 1 .. forked

\* Outside of a reload SIGHUP is heard by respawn, during one by
\* respawnPending, which only prints a message.
NoRound == [phase |-> "none", old |-> {}, new |-> 0, victim |-> 0, since |-> 0]
Reloading == round.phase # "none"

\* The reload waits for the exit of a worker that died before it was killed.
Stalled == round.phase = "killing" /\ round.victim \notin Live \cup killed

Init ==
  /\ forked = NumWorkers
  /\ starting = 1 .. NumWorkers
  /\ listening = {} /\ leaving = {} /\ killed = {}
  /\ round = NoRound
  /\ stopping = FALSE
  /\ crashes = 0 /\ reloads = 0 /\ failedStarts = 0

\* Mutant: stop when one old worker is left.
RespawnNextEarly(r, n) ==
  IF Cardinality(r.old) <= 1 THEN NoRound ELSE [r EXCEPT !.phase = "starting", !.new = n]

\* respawnNext: fork worker n to replace an old one, or finish the reload.
RespawnNext(r, n) ==
  IF r.old = {} THEN NoRound ELSE [r EXCEPT !.phase = "starting", !.new = n]

\* Mutant: prepare a reload step without forking its worker.
ForksNone(r) == 0

\* The calls of fork() that a step of the reload to round r makes.
Forks(r) == IF r.phase = "starting" THEN 1 ELSE 0

\* worker.kill(), without effect on a dead worker.
Kill(w) ==
  IF w \in Live
    THEN /\ killed' = killed \cup {w}
         /\ leaving' = IF KillDisconnects THEN leaving \cup {w} ELSE leaving
    ELSE UNCHANGED <<killed, leaving>>

\* Mutant: leave the old worker running.
ListenWithoutKill(w) ==
  /\ w \in starting
  /\ starting' = starting \ {w}
  /\ listening' = listening \cup {w}
  /\ IF round.phase = "starting" /\ w = round.new
       THEN round' = [round EXCEPT !.phase = "killing", !.victim = Max(round.old),
                                   !.old = @ \ {Max(round.old)}]
       ELSE UNCHANGED round
  /\ UNCHANGED <<leaving, killed>>
  /\ UNCHANGED <<forked, stopping, crashes, reloads, failedStarts>>

\* Mutant: kill all old workers when the first new one listens.
ListenKillingAll(w) ==
  /\ w \in starting
  /\ starting' = starting \ {w}
  /\ listening' = listening \cup {w}
  /\ IF round.phase = "starting" /\ w = round.new
       THEN /\ round' = [round EXCEPT !.phase = "killing", !.victim = Max(round.old), !.old = {}]
            /\ killed' = killed \cup (round.old \cap Live)
            /\ leaving' = leaving \cup (round.old \cap Live)
       ELSE UNCHANGED <<round, killed, leaving>>
  /\ UNCHANGED <<forked, stopping, crashes, reloads, failedStarts>>

\* Worker w starts to listen.  When it is the new worker of a reload, take an
\* old one from the list and kill it.  (The list is never empty here.)
Listen(w) ==
  /\ w \in starting
  /\ starting' = starting \ {w}
  /\ listening' = listening \cup {w}
  /\ IF round.phase = "starting" /\ w = round.new
       THEN /\ round' = [round EXCEPT !.phase = "killing", !.victim = Max(round.old),
                                      !.old = @ \ {Max(round.old)}]
            /\ Kill(Max(round.old))
       ELSE UNCHANGED <<round, killed, leaving>>
  /\ UNCHANGED <<forked, stopping, crashes, reloads, failedStarts>>

\* Mutant: replace every listening worker that dies.
RestartsAlways(w) == w \in listening

\* Mutant: replace only the workers that were asked to disconnect.
RestartsInverted(w) == w \in listening /\ w \in leaving

\* Line 76: a worker that has listened, and was not asked to disconnect, is
\* replaced when it dies.
Restarts(w) == w \in listening /\ w \notin leaving

\* Mutant: the death of the old worker is not followed by the next step.
ExitOnce(w) ==
  /\ starting' = (starting \ {w}) \cup
                 (IF Restarts(w) THEN {forked + 1} ELSE {})
  /\ listening' = listening \ {w}
  /\ forked' = forked + (IF Restarts(w) THEN 1 ELSE 0)
  /\ round' = IF round.phase = "starting" /\ w = round.new /\ w \notin leaving
                THEN NoRound ELSE round
  /\ failedStarts' = IF w \in starting /\ ~(round.phase = "starting" /\ w = round.new)
                       THEN failedStarts + 1 ELSE failedStarts
  /\ UNCHANGED <<leaving, killed, stopping>>

\* Worker w dies: all listeners of its 'exit' event run.
Exit(w) ==
  LET restarts == IF Restarts(w) THEN 1 ELSE 0
      isNew == round.phase = "starting" /\ w = round.new
      isVictim == round.phase = "killing" /\ w = round.victim
  IN  /\ round' = IF isVictim THEN RespawnNext(round, forked + restarts + 1)
                  ELSE IF isNew /\ w \notin leaving THEN NoRound  \* abort
                  ELSE round
      /\ forked' = forked + restarts + (IF isVictim THEN Forks(round') ELSE 0)
      /\ starting' = (starting \ {w}) \cup (forked + 1 .. forked')
      /\ listening' = listening \ {w}
      /\ failedStarts' = IF w \in starting /\ ~isNew THEN failedStarts + 1 ELSE failedStarts
      /\ UNCHANGED <<leaving, killed, stopping>>

\* A worker dies by itself, before it listens or later ...
Crash(w) ==
  /\ w \in Live \ (leaving \cup killed)
  /\ crashes < MaxCrashes
  /\ crashes' = crashes + 1
  /\ Exit(w)
  /\ UNCHANGED reloads

\* ... or because it was killed or asked to disconnect.
Terminate(w) ==
  /\ w \in Live \cap (leaving \cup killed)
  /\ Exit(w)
  /\ UNCHANGED <<crashes, reloads>>

\* SIGHUP outside of a reload: list the workers to replace and start.  Those
\* asked to disconnect have already left cluster.workers.
Respawn ==
  LET r == RespawnNext([NoRound EXCEPT !.old = Live \ leaving, !.since = forked],
                       forked + 1)
  IN  /\ ~Reloading /\ (stopping => Live # {})
      /\ reloads < MaxReloads
      /\ reloads' = reloads + 1
      /\ round' = r
      /\ forked' = forked + Forks(r)
      /\ starting' = starting \cup (forked + 1 .. forked')
      /\ UNCHANGED <<listening, leaving, killed, stopping, crashes, failedStarts>>

\* SIGINT: cluster.disconnect() asks every worker to disconnect.
Disconnect ==
  /\ ~stopping
  /\ stopping' = TRUE
  /\ leaving' = leaving \cup Live
  /\ UNCHANGED <<forked, starting, listening, killed, round, crashes, reloads, failedStarts>>

Next ==
  \/ \E w \in Workers : Listen(w) \/ Crash(w) \/ Terminate(w)
  \/ Respawn
  \/ Disconnect

Spec == Init /\ [][Next]_vars

\* Initialization of a worker ends, by listening or by dying, and a worker
\* that was asked to die does so.  Nothing forces a crash or a signal.  (The
\* bounds leave finitely many workers, so no single one can be passed over.)
Settle == \E w \in Workers : Listen(w) \/ Terminate(w)
FairSpec == Spec /\ WF_vars(Settle)

-----------------------------------------------------------------------------
(* What the master promises.                                               *)

Staying == Live \ leaving
Serving == listening \ (leaving \cup killed)

Round == [phase : {"none", "starting", "killing"}, old : SUBSET Workers,
          new : {0} \cup Workers, victim : {0} \cup Workers, since : {0} \cup Workers]

TypeOK ==
  /\ forked \in Nat /\ crashes \in Nat /\ reloads \in Nat /\ failedStarts \in Nat
  /\ starting \subseteq Workers /\ listening \subseteq Workers \ starting
  /\ leaving \subseteq Workers /\ killed \subseteq Workers
  /\ round \in Round
  /\ stopping \in BOOLEAN

\* No series of crashes, reloads and failed reloads costs a worker, but for
\* those that died before they listened: apart from the new worker of a
\* reload, at least NumWorkers are there to stay.
CapacityKept ==
  ~stopping => Cardinality(Staying) + failedStarts
                 >= NumWorkers + (IF round.phase = "starting" THEN 1 ELSE 0)

\* Nor does it add one: only a reload has one more, while its new worker
\* starts or when it waits for a worker that was dead already.
NoSurplus ==
  ~stopping => Cardinality(Staying)
                 <= NumWorkers + (IF round.phase = "starting" \/ Stalled THEN 1 ELSE 0)

\* Reloading is without downtime: a worker is only asked to leave in the
\* step in which another one starts to listen.
NoDowntime ==
  [][~stopping' /\ leaving' # leaving
       => Cardinality(Serving') >= Cardinality(Serving)]_vars

\* When a reload has finished (and was not aborted), no worker stays that was
\* forked before it: all of them run the new configuration.
ReloadIsComplete ==
  [][round.phase = "killing" /\ round'.phase = "none"
       => \A w \in Staying' : w > round.since]_vars

\* A reload ends, unless it waits for a worker that died before its turn, or
\* the whole server stops.
ReloadEndsOrStalls == Reloading ~> (~Reloading \/ Stalled \/ stopping)

\* After a SIGINT outside of a reload all workers end, whatever signals
\* follow.
CleanTermination == (stopping /\ ~Reloading /\ Live \subseteq leaving) ~> Live = {}

\* Violated.  "Note that crashed or killed workers are always replaced
\* automatically" (packages/server/README.md:129): whoever dies, NumWorkers
\* workers are there to stay.
CrashedWorkersAreReplaced == ~stopping => Cardinality(Staying) >= NumWorkers

\* Violated.  A reload "will reload by replacing its workers"
\* (packages/server/README.md:127), "Dead workers are replaced automatically"
\* (CliRunner.ts:105): it does not wait forever for a worker that died.
ReloadEnds == Reloading ~> (~Reloading \/ stopping)

\* Violated.  "Disconnect from cluster on SIGINT, so that the process can
\* cleanly terminate" (CliRunner.ts:84): after a SIGINT all workers end.
SIGINTTerminates == stopping ~> Live = {}
=============================================================================
