------------------------------- MODULE Server -------------------------------
(***************************************************************************)
(* The life of the replicas of the server (server/main.go): each connects, *)
(* migrates the database they share, connects to Redis, starts its readers *)
(* and serves until it is told to stop; Kubernetes starts it again         *)
(* whenever it ends (k8s/base/deployment.yaml, two replicas).              *)
(*                                                                         *)
(* Composes Migrations, whose runners are the replicas and an operator,    *)
(* with Notifications, the goroutines of a serving replica.                *)
(***************************************************************************)
EXTENDS Naturals, FiniteSets

CONSTANTS Replicas, Operator, LastVersion,       \* see Migrations
          Students, Pool, MaxEvents,             \* see Notifications
          MaxTroubles  \* bound: crashes, failed statements and pushes, SIGTERMs
                       \* and rollbacks by the operator

ASSUME OperatorAssumption == Operator \notin Replicas
ASSUME VersionAssumption  == LastVersion \in Nat
ASSUME PoolAssumption     == Pool \in Nat \ {0}
ASSUME BoundsAssumption   == MaxEvents \in Nat /\ MaxTroubles \in Nat

VARIABLES table, applied, objects, step, version,
          unread, published, pc, todo, target, pushes,
          life,       \* of each replica: down, starting, serving, draining
          faults, stops, rollbacks,  \* what the bound counts
          lost        \* history: events whose handler died after its commit

database  == <<table, applied, objects, step, version>>
messaging == <<unread, published, pc, todo, target, pushes>>
bounds    == <<faults, stops, rollbacks>>
vars      == <<database, messaging, life, bounds, lost>>

Migration == INSTANCE Migrations
Notify    == INSTANCE Notifications

Lives == {"down", "starting", "serving", "draining"}
\* Mutant: the readers are started before the migrations run.
RunsEarly(p) == life[p] # "down"

Runs(p) == life[p] \in {"serving", "draining"}

Becomes(p, l) == life' = [life EXCEPT ![p] = l]
Bounded       == faults + stops + rollbacks < MaxTroubles
Fault         == Bounded /\ faults' = faults + 1
-----------------------------------------------------------------------------
(* Starting: db.Connect, RunMigrations, ConnectRedis, the readers, HTTP. *)

Start(p) ==
  /\ life[p] = "down"
  /\ Migration!Begin(p)
  /\ Becomes(p, "starting")
  /\ UNCHANGED <<messaging, bounds, lost>>

Migrate(p) ==
  /\ life[p] = "starting"
  /\ Migration!Migrate(p)
  /\ UNCHANGED <<messaging, life, bounds, lost>>

\* RunMigrations returned an error: log.Fatalf.
Fatal(p) ==
  /\ step[p] = "failed"
  /\ Migration!Abandon(p, "off")
  /\ Becomes(p, "down")
  /\ UNCHANGED <<messaging, bounds, lost>>

Serve(p) ==
  /\ step[p] = "done"
  /\ Migration!Abandon(p, "off")
  /\ Becomes(p, "serving")
  /\ UNCHANGED <<messaging, bounds, lost>>
-----------------------------------------------------------------------------
(* Serving. *)

\* Only a replica that is not draining accepts requests.
AcceptRequest(p) ==
  /\ life[p] = "serving"
  /\ Notify!Accept(p)
  /\ UNCHANGED <<database, life, bounds, lost>>

\* The readers go on while the HTTP server drains.
Read(p, k) ==
  /\ Runs(p)
  /\ Notify!ReadMessage(p, k)
  /\ UNCHANGED <<database, life, bounds, lost>>

Work(p, k) ==
  /\ Runs(p)
  /\ Notify!Work(p, k)
  /\ UNCHANGED <<database, life, bounds, lost>>

\* A statement, a push or the access token of a goroutine.
Fails(p, k) ==
  /\ Runs(p)
  /\ Notify!Fails(p, k)
  /\ Fault
  /\ UNCHANGED <<database, life, stops, rollbacks, lost>>
-----------------------------------------------------------------------------
(* Ending. *)

\* The replica's process is gone; a migration in progress rolls back.
Ends(p) ==
  /\ Notify!Die(p)
  /\ Becomes(p, "down")
  /\ lost' = lost + IF pc[p]["handler"] = "publish" THEN 1 ELSE 0

\* SIGTERM: srv.Shutdown stops accepting and waits for the handlers.
Terminate(p) ==
  /\ life[p] = "serving"
  /\ Bounded
  /\ stops' = stops + 1
  /\ Becomes(p, "draining")
  /\ UNCHANGED <<database, messaging, faults, rollbacks, lost>>

\* Mutant: the process does not wait for its handlers.
AtOnce(p) == TRUE

Drained(p) == pc[p]["handler"] = "idle"

\* Shutdown has returned: readers are cancelled wherever they are, and the bus,
\* Redis and the database are closed.
Exit(p) ==
  /\ life[p] = "draining"
  /\ Drained(p)
  /\ Ends(p)
  /\ UNCHANGED <<database, bounds>>

\* A crash, a failed statement of the migration, Redis unreachable at start, or
\* handlers that take more than Shutdown's ten seconds.
Crash(p) ==
  /\ life[p] # "down"
  /\ Fault
  /\ Migration!Abandon(p, "off")
  /\ Ends(p)
  /\ UNCHANGED <<stops, rollbacks>>
-----------------------------------------------------------------------------
(* The operator. *)

BeginRollback ==
  /\ Bounded
  /\ rollbacks' = rollbacks + 1
  /\ Migration!FindLast
  /\ UNCHANGED <<messaging, life, faults, stops, lost>>

RollBack ==
  /\ Migration!Drop \/ Migration!Unrecord \/ Migration!CommitDown
  /\ UNCHANGED <<messaging, life, bounds, lost>>

\* One of the rollback's statements fails, and it returns the error; this ends a
\* rollback that the bound has counted.
RollbackFails ==
  /\ step[Operator] \in {"drop", "unrecord", "commit_down"}
  /\ Migration!Abandon(Operator, "off")
  /\ UNCHANGED <<messaging, life, bounds, lost>>
-----------------------------------------------------------------------------
Init ==
  /\ Migration!Init /\ Notify!Init
  /\ life = [p \in Replicas |-> "down"]
  /\ faults = 0 /\ stops = 0 /\ rollbacks = 0 /\ lost = 0

\* What a replica's main goes on to do by itself.
Advance(p) == Start(p) \/ Migrate(p) \/ Fatal(p) \/ Serve(p) \/ Exit(p)

Next ==
  \/ \E p \in Replicas :
       \/ Advance(p)
       \/ AcceptRequest(p)
       \/ \E k \in Notify!Kinds : Read(p, k) \/ Work(p, k) \/ Fails(p, k)
       \/ Terminate(p) \/ Crash(p)
  \/ BeginRollback \/ RollBack \/ RollbackFails

\* Kubernetes restarts what ended; processes and their goroutines run.  Nobody
\* has to send a request.
Spec ==
  /\ Init /\ [][Next]_vars
  /\ \A p \in Replicas :
       /\ WF_vars(Advance(p))
       /\ \A k \in Notify!Kinds : WF_vars(Work(p, k))
  /\ WF_vars(RollBack)
-----------------------------------------------------------------------------
(* Properties *)

\* The tables, the replicas and their goroutines keep their shape; whoever is
\* not starting runs no migration, and whoever is not up runs no goroutine.
TypeOK ==
  /\ table \in BOOLEAN
  /\ applied \subseteq Migration!Versions /\ objects \subseteq Migration!Versions
  /\ step \in [Migration!Runners -> Migration!Steps]
  /\ version \in [Migration!Runners -> 1..(LastVersion + 1)]
  /\ unread \in [Notify!Topics -> Nat] /\ published \in [Notify!Topics -> Nat]
  /\ pc \in [Replicas -> [Notify!Kinds -> Notify!Steps]]
  /\ todo \in [Replicas -> SUBSET Students]
  /\ target \in [Replicas -> [Notify!Notifiers -> Students \cup {Notify!AnyStudent}]]
  /\ pushes \in [Students -> Nat]
  /\ life \in [Replicas -> Lives]
  /\ \A p \in Replicas :
       /\ life[p] # "starting" => step[p] = "off"
       /\ life[p] \in {"down", "starting"} => pc[p] = Notify!Idle
       /\ \A k \in Notify!Notifiers : pc[p][k] \in Notify!Pushing => target[p][k] \in Students
  /\ faults \in Nat /\ stops \in Nat /\ rollbacks \in Nat /\ lost \in Nat

\* However replicas and an operator interleave and die, the migrations on record
\* are those whose objects exist, so that a later start neither fails for good
\* nor skips one; and a replica that serves has found every migration applied,
\* whoever applied it, unless the operator took one away.
SchemaIsSound ==
  /\ applied = objects
  /\ \A p \in Replicas : Runs(p) /\ rollbacks = 0 => applied = Migration!Versions

\* Stopping a replica loses no event of a handler that has committed: Shutdown
\* waits for the handlers before the bus is closed.
StopLosesNothing == lost <= faults

\* Two replicas that start together may fail each other's migrations, but with
\* restarts every one of them serves in the end.
EveryReplicaServes == \A p \in Replicas : <>[](life[p] = "serving")

\* The goroutines of a replica never all wait for each other's connections: when
\* the pool is used up, one of them is in a transaction that it ends without
\* another connection, though the session reader keeps its own while it takes
\* one more for every push.
PoolNeverWedged ==
  \A p \in Replicas : Runs(p) /\ ~Notify!FreeConnection(p) =>
    \E k \in Notify!Kinds : pc[p][k] \in {"tx", "device"}
=============================================================================
