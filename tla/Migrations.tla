----------------------------- MODULE Migrations -----------------------------
(***************************************************************************)
(* server/db/migrate.go: the versioned migrations that every replica runs  *)
(* when it starts, and the rollback that an operator may run.              *)
(*                                                                         *)
(* Each migration is one transaction, but what to run is looked up before  *)
(* it, outside of any transaction, and nothing keeps two replicas from     *)
(* doing it at once.  Two transactions that create the same objects meet   *)
(* in PostgreSQL's catalog: the second waits for the end of the first.     *)
(*                                                                         *)
(* Server composes the steps with the life of the replicas.                *)
(***************************************************************************)
EXTENDS Naturals, FiniteSets

CONSTANTS Replicas,   \* processes that run RunMigrations
          Operator,   \* the one who runs RollbackLastMigration
          LastVersion \* the embedded files are numbered 1 .. LastVersion

VARIABLES table,    \* does schema_migrations exist?
          applied,  \* its rows
          objects,  \* versions whose tables, types and policies exist
          step,     \* where each runner is; "failed" when it returned an error
          version   \* the migration it works on

vars == <<table, applied, objects, step, version>>

Runners  == Replicas \cup {Operator}
Versions == 1..LastVersion
Inside   == {"record", "commit", "unrecord", "commit_down"}  \* SQL executed
Steps    == Inside \cup {"off", "ensure", "create", "check", "exec", "last", "drop",
                         "done", "failed"}

Goto(p, s) == step' = [step EXCEPT ![p] = s]

\* The transaction of another replica has created the objects of version v.
Held(p, v) == \E q \in Replicas \ {p} : step[q] \in Inside /\ version[q] = v
-----------------------------------------------------------------------------
Begin(p) ==
  /\ step[p] = "off"
  /\ Goto(p, "ensure")
  /\ version' = [version EXCEPT ![p] = 1]
  /\ UNCHANGED <<table, applied, objects>>

\* CREATE TABLE IF NOT EXISTS looks first ...
EnsureTable(p) ==
  /\ step[p] = "ensure"
  /\ Goto(p, IF table THEN "check" ELSE "create")
  /\ UNCHANGED <<table, applied, objects, version>>

\* ... and fails when another runner has created the table since.
CreateTable(p) ==
  /\ step[p] = "create"
  /\ Goto(p, IF table THEN "failed" ELSE "check")
  /\ table' = TRUE
  /\ UNCHANGED <<applied, objects, version>>

\* Mutant: the loop does not look for the version in schema_migrations.
RunsAgain(v) == FALSE

AlreadyApplied(v) == v \in applied

\* The loop over the files, and the SELECT EXISTS of one of them.
Check(p) ==
  /\ step[p] = "check"
  /\ IF version[p] > LastVersion
       THEN Goto(p, "done") /\ UNCHANGED version
       ELSE IF AlreadyApplied(version[p])
              THEN version' = [version EXCEPT ![p] = @ + 1] /\ UNCHANGED step
              ELSE Goto(p, "exec") /\ UNCHANGED version
  /\ UNCHANGED <<table, applied, objects>>

\* The file's SQL creates objects without IF NOT EXISTS: it waits for whoever is
\* creating them, and fails when they exist, be they about to be dropped.
Exec(p) ==
  /\ step[p] = "exec"
  /\ ~Held(p, version[p])
  /\ Goto(p, IF version[p] \in objects THEN "failed" ELSE "record")
  /\ UNCHANGED <<table, applied, objects, version>>

\* INSERT INTO schema_migrations: the version is its primary key.
RecordVersion(p) ==
  /\ step[p] = "record"
  /\ Goto(p, IF version[p] \in applied THEN "failed" ELSE "commit")
  /\ UNCHANGED <<table, applied, objects, version>>

\* Mutant: the transaction leaves the version unrecorded.
Unrecorded(v) == applied

Recorded(v) == applied \cup {v}

Commit(p) ==
  /\ step[p] = "commit"
  /\ applied' = Recorded(version[p])
  /\ objects' = objects \cup {version[p]}
  /\ version' = [version EXCEPT ![p] = @ + 1]
  /\ Goto(p, "check")
  /\ UNCHANGED table

\* runMigrationsOn, one statement.
Migrate(p) ==
  \/ EnsureTable(p) \/ CreateTable(p) \/ Check(p)
  \/ Exec(p) \/ RecordVersion(p) \/ Commit(p)
-----------------------------------------------------------------------------
(* RollbackLastMigration. *)

Newest(v) == v \in applied /\ \A w \in applied : w <= v

\* The table is created if need be, and the version looked up, outside of the
\* transaction; without one there is nothing to roll back.
FindLast ==
  /\ step[Operator] = "off"
  /\ table' = TRUE
  /\ \/ /\ applied = {}
        /\ UNCHANGED <<step, version>>
     \/ /\ \E v \in Versions : Newest(v) /\ version' = [version EXCEPT ![Operator] = v]
        /\ Goto(Operator, "drop")
  /\ UNCHANGED <<applied, objects>>

\* DROP ... IF EXISTS: nobody creates what is on record.
Drop ==
  /\ step[Operator] = "drop"
  /\ Goto(Operator, "unrecord")
  /\ UNCHANGED <<table, applied, objects, version>>

Unrecord ==
  /\ step[Operator] = "unrecord"
  /\ Goto(Operator, "commit_down")
  /\ UNCHANGED <<table, applied, objects, version>>

CommitDown ==
  /\ step[Operator] = "commit_down"
  /\ applied' = applied \ {version[Operator]}
  /\ objects' = objects \ {version[Operator]}
  /\ Goto(Operator, "off")
  /\ UNCHANGED <<table, version>>

Rollback == FindLast \/ Drop \/ Unrecord \/ CommitDown
-----------------------------------------------------------------------------
\* The runner's process ends, or a statement fails: PostgreSQL rolls back.
Abandon(p, s) ==
  /\ Goto(p, s)
  /\ UNCHANGED <<table, applied, objects, version>>

Init ==
  /\ table = FALSE /\ applied = {} /\ objects = {}
  /\ step = [p \in Runners |-> "off"]
  /\ version = [p \in Runners |-> 1]
=============================================================================
