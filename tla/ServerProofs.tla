---------------------------- MODULE ServerProofs ----------------------------
(***************************************************************************)
(* Proofs about Server for any number of replicas, students, migrations,   *)
(* events and troubles, and any size of the pool.                          *)
(***************************************************************************)
EXTENDS Server, FiniteSetTheorems, TLAPS

\* The part of TypeOK about the migrations.
SchemaType ==
  /\ table \in BOOLEAN
  /\ applied \subseteq Migration!Versions /\ objects \subseteq Migration!Versions
  /\ step \in [Migration!Runners -> Migration!Steps]
  /\ version \in [Migration!Runners -> 1..(LastVersion + 1)]

\* The part about the goroutines.
GoroutineType ==
  /\ unread \in [Notify!Topics -> Nat] /\ published \in [Notify!Topics -> Nat]
  /\ pc \in [Replicas -> [Notify!Kinds -> Notify!Steps]]
  /\ todo \in [Replicas -> SUBSET Students]
  /\ target \in [Replicas -> [Notify!Notifiers -> Students \cup {Notify!AnyStudent}]]
  /\ pushes \in [Students -> Nat]
  /\ \A p \in Replicas, k \in Notify!Notifiers :
       pc[p][k] \in Notify!Pushing => target[p][k] \in Students

\* The part about the replicas.
LifeType ==
  /\ life \in [Replicas -> Lives]
  /\ \A p \in Replicas :
       /\ life[p] # "starting" => step[p] = "off"
       /\ life[p] \in {"down", "starting"} => pc[p] = Notify!Idle
  /\ faults \in Nat /\ stops \in Nat /\ rollbacks \in Nat /\ lost \in Nat

\* Every migration below the one a runner works on is applied, and the one that
\* it executes has a number, unless the operator has taken one away.
Progress ==
  \A p \in Replicas :
    /\ step[p] \in {"exec", "record", "commit"} => version[p] <= LastVersion
    /\ rollbacks = 0 /\ step[p] \in {"ensure", "create", "check", "exec", "record", "commit"} =>
         \A v \in Migration!Versions : v < version[p] => v \in applied
    /\ rollbacks = 0 /\ step[p] = "done" => applied = Migration!Versions

OperatorInv ==
  /\ rollbacks = 0 => step[Operator] = "off"
  /\ step[Operator] \in {"off", "drop", "unrecord", "commit_down"}

SchemaInv == SchemaType /\ Progress /\ OperatorInv /\ SchemaIsSound

MigrationSteps == {"off", "ensure", "create", "check", "exec", "record", "commit", "last",
                   "drop", "unrecord", "commit_down", "done", "failed"}

LEMMA StepNames == Migration!Steps = MigrationSteps
BY DEF Migration!Steps, Migration!Inside, MigrationSteps

\* A replica's steps of RunMigrations, from the database alone.
LEMMA MigrateStep ==
  ASSUME SchemaInv, LifeType, NEW p \in Replicas, Migrate(p)
  PROVE  SchemaInv' /\ LifeType'
<1> USE DEF SchemaInv, SchemaType, Progress, OperatorInv, SchemaIsSound, LifeType,
            Migration!Runners, Migration!Versions, MigrationSteps, Migration!Goto, messaging, bounds
<1> USE StepNames, OperatorAssumption, VersionAssumption
<1>1. /\ life[p] = "starting" /\ Migration!Migrate(p)
      /\ UNCHANGED <<messaging, life, faults, stops, rollbacks, lost>>
  BY DEF Migrate
<1>2. CASE Migration!EnsureTable(p)
  BY <1>1, <1>2 DEF Migration!EnsureTable, Runs
<1>3. CASE Migration!CreateTable(p)
  BY <1>1, <1>3 DEF Migration!CreateTable, Runs
<1>4. CASE Migration!Check(p)
  <2>1. CASE version[p] > LastVersion
    <3>1. step' = [step EXCEPT ![p] = "done"] /\ UNCHANGED <<table, applied, objects, version>>
      BY <1>4, <2>1 DEF Migration!Check
    <3>2. rollbacks = 0 => applied = Migration!Versions
      <4> SUFFICES ASSUME rollbacks = 0 PROVE \A v \in 1..LastVersion : v \in applied
        OBVIOUS
      <4>1. step[p] = "check" /\ version[p] \in 1..(LastVersion + 1)
        BY <1>4 DEF Migration!Check
      <4>2. \A v \in 1..LastVersion : v < version[p]
        BY <2>1, <4>1
      <4> QED BY <4>1, <4>2
    <3> QED BY <1>1, <1>4, <3>1, <3>2 DEF Migration!Check, Runs
  <2>2. CASE version[p] <= LastVersion /\ version[p] \in applied
    <3>1. /\ version' = [version EXCEPT ![p] = @ + 1]
          /\ UNCHANGED <<table, applied, objects, step>>
      BY <1>4, <2>2 DEF Migration!Check, Migration!AlreadyApplied
    <3>2. version' \in [Migration!Runners -> 1..(LastVersion + 1)]
      BY <2>2, <3>1
    <3> QED BY <1>1, <1>4, <2>2, <3>1, <3>2 DEF Migration!Check, Runs
  <2>3. CASE version[p] <= LastVersion /\ version[p] \notin applied
    <3>1. step' = [step EXCEPT ![p] = "exec"] /\ UNCHANGED <<table, applied, objects, version>>
      BY <1>4, <2>3 DEF Migration!Check, Migration!AlreadyApplied
    <3> QED BY <1>1, <1>4, <2>3, <3>1 DEF Migration!Check, Runs
  <2> QED BY <2>1, <2>2, <2>3
<1>5. CASE Migration!Exec(p)
  BY <1>1, <1>5 DEF Migration!Exec, Runs
<1>6. CASE Migration!RecordVersion(p)
  BY <1>1, <1>6 DEF Migration!RecordVersion, Runs
<1>7. CASE Migration!Commit(p)
  <2>1. /\ applied' = applied \cup {version[p]} /\ objects' = objects \cup {version[p]}
        /\ version' = [version EXCEPT ![p] = @ + 1] /\ step' = [step EXCEPT ![p] = "check"]
        /\ table' = table /\ step[p] = "commit" /\ version[p] \in Migration!Versions
    BY <1>7 DEF Migration!Commit, Migration!Recorded
  <2>2. version' \in [Migration!Runners -> 1..(LastVersion + 1)]
    BY <2>1
  <2>3. SchemaType'
    BY <2>1, <2>2
  <2>4. Progress'
    BY <1>1, <2>1
  <2>5. SchemaIsSound' /\ OperatorInv'
    BY <1>1, <2>1 DEF Runs
  <2>6. LifeType'
    BY <1>1, <2>1
  <2> QED BY <2>3, <2>4, <2>5, <2>6
<1> QED BY <1>1, <1>2, <1>3, <1>4, <1>5, <1>6, <1>7 DEF Migration!Migrate

\* The steps of the goroutines, seen from the database.
LEMMA GoroutineSteps ==
  ASSUME NEW p \in Replicas,
         \/ AcceptRequest(p)
         \/ \E k \in Notify!Kinds : Read(p, k) \/ Work(p, k) \/ Fails(p, k)
  PROVE  UNCHANGED <<table, applied, objects, step, version, life, stops, rollbacks, lost>>
BY DEF AcceptRequest, Read, Work, Fails, database, bounds

LEMMA NextSchema == SchemaInv /\ LifeType /\ [Next]_vars => SchemaInv'
<1> SUFFICES ASSUME SchemaInv, LifeType, [Next]_vars PROVE SchemaInv'
  OBVIOUS
<1> USE DEF SchemaInv, SchemaType, Progress, OperatorInv, SchemaIsSound, LifeType,
            Migration!Runners, Migration!Versions, MigrationSteps, Migration!Goto, Runs,
            database, messaging, bounds
<1> USE StepNames, OperatorAssumption, VersionAssumption
<1>1. ASSUME UNCHANGED <<database, life, rollbacks>> PROVE SchemaInv'
  BY <1>1
<1>2. CASE UNCHANGED vars
  BY <1>1, <1>2 DEF vars
<1>3. ASSUME NEW p \in Replicas,
             \/ AcceptRequest(p)
             \/ \E k \in Notify!Kinds : Read(p, k) \/ Work(p, k) \/ Fails(p, k)
      PROVE  SchemaInv'
  <2>1. UNCHANGED <<database, life, rollbacks>>
    BY <1>3, GoroutineSteps DEF database
  <2> QED BY <1>1, <2>1
<1>4. ASSUME NEW p \in Replicas, Start(p) PROVE SchemaInv'
  <2>1. /\ step' = [step EXCEPT ![p] = "ensure"] /\ version' = [version EXCEPT ![p] = 1]
        /\ life' = [life EXCEPT ![p] = "starting"]
        /\ UNCHANGED <<table, applied, objects, rollbacks>>
    BY <1>4 DEF Start, Becomes, Migration!Begin
  <2> QED BY <2>1
<1>5. ASSUME NEW p \in Replicas, Migrate(p) PROVE SchemaInv'
  BY <1>5, MigrateStep
\* A runner that is not in the middle of anything any more.
<1>6. ASSUME NEW p \in Replicas, Migration!Abandon(p, "off"), UNCHANGED rollbacks,
             \A q \in Replicas : Runs(q)' => Runs(q) \/ (q = p /\ step[p] = "done")
      PROVE  SchemaInv'
  <2>1. step' = [step EXCEPT ![p] = "off"] /\ UNCHANGED <<table, applied, objects, version>>
    BY <1>6 DEF Migration!Abandon
  <2> HIDE DEF Runs
  <2>2. SchemaIsSound'
    BY <1>6, <2>1
  <2> QED BY <1>6, <2>1, <2>2
<1>7. ASSUME NEW p \in Replicas, Fatal(p) \/ Serve(p) \/ Crash(p) PROVE SchemaInv'
  <2>1. Migration!Abandon(p, "off") /\ UNCHANGED rollbacks
    BY <1>7 DEF Fatal, Serve, Crash
  <2>2. \A q \in Replicas : Runs(q)' => Runs(q) \/ (q = p /\ step[p] = "done")
    BY <1>7 DEF Fatal, Serve, Crash, Ends, Becomes
  <2> QED BY <1>6, <2>1, <2>2
<1>8. ASSUME NEW p \in Replicas, Terminate(p) \/ Exit(p) PROVE SchemaInv'
  BY <1>8 DEF Terminate, Exit, Ends, Becomes
<1>9. CASE BeginRollback
  <2>1. table' = TRUE /\ UNCHANGED <<applied, objects, life>> /\ rollbacks' = rollbacks + 1
    BY <1>9 DEF BeginRollback, Migration!FindLast
  <2>2. \/ UNCHANGED <<step, version>>
        \/ \E v \in Migration!Versions :
             /\ version' = [version EXCEPT ![Operator] = v]
             /\ step' = [step EXCEPT ![Operator] = "drop"]
    BY <1>9 DEF BeginRollback, Migration!FindLast
  <2> QED BY <2>1, <2>2
<1>10. CASE RollBack
  <2>1. \E s \in {"unrecord", "commit_down", "off"} : step' = [step EXCEPT ![Operator] = s]
    BY <1>10 DEF RollBack, Migration!Drop, Migration!Unrecord, Migration!CommitDown
  <2>2. rollbacks # 0 /\ UNCHANGED <<table, version, life, rollbacks>>
    BY <1>10 DEF RollBack, Migration!Drop, Migration!Unrecord, Migration!CommitDown
  <2>3. applied' = objects' /\ applied' \subseteq applied
    BY <1>10 DEF RollBack, Migration!Drop, Migration!Unrecord, Migration!CommitDown
  <2> QED BY <2>1, <2>2, <2>3
<1>11. CASE RollbackFails
  <2>1. step' = [step EXCEPT ![Operator] = "off"]
        /\ UNCHANGED <<table, applied, objects, version, life, rollbacks>>
    BY <1>11 DEF RollbackFails, Migration!Abandon
  <2> QED BY <2>1
<1> QED BY <1>2, <1>3, <1>4, <1>5, <1>7, <1>8, <1>9, <1>10, <1>11 DEF Next, Advance

LEMMA InitSchema == Init => SchemaInv
<1> SUFFICES ASSUME Init PROVE SchemaInv
  OBVIOUS
<1> USE DEF Init, Migration!Init, Migration!Runners, Migration!Versions
<1>1. SchemaType
  <2>1. step \in [Migration!Runners -> Migration!Steps]
    BY StepNames DEF MigrationSteps
  <2>2. version \in [Migration!Runners -> 1..(LastVersion + 1)]
    BY VersionAssumption
  <2> QED BY <2>1, <2>2 DEF SchemaType
<1>2. Progress
  BY VersionAssumption DEF Progress
<1>3. OperatorInv /\ SchemaIsSound
  BY DEF OperatorInv, SchemaIsSound, Runs
<1> QED BY <1>1, <1>2, <1>3 DEF SchemaInv
-----------------------------------------------------------------------------
(* The goroutines *)

\* A goroutine's own step: the others keep theirs.
LEMMA WorkType ==
  ASSUME GoroutineType, NEW p \in Replicas, NEW k \in Notify!Kinds,
         \/ Notify!Work(p, k) \/ Notify!Fails(p, k) \/ Notify!ReadMessage(p, k)
         \/ k = "handler" /\ Notify!Accept(p)
  PROVE  GoroutineType' /\ \A q \in Replicas \ {p} : pc'[q] = pc[q]
<1> USE DEF GoroutineType, Notify!Kinds, Notify!Notifiers, Notify!Topics, Notify!Steps,
            Notify!Pushing, Notify!Goto, Notify!At
<1>1. CASE Notify!Acquire(p, k)
  BY <1>1 DEF Notify!Acquire
<1>2. CASE Notify!Release(p, k)
  BY <1>2 DEF Notify!Release
<1>3. CASE Notify!PublishNothing(p, k)
  BY <1>3 DEF Notify!PublishNothing
<1>4. ASSUME NEW topic \in Notify!Topics, Notify!Publish(p, k, topic)
      PROVE  GoroutineType' /\ \A q \in Replicas \ {p} : pc'[q] = pc[q]
  BY <1>4 DEF Notify!Publish
<1>5. CASE k = "session" /\ Notify!ReadRoster(p)
  BY <1>5 DEF Notify!ReadRoster
<1>6. CASE k = "session" /\ Notify!AllTold(p)
  BY <1>6 DEF Notify!AllTold
<1>7. ASSUME NEW u \in Students, k = "session", Notify!NextStudent(p, u)
      PROVE  GoroutineType' /\ \A q \in Replicas \ {p} : pc'[q] = pc[q]
  BY <1>7 DEF Notify!NextStudent
<1>8. ASSUME NEW u \in Students, k = "breach", Notify!FindCourse(p, u)
      PROVE  GoroutineType' /\ \A q \in Replicas \ {p} : pc'[q] = pc[q]
  BY <1>8 DEF Notify!FindCourse
<1>9. CASE k \in Notify!Notifiers /\ Notify!LookupDevice(p, k)
  BY <1>9 DEF Notify!LookupDevice
<1>10. CASE k \in Notify!Notifiers /\ Notify!FoundDevice(p, k)
  <2>1. \E s \in {"idle", "next", "token"} : pc' = [pc EXCEPT ![p][k] = s]
    BY <1>10 DEF Notify!FoundDevice, Notify!PushDone
  <2>2. UNCHANGED <<unread, published, todo, target, pushes>> /\ target[p][k] \in Students
    BY <1>10 DEF Notify!FoundDevice
  <2> QED BY <1>10, <2>1, <2>2
<1>11. CASE k \in Notify!Notifiers /\ Notify!AccessToken(p, k)
  <2>1. \E s \in {"send", "mint"} : pc' = [pc EXCEPT ![p][k] = s]
    BY <1>11 DEF Notify!AccessToken
  <2>2. UNCHANGED <<unread, published, todo, target, pushes>> /\ target[p][k] \in Students
    BY <1>11 DEF Notify!AccessToken
  <2> QED BY <1>11, <2>1, <2>2
<1>12. CASE k \in Notify!Notifiers /\ Notify!MintToken(p, k)
  BY <1>12 DEF Notify!MintToken
<1>13. CASE k \in Notify!Notifiers /\ Notify!SendToToken(p, k)
  <2>1. pushes' \in [Students -> Nat]
    BY <1>13 DEF Notify!SendToToken
  <2>2. \E s \in {"idle", "next"} : pc' = [pc EXCEPT ![p][k] = s]
    BY <1>13 DEF Notify!SendToToken, Notify!PushDone
  <2>3. UNCHANGED <<unread, published, todo, target>>
    BY <1>13 DEF Notify!SendToToken
  <2> QED BY <2>1, <2>2, <2>3
<1>14. CASE Notify!Fails(p, k)
  <2>1. CASE Notify!PushFails(p, k) \/ Notify!TransactionFails(p, k)
    <3>1. \E s \in {"idle", "next"} : pc' = [pc EXCEPT ![p][k] = s]
      BY <2>1 DEF Notify!PushFails, Notify!TransactionFails, Notify!PushDone
    <3>2. UNCHANGED <<unread, published, todo, target, pushes>>
      BY <2>1 DEF Notify!PushFails, Notify!TransactionFails
    <3> QED BY <3>1, <3>2
  <2>2. ASSUME NEW u \in Students, k = "breach", Notify!NameFails(p, u)
        PROVE  GoroutineType' /\ \A q \in Replicas \ {p} : pc'[q] = pc[q]
    BY <2>2 DEF Notify!NameFails
  <2> QED BY <1>14, <2>1, <2>2 DEF Notify!Fails
<1>15. CASE Notify!ReadMessage(p, k)
  <2>1. Notify!ReadsFrom(k) \in Notify!Topics
    BY <1>15 DEF Notify!ReadMessage, Notify!ReadsFrom
  <2> QED BY <1>15, <2>1 DEF Notify!ReadMessage
<1>16. CASE k = "handler" /\ Notify!Accept(p)
  BY <1>16 DEF Notify!Accept
<1> QED BY <1>1, <1>2, <1>3, <1>4, <1>5, <1>6, <1>7, <1>8, <1>9, <1>10, <1>11, <1>12, <1>13,
           <1>14, <1>15, <1>16 DEF Notify!Work

LEMMA NextGoroutines == GoroutineType /\ LifeType /\ [Next]_vars => GoroutineType'
<1> SUFFICES ASSUME GoroutineType, LifeType, [Next]_vars PROVE GoroutineType'
  OBVIOUS
<1> USE DEF database, messaging, bounds
<1>1. ASSUME UNCHANGED messaging PROVE GoroutineType'
  BY <1>1 DEF GoroutineType
<1>2. CASE UNCHANGED vars
  BY <1>1, <1>2 DEF vars
<1>3. ASSUME NEW p \in Replicas,
             \/ AcceptRequest(p)
             \/ \E k \in Notify!Kinds : Read(p, k) \/ Work(p, k) \/ Fails(p, k)
      PROVE  GoroutineType'
  <2>1. "handler" \in Notify!Kinds
    BY DEF Notify!Kinds
  <2> QED BY <1>3, <2>1, WorkType DEF AcceptRequest, Read, Work, Fails
<1>4. ASSUME NEW p \in Replicas, Ends(p) PROVE GoroutineType'
  <2>1. /\ pc' = [pc EXCEPT ![p] = Notify!Idle] /\ todo' = [todo EXCEPT ![p] = {}]
        /\ UNCHANGED <<unread, published, target, pushes>>
    BY <1>4 DEF Ends, Notify!Die
  <2>2. Notify!Idle \in [Notify!Kinds -> Notify!Steps]
        /\ \A k \in Notify!Notifiers : Notify!Idle[k] \notin Notify!Pushing
    BY DEF Notify!Idle, Notify!Kinds, Notify!Notifiers, Notify!Steps, Notify!Pushing
  <2> QED BY <2>1, <2>2 DEF GoroutineType
<1> QED BY <1>1, <1>2, <1>3, <1>4
    DEF Next, Advance, Start, Migrate, Fatal, Serve, Exit, Terminate, Crash, BeginRollback,
        RollBack, RollbackFails

LEMMA NextLife == SchemaInv /\ GoroutineType /\ LifeType /\ [Next]_vars => LifeType'
<1> SUFFICES ASSUME SchemaInv, GoroutineType, LifeType, [Next]_vars PROVE LifeType'
  OBVIOUS
<1> USE DEF LifeType, Lives, database, messaging, bounds, Becomes
<1>1. step \in [Migration!Runners -> Migration!Steps] /\ Replicas \subseteq Migration!Runners
  BY DEF SchemaInv, SchemaType, Migration!Runners
<1>2. CASE UNCHANGED vars
  BY <1>2 DEF vars
<1>3. ASSUME NEW p \in Replicas,
             \/ AcceptRequest(p)
             \/ \E k \in Notify!Kinds : Read(p, k) \/ Work(p, k) \/ Fails(p, k)
      PROVE  LifeType'
  <2>1. \A q \in Replicas \ {p} : pc'[q] = pc[q]
    <3>1. "handler" \in Notify!Kinds
      BY DEF Notify!Kinds
    <3> QED BY <1>3, <3>1, WorkType DEF AcceptRequest, Read, Work, Fails
  <2>2. UNCHANGED <<step, life, stops, rollbacks, lost>>
    BY <1>3, GoroutineSteps
  <2>3. faults' \in Nat
    BY <1>3 DEF AcceptRequest, Read, Work, Fails, Fault
  <2>4. Runs(p)
    BY <1>3 DEF AcceptRequest, Read, Work, Fails, Runs
  <2> QED BY <2>1, <2>2, <2>3, <2>4 DEF Runs
<1>4. ASSUME NEW p \in Replicas, Start(p) PROVE LifeType'
  BY <1>1, <1>4 DEF Start, Migration!Begin, Migration!Goto
<1>5. ASSUME NEW p \in Replicas, Migrate(p) PROVE LifeType'
  BY <1>5, MigrateStep
<1>6. ASSUME NEW p \in Replicas, Fatal(p) \/ Serve(p) PROVE LifeType'
  <2>1. life[p] = "starting"
    BY <1>6 DEF Fatal, Serve
  <2> QED BY <1>1, <1>6, <2>1 DEF Fatal, Serve, Migration!Abandon, Migration!Goto
<1>7. ASSUME NEW p \in Replicas, Terminate(p) PROVE LifeType'
  BY <1>7 DEF Terminate
<1>8. ASSUME NEW p \in Replicas, Ends(p)
      PROVE  /\ life' = [life EXCEPT ![p] = "down"] /\ pc'[p] = Notify!Idle
             /\ \A q \in Replicas \ {p} : pc'[q] = pc[q]
             /\ lost' \in {lost, lost + 1}
  BY <1>8 DEF Ends, Notify!Die, GoroutineType
<1>9. ASSUME NEW p \in Replicas, Exit(p) PROVE LifeType'
  <2>1. step' = step /\ step[p] = "off" /\ UNCHANGED <<faults, stops, rollbacks>>
    BY <1>9 DEF Exit
  <2> QED BY <1>8, <1>9, <2>1 DEF Exit
<1>10. ASSUME NEW p \in Replicas, Crash(p) PROVE LifeType'
  <2>1. step' = [step EXCEPT ![p] = "off"] /\ faults' = faults + 1 /\ UNCHANGED <<stops, rollbacks>>
    BY <1>10 DEF Crash, Migration!Abandon, Migration!Goto, Fault
  <2> QED BY <1>1, <1>8, <1>10, <2>1 DEF Crash
<1>11. CASE BeginRollback \/ RollBack \/ RollbackFails
  <2>1. UNCHANGED <<life, pc, faults, stops, lost>> /\ rollbacks' \in Nat
    BY <1>11 DEF BeginRollback, RollBack, RollbackFails
  <2>2. \A q \in Replicas : step'[q] = step[q]
    BY <1>1, <1>11, OperatorAssumption
       DEF BeginRollback, RollBack, RollbackFails, Migration!FindLast, Migration!Drop,
           Migration!Unrecord, Migration!CommitDown, Migration!Abandon, Migration!Goto
  <2> QED BY <2>1, <2>2
<1> QED BY <1>2, <1>3, <1>4, <1>5, <1>6, <1>7, <1>9, <1>10, <1>11 DEF Next, Advance

LEMMA InitGoroutines == Init => GoroutineType /\ LifeType
<1> SUFFICES ASSUME Init PROVE GoroutineType /\ LifeType
  OBVIOUS
<1> USE DEF Init, Notify!Init, Migration!Init
<1>1. Notify!Idle \in [Notify!Kinds -> Notify!Steps]
      /\ \A k \in Notify!Notifiers : Notify!Idle[k] \notin Notify!Pushing
  BY DEF Notify!Idle, Notify!Kinds, Notify!Notifiers, Notify!Steps, Notify!Pushing
<1>2. GoroutineType
  BY <1>1 DEF GoroutineType
<1>3. LifeType
  BY DEF LifeType, Lives, Migration!Runners
<1> QED BY <1>2, <1>3

ServerInv == SchemaInv /\ GoroutineType /\ LifeType

LEMMA ServerInvHolds == Spec => []ServerInv
<1>1. Init => ServerInv
  BY InitSchema, InitGoroutines DEF ServerInv
<1>2. ServerInv /\ [Next]_vars => ServerInv'
  BY NextSchema, NextGoroutines, NextLife DEF ServerInv
<1> QED BY <1>1, <1>2, PTL DEF Spec

\* The tables, the replicas and their goroutines keep their shape.
THEOREM TypeCorrect == Spec => []TypeOK
<1>1. ServerInv => TypeOK
  BY DEF ServerInv, SchemaInv, SchemaType, GoroutineType, LifeType, TypeOK
<1> QED BY <1>1, ServerInvHolds, PTL

\* The recorded migrations are those that exist, and a replica serves only a
\* database that has them all, for any number of replicas that start, fail and
\* die in any order.
THEOREM SchemaStaysSound == Spec => []SchemaIsSound
<1>1. ServerInv => SchemaIsSound
  BY DEF ServerInv, SchemaInv
<1> QED BY <1>1, ServerInvHolds, PTL

\* A replica that is told to stop loses no event of a committed handler.
THEOREM NothingIsLostByStopping == Spec => []StopLosesNothing
<1>1. Init => StopLosesNothing
  BY DEF Init, StopLosesNothing
<1>2. ServerInv /\ StopLosesNothing /\ [Next]_vars => StopLosesNothing'
  <2> SUFFICES ASSUME ServerInv, StopLosesNothing, [Next]_vars PROVE StopLosesNothing'
    OBVIOUS
  <2>1. lost \in Nat /\ faults \in Nat /\ lost <= faults
    BY DEF ServerInv, LifeType, StopLosesNothing
  <2>2. ASSUME NEW p \in Replicas, Exit(p) PROVE lost' = lost /\ faults' = faults
    BY <2>1, <2>2 DEF Exit, Ends, Drained, bounds
  <2>3. ASSUME NEW p \in Replicas, Crash(p) PROVE lost' <= lost + 1 /\ faults' = faults + 1
    BY <2>1, <2>3 DEF Crash, Ends, Fault
  <2>4. \/ lost' = lost /\ faults' \in {faults, faults + 1}
        \/ \E p \in Replicas : Exit(p) \/ Crash(p)
    BY DEF vars, bounds, Next, Advance, AcceptRequest, Read, Work, Fails, Start, Migrate,
           Fatal, Serve, Terminate, BeginRollback, RollBack, RollbackFails, Fault
  <2>5. lost' \in Nat
    BY <2>1 DEF vars, bounds, Next, Advance, AcceptRequest, Read, Work, Fails, Start, Migrate,
                Fatal, Serve, Terminate, BeginRollback, RollBack, RollbackFails, Exit, Crash, Ends
  <2> QED BY <2>1, <2>2, <2>3, <2>4, <2>5 DEF StopLosesNothing
<1> QED BY <1>1, <1>2, ServerInvHolds, PTL DEF Spec

\* With at least two connections in the pool the goroutines of a replica never
\* all wait for one another.
THEOREM PoolIsNeverWedged == ASSUME Pool >= 2 PROVE Spec => []PoolNeverWedged
<1>1. ServerInv => PoolNeverWedged
  <2> SUFFICES ASSUME ServerInv, NEW p \in Replicas, ~Notify!FreeConnection(p),
                      \A k \in Notify!Kinds : pc[p][k] \notin {"tx", "device"}
               PROVE  FALSE
    BY DEF PoolNeverWedged
  <2>1. {k \in Notify!Kinds : Notify!At(p, k, "tx")} = {}
    BY DEF Notify!At
  <2>2. {k \in Notify!Notifiers : Notify!At(p, k, "device")} = {}
    BY DEF Notify!At, Notify!Kinds, Notify!Notifiers
  <2>3. Notify!Cardinality({}) = 0
    <3>1. Notify!Cardinality({}) = Cardinality({})
      BY Zenon DEF Notify!Cardinality, Cardinality
    <3> QED BY <3>1, FS_EmptySet
  <2>4. /\ Notify!KeptOpen(p) = 0 + IF pc[p]["session"] \in {"idle", "begin", "tx"} THEN 0 ELSE 1
        /\ Notify!InUse(p) = Notify!KeptOpen(p) + 0
    BY <2>1, <2>2, <2>3, Zenon DEF Notify!KeptOpen, Notify!InUse
  <2>5. Notify!InUse(p) \in {0, 1}
    BY <2>4
  <2>6. ~(Notify!InUse(p) < Pool)
    BY DEF Notify!FreeConnection
  <2>7. Pool \in Nat /\ Pool >= 2
    BY PoolAssumption
  <2> QED BY <2>5, <2>6, <2>7
<1> QED BY <1>1, ServerInvHolds, PTL
-----------------------------------------------------------------------------
(* Pushes *)

\* The notifier k of the replica p is at work on an event that it has not told
\* the student u of yet.
Pending(p, k, u) ==
  \/ pc[p][k] \in {"begin", "tx"}
  \/ pc[p][k] \in Notify!Pushing /\ target[p][k] = u
  \/ k = "session" /\ pc[p][k] \in {"next"} \cup Notify!Pushing /\ u \in todo[p]

PendingFor(u) == {x \in Replicas \X Notify!Notifiers : Pending(x[1], x[2], u)}

\* Whom the session reader tells now is not told once more.
TargetIsNotToDo ==
  \A p \in Replicas : pc[p]["session"] \in Notify!Pushing =>
    target[p]["session"] \notin todo[p]

\* Every push to u, sent or still to be sent, has an event of its own.
Covered(u) ==
  pushes[u] + Cardinality(PendingFor(u)) + unread["session.started"]
    + unread["threshold.breached"]
  <= published["session.started"] + published["threshold.breached"]

PushInv == TargetIsNotToDo /\ \A u \in Students : Covered(u)

\* One member more or less.
LEMMA OneMember ==
  ASSUME NEW S, IsFiniteSet(S), NEW T, NEW x, T \ {x} = S \ {x}
  PROVE  /\ Cardinality(S) \in Nat /\ Cardinality(T) \in Nat
         /\ Cardinality(T) <= Cardinality(S) + 1
         /\ x \notin T \/ x \in S => Cardinality(T) <= Cardinality(S)
         /\ x \notin T /\ x \in S => Cardinality(T) + 1 <= Cardinality(S)
<1>1. /\ IsFiniteSet(S \cup {x}) /\ Cardinality(S) \in Nat
      /\ Cardinality(S \cup {x}) = IF x \in S THEN Cardinality(S) ELSE Cardinality(S) + 1
  BY FS_AddElement, FS_CardinalityType
<1>2. T \subseteq S \cup {x}
  OBVIOUS
<1>3. IsFiniteSet(T) /\ Cardinality(T) \in Nat /\ Cardinality(T) <= Cardinality(S \cup {x})
  BY <1>1, <1>2, FS_Subset, FS_CardinalityType
<1>4. x \notin T => T = S \ {x}
  OBVIOUS
<1>5. x \in S => Cardinality(S \ {x}) = Cardinality(S) - 1
  BY FS_RemoveElement
<1>6. x \notin S /\ x \notin T => T = S
  OBVIOUS
<1>7. IsFiniteSet(S) /\ Cardinality(S) \in Nat
  BY FS_CardinalityType
<1>8. CASE x \in S /\ x \in T
  BY <1>1, <1>3, <1>7, <1>8
<1>9. CASE x \in S /\ x \notin T
  <2>1. Cardinality(T) = Cardinality(S) - 1
    BY <1>4, <1>5, <1>9, Zenon
  <2> QED BY <2>1, <1>3, <1>7, <1>9
<1>10. CASE x \notin S /\ x \in T
  BY <1>1, <1>3, <1>7, <1>10
<1>11. CASE x \notin S /\ x \notin T
  BY <1>6, <1>7, <1>11
<1> QED BY <1>8, <1>9, <1>10, <1>11

\* The pending pushes are finitely many.
LEMMA PendingFinite ==
  ASSUME IsFiniteSet(Replicas), NEW u
  PROVE  IsFiniteSet(PendingFor(u))
<1>1. IsFiniteSet(Notify!Notifiers)
  <2>1. IsFiniteSet({"session"}) /\ IsFiniteSet({"session"} \cup {"breach"})
    BY FS_Singleton, FS_AddElement
  <2>2. Notify!Notifiers = {"session"} \cup {"breach"}
    BY DEF Notify!Notifiers
  <2> QED BY <2>1, <2>2
<1>2. IsFiniteSet(Replicas \X Notify!Notifiers)
  BY <1>1, FS_Product
<1>3. PendingFor(u) \subseteq Replicas \X Notify!Notifiers
  BY DEF PendingFor
<1> QED BY <1>2, <1>3, FS_Subset

Running(p, k) ==
  \/ Notify!Work(p, k) \/ Notify!Fails(p, k) \/ Notify!ReadMessage(p, k)
  \/ k = "handler" /\ Notify!Accept(p)

\* What a goroutine's step leaves alone.
OwnOnly(p, k) ==
  /\ \A q \in Replicas, n \in Notify!Kinds : q # p \/ n # k => pc'[q][n] = pc[q][n]
  /\ \A q \in Replicas, n \in Notify!Notifiers : q # p \/ n # k => target'[q][n] = target[q][n]
  /\ \A q \in Replicas : q # p \/ k # "session" => todo'[q] = todo[q]

\* A goroutine writes its own locals only.
LEMMA RunningIsOwn ==
  ASSUME GoroutineType, NEW p \in Replicas, NEW k \in Notify!Kinds, Running(p, k)
  PROVE  OwnOnly(p, k)
<1> USE DEF GoroutineType, OwnOnly, Notify!Kinds, Notify!Notifiers, Notify!Goto
<1>1. CASE Notify!Acquire(p, k) \/ Notify!Release(p, k) \/ Notify!PublishNothing(p, k)
  BY <1>1 DEF Notify!Acquire, Notify!Release, Notify!PublishNothing
<1>2. ASSUME NEW topic \in Notify!Topics, Notify!Publish(p, k, topic)
      PROVE  OwnOnly(p, k)
  BY <1>2 DEF Notify!Publish
<1>3. CASE k = "session" /\ (Notify!ReadRoster(p) \/ Notify!AllTold(p))
  BY <1>3 DEF Notify!ReadRoster, Notify!AllTold
<1>4. ASSUME NEW u \in Students, k = "session", Notify!NextStudent(p, u)
      PROVE  OwnOnly(p, k)
  BY <1>4 DEF Notify!NextStudent
<1>5. ASSUME NEW u \in Students, k = "breach", Notify!FindCourse(p, u)
      PROVE  OwnOnly(p, k)
  BY <1>5 DEF Notify!FindCourse
<1>6. CASE Notify!LookupDevice(p, k) \/ Notify!MintToken(p, k)
  BY <1>6 DEF Notify!LookupDevice, Notify!MintToken
<1>7. CASE Notify!FoundDevice(p, k) \/ Notify!AccessToken(p, k)
  BY <1>7 DEF Notify!FoundDevice, Notify!AccessToken
<1>8. CASE Notify!SendToToken(p, k) \/ Notify!PushFails(p, k) \/ Notify!TransactionFails(p, k)
  BY <1>8 DEF Notify!SendToToken, Notify!PushFails, Notify!TransactionFails
<1>9. CASE Notify!ReadMessage(p, k) \/ (k = "handler" /\ Notify!Accept(p))
  BY <1>9 DEF Notify!ReadMessage, Notify!Accept
<1>10. ASSUME NEW u \in Students, k = "breach", Notify!NameFails(p, u)
       PROVE  OwnOnly(p, k)
  BY <1>10 DEF Notify!NameFails
<1> QED BY <1>1, <1>2, <1>3, <1>4, <1>5, <1>6, <1>7, <1>8, <1>9, <1>10
        DEF Running, Notify!Work, Notify!Fails

\* What a step does to the events and the pushes: it publishes one event, takes
\* one from a topic for its own notifier, sends one push, or none of these.
EventsKept == UNCHANGED <<unread, published, pushes>>

\* A step that neither reads an event nor sends a push leaves its notifier with
\* no more to tell u than before.
LEMMA QuietWork ==
  ASSUME GoroutineType, TargetIsNotToDo, NEW p \in Replicas, NEW k \in Notify!Kinds,
         Notify!Work(p, k) \/ Notify!Fails(p, k),
         ~ \E topic \in Notify!Topics : Notify!Publish(p, k, topic),
         k \in Notify!Notifiers => ~Notify!SendToToken(p, k)
  PROVE  /\ EventsKept
         /\ k \in Notify!Notifiers => \A u \in Students : Pending(p, k, u)' => Pending(p, k, u)
         /\ TargetIsNotToDo'
<1>1. OwnOnly(p, k)
  BY RunningIsOwn DEF Running
<1> DEFINE G == /\ EventsKept
                /\ k \in Notify!Notifiers =>
                     \A u \in Students : Pending(p, k, u)' => Pending(p, k, u)
                /\ TargetIsNotToDo'
<1> USE DEF GoroutineType, TargetIsNotToDo, OwnOnly, Pending, EventsKept, Notify!Kinds,
            Notify!Notifiers, Notify!Pushing, Notify!Goto, Notify!At
<1>2. CASE Notify!Acquire(p, k)
  BY <1>1, <1>2 DEF Notify!Acquire
<1>3. CASE Notify!Release(p, k)
  BY <1>1, <1>3 DEF Notify!Release
<1>4. CASE Notify!PublishNothing(p, k)
  BY <1>1, <1>4 DEF Notify!PublishNothing
<1>5. CASE k = "session" /\ Notify!ReadRoster(p)
  BY <1>1, <1>5 DEF Notify!ReadRoster
<1>6. CASE k = "session" /\ Notify!AllTold(p)
  BY <1>1, <1>6 DEF Notify!AllTold
<1>7. ASSUME NEW v \in Students, k = "session", Notify!NextStudent(p, v)
      PROVE  G
  BY <1>1, <1>7 DEF Notify!NextStudent
<1>8. ASSUME NEW v \in Students, k = "breach", Notify!FindCourse(p, v)
      PROVE  G
  BY <1>1, <1>8 DEF Notify!FindCourse
<1>9. CASE k \in Notify!Notifiers /\ Notify!LookupDevice(p, k)
  BY <1>1, <1>9 DEF Notify!LookupDevice
<1>10. CASE k \in Notify!Notifiers /\ (Notify!FoundDevice(p, k) \/ Notify!PushFails(p, k))
  <2>1. /\ UNCHANGED <<unread, published, todo, target, pushes>>
        /\ pc[p][k] \in Notify!Pushing
        /\ pc'[p][k] = "token" \/ (pc'[p][k] = IF k = "session" THEN "next" ELSE "idle")
    BY <1>10 DEF Notify!FoundDevice, Notify!PushFails, Notify!PushDone
  <2> QED BY <1>1, <1>10, <2>1
<1>11. CASE k \in Notify!Notifiers /\ (Notify!AccessToken(p, k) \/ Notify!MintToken(p, k))
  <2>1. /\ UNCHANGED <<unread, published, todo, target, pushes>>
        /\ pc[p][k] \in Notify!Pushing /\ pc'[p][k] \in {"send", "mint"}
    BY <1>11 DEF Notify!AccessToken, Notify!MintToken
  <2> QED BY <1>1, <1>11, <2>1
<1>12. Notify!PushFails(p, k) => k \in Notify!Notifiers
  BY DEF Notify!PushFails
<1>13. CASE Notify!TransactionFails(p, k)
  BY <1>1, <1>13 DEF Notify!TransactionFails
<1>14. ASSUME NEW v \in Students, k = "breach", Notify!NameFails(p, v)
       PROVE  G
  BY <1>1, <1>14 DEF Notify!NameFails
<1> QED BY <1>2, <1>3, <1>4, <1>5, <1>6, <1>7, <1>8, <1>9, <1>10, <1>11, <1>12, <1>13, <1>14
        DEF Notify!Work, Notify!Fails

\* Each step of a goroutine keeps every push covered by an event.
LEMMA RunningCovers ==
  ASSUME IsFiniteSet(Replicas), GoroutineType, PushInv,
         NEW p \in Replicas, NEW k \in Notify!Kinds, Running(p, k)
  PROVE  PushInv'
<1> DEFINE x == <<p, k>>
           ss == "session.started"
           tb == "threshold.breached"
<1>1. OwnOnly(p, k)
  BY RunningIsOwn
<1>2. \A u \in Students : PendingFor(u)' \ {x} = PendingFor(u) \ {x}
  <2>1. \A q \in Replicas, n \in Notify!Notifiers, u \in Students :
          <<q, n>> # x => (Pending(q, n, u)' <=> Pending(q, n, u))
    BY <1>1 DEF Pending, OwnOnly, Notify!Kinds, Notify!Notifiers
  <2> QED BY <2>1 DEF PendingFor
<1>3. \A u \in Students :
        /\ IsFiniteSet(PendingFor(u))
        /\ x \in PendingFor(u)  <=> k \in Notify!Notifiers /\ Pending(p, k, u)
        /\ x \in PendingFor(u)' <=> k \in Notify!Notifiers /\ Pending(p, k, u)'
  BY PendingFinite DEF PendingFor
<1>4. \A u \in Students :
        /\ Cardinality(PendingFor(u)) \in Nat /\ Cardinality(PendingFor(u)') \in Nat
        /\ Cardinality(PendingFor(u)') <= Cardinality(PendingFor(u)) + 1
        /\ x \notin PendingFor(u)' \/ x \in PendingFor(u) =>
             Cardinality(PendingFor(u)') <= Cardinality(PendingFor(u))
        /\ x \notin PendingFor(u)' /\ x \in PendingFor(u) =>
             Cardinality(PendingFor(u)') + 1 <= Cardinality(PendingFor(u))
  BY <1>2, <1>3, OneMember
<1>5. TargetIsNotToDo /\ \A u \in Students : Covered(u) /\ pushes[u] \in Nat
  BY DEF PushInv, GoroutineType
<1>6. /\ unread[ss] \in Nat /\ unread[tb] \in Nat
      /\ published[ss] \in Nat /\ published[tb] \in Nat
  BY DEF GoroutineType, Notify!Topics
<1>7. ASSUME NEW topic \in Notify!Topics, Notify!Publish(p, k, topic)
      PROVE  PushInv'
  <2>1. /\ k \notin Notify!Notifiers /\ UNCHANGED <<todo, target, pushes>>
        /\ unread' = [unread EXCEPT ![topic] = @ + 1]
        /\ published' = [published EXCEPT ![topic] = @ + 1]
    BY <1>7 DEF Notify!Publish, Notify!Notifiers
  <2>2. TargetIsNotToDo'
    BY <1>1, <1>5, <2>1 DEF TargetIsNotToDo, OwnOnly, Notify!Kinds, Notify!Notifiers
  <2>3. unread'[ss] + unread'[tb] + published[ss] + published[tb]
        = unread[ss] + unread[tb] + published'[ss] + published'[tb]
    BY <1>6, <2>1 DEF GoroutineType, Notify!Topics
  <2>4. /\ unread'[ss] \in Nat /\ unread'[tb] \in Nat
        /\ published'[ss] \in Nat /\ published'[tb] \in Nat
    BY <1>6, <2>1 DEF GoroutineType, Notify!Topics
  <2>5. \A u \in Students : Covered(u)'
    BY <1>3, <1>4, <1>5, <1>6, <2>1, <2>3, <2>4 DEF Covered
  <2> QED BY <2>2, <2>5 DEF PushInv
<1>8. CASE k \in Notify!Notifiers /\ Notify!SendToToken(p, k)
  <2>1. /\ pc[p][k] = "send" /\ target[p][k] \in Students
        /\ pushes' = [pushes EXCEPT ![target[p][k]] = @ + 1]
        /\ pc'[p][k] = (IF k = "session" THEN "next" ELSE "idle")
        /\ UNCHANGED <<unread, published, todo, target>>
    BY <1>8 DEF Notify!SendToToken, Notify!Goto, Notify!At, Notify!PushDone, GoroutineType,
         Notify!Kinds, Notify!Pushing
  <2>2. TargetIsNotToDo'
    BY <1>1, <1>5, <1>8, <2>1
       DEF TargetIsNotToDo, OwnOnly, Notify!Kinds, Notify!Notifiers, Notify!Pushing
  <2>3. ASSUME NEW u \in Students PROVE Covered(u)'
    <3>1. CASE u = target[p][k]
      <4>1. Pending(p, k, u) /\ ~Pending(p, k, u)'
        BY <1>5, <2>1, <3>1 DEF Pending, TargetIsNotToDo, Notify!Pushing
      <4>2. pushes'[u] = pushes[u] + 1
        BY <2>1, <3>1 DEF GoroutineType
      <4> QED BY <1>3, <1>4, <1>5, <1>6, <1>8, <2>1, <4>1, <4>2 DEF Covered
    <3>2. CASE u # target[p][k]
      <4>1. Pending(p, k, u)' => Pending(p, k, u)
        BY <2>1, <3>2 DEF Pending, Notify!Pushing
      <4>2. pushes'[u] = pushes[u]
        BY <2>1, <3>2 DEF GoroutineType
      <4> QED BY <1>3, <1>4, <1>5, <1>6, <2>1, <4>1, <4>2 DEF Covered
    <3> QED BY <3>1, <3>2
  <2> QED BY <2>2, <2>3 DEF PushInv
<1>9. CASE Notify!ReadMessage(p, k)
  <2>1. /\ k # "handler" /\ pc'[p][k] = "begin"
        /\ unread' = [unread EXCEPT ![Notify!ReadsFrom(k)] = @ - 1]
        /\ unread[Notify!ReadsFrom(k)] > 0
        /\ UNCHANGED <<published, todo, target, pushes>>
    BY <1>9 DEF Notify!ReadMessage, Notify!Goto, GoroutineType
  <2>2. TargetIsNotToDo'
    BY <1>1, <1>5, <2>1
       DEF TargetIsNotToDo, OwnOnly, Notify!Kinds, Notify!Notifiers, Notify!Pushing
  <2>3. CASE k = "reporting"
    <3>1. unread'[ss] = unread[ss] /\ unread'[tb] = unread[tb] /\ k \notin Notify!Notifiers
      BY <2>1, <2>3 DEF Notify!ReadsFrom, GoroutineType, Notify!Topics, Notify!Notifiers
    <3>2. \A u \in Students : Covered(u)'
      BY <1>3, <1>4, <1>5, <1>6, <2>1, <3>1 DEF Covered
    <3> QED BY <2>2, <3>2 DEF PushInv
  <2>4. CASE k \in {"session", "breach"}
    <3>1. /\ unread'[ss] + unread'[tb] + 1 = unread[ss] + unread[tb]
          /\ unread'[ss] \in Nat /\ unread'[tb] \in Nat
      BY <1>6, <2>1, <2>4 DEF Notify!ReadsFrom, GoroutineType, Notify!Topics
    <3>2. \A u \in Students : Covered(u)'
      BY <1>4, <1>5, <1>6, <2>1, <3>1 DEF Covered
    <3> QED BY <2>2, <3>2 DEF PushInv
  <2> QED BY <2>1, <2>3, <2>4 DEF Notify!Kinds
<1>10. ASSUME EventsKept, TargetIsNotToDo',
              k \in Notify!Notifiers => \A u \in Students : Pending(p, k, u)' => Pending(p, k, u)
       PROVE  PushInv'
  <2>1. \A u \in Students : Covered(u)'
    BY <1>3, <1>4, <1>5, <1>6, <1>10 DEF Covered, EventsKept
  <2> QED BY <1>10, <2>1 DEF PushInv
<1>11. CASE k = "handler" /\ Notify!Accept(p)
  <2>1. k \notin Notify!Notifiers /\ UNCHANGED <<unread, published, todo, target, pushes>>
    BY <1>11 DEF Notify!Accept, Notify!Notifiers
  <2>2. TargetIsNotToDo'
    BY <1>1, <1>5, <1>11, <2>1 DEF TargetIsNotToDo, OwnOnly, Notify!Kinds, Notify!Notifiers
  <2> QED BY <1>10, <2>1, <2>2 DEF EventsKept
<1>12. CASE /\ Notify!Work(p, k) \/ Notify!Fails(p, k)
            /\ ~ \E topic \in Notify!Topics : Notify!Publish(p, k, topic)
            /\ k \in Notify!Notifiers => ~Notify!SendToToken(p, k)
  BY <1>5, <1>10, <1>12, QuietWork
<1> QED BY <1>7, <1>8, <1>9, <1>11, <1>12 DEF Running

\* A replica that ends drops what its notifiers still had to tell.
LEMMA EndingCovers ==
  ASSUME IsFiniteSet(Replicas), GoroutineType, PushInv, NEW p \in Replicas, Ends(p)
  PROVE  PushInv'
<1>1. /\ pc' = [pc EXCEPT ![p] = Notify!Idle] /\ todo' = [todo EXCEPT ![p] = {}]
      /\ UNCHANGED <<unread, published, target, pushes>>
  BY DEF Ends, Notify!Die
<1>2. \A k \in Notify!Notifiers : Notify!Idle[k] = "idle"
  BY DEF Notify!Idle, Notify!Kinds, Notify!Notifiers
<1>3. TargetIsNotToDo'
  BY <1>1 DEF PushInv, TargetIsNotToDo, GoroutineType
<1>4. ASSUME NEW u \in Students PROVE Covered(u)'
  <2>1. PendingFor(u)' \subseteq PendingFor(u)
    <3>1. \A q \in Replicas, k \in Notify!Notifiers : Pending(q, k, u)' => Pending(q, k, u)
      BY <1>1, <1>2 DEF Pending, GoroutineType, Notify!Pushing
    <3> QED BY <3>1 DEF PendingFor
  <2>2. /\ Cardinality(PendingFor(u)') <= Cardinality(PendingFor(u))
        /\ Cardinality(PendingFor(u)') \in Nat /\ Cardinality(PendingFor(u)) \in Nat
    BY <2>1, PendingFinite, FS_Subset, FS_CardinalityType
  <2>3. /\ unread["session.started"] \in Nat /\ unread["threshold.breached"] \in Nat
        /\ published["session.started"] \in Nat /\ published["threshold.breached"] \in Nat
        /\ pushes[u] \in Nat
    BY DEF GoroutineType, Notify!Topics
  <2>4. Covered(u)
    BY DEF PushInv
  <2> QED BY <1>1, <2>2, <2>3, <2>4 DEF Covered
<1> QED BY <1>3, <1>4 DEF PushInv

\* Nothing is published, read or sent yet.
LEMMA InitPushes == ASSUME IsFiniteSet(Replicas) PROVE Init => PushInv
<1> SUFFICES ASSUME Init PROVE PushInv
  OBVIOUS
<1> USE DEF Init, Notify!Init
<1>1. \A p \in Replicas, k \in Notify!Notifiers : pc[p][k] = "idle"
  BY DEF Notify!Idle, Notify!Kinds, Notify!Notifiers
<1>2. TargetIsNotToDo
  BY <1>1 DEF TargetIsNotToDo, Notify!Pushing, Notify!Notifiers
<1>3. \A u \in Students : PendingFor(u) = {}
  BY <1>1 DEF PendingFor, Pending, Notify!Pushing
<1>4. \A u \in Students : Covered(u)
  <2>1. \A u \in Students : Cardinality(PendingFor(u)) = 0 /\ pushes[u] = 0
    BY <1>3, FS_EmptySet
  <2>2. /\ unread["session.started"] = 0 /\ unread["threshold.breached"] = 0
        /\ published["session.started"] = 0 /\ published["threshold.breached"] = 0
    BY DEF Notify!Topics
  <2> HIDE DEF Init, Notify!Init
  <2> QED BY <2>1, <2>2 DEF Covered
<1> QED BY <1>2, <1>4 DEF PushInv

\* The inductive step.
LEMMA NextPushes ==
  ASSUME IsFiniteSet(Replicas)
  PROVE  ServerInv /\ PushInv /\ [Next]_vars => PushInv'
<1> SUFFICES ASSUME ServerInv, PushInv, [Next]_vars PROVE PushInv'
  OBVIOUS
<1> USE DEF database, messaging, bounds
<1>1. GoroutineType
  BY DEF ServerInv
<1>2. ASSUME UNCHANGED messaging PROVE PushInv'
  BY <1>2 DEF PushInv, TargetIsNotToDo, Covered, PendingFor, Pending
<1>3. CASE UNCHANGED vars
  BY <1>2, <1>3 DEF vars
<1>4. ASSUME NEW p \in Replicas,
             \/ AcceptRequest(p)
             \/ \E k \in Notify!Kinds : Read(p, k) \/ Work(p, k) \/ Fails(p, k)
      PROVE  PushInv'
  <2>1. "handler" \in Notify!Kinds
    BY DEF Notify!Kinds
  <2>2. \E k \in Notify!Kinds : Running(p, k)
    BY <1>4, <2>1 DEF AcceptRequest, Read, Work, Fails, Running
  <2> QED BY <1>1, <2>2, RunningCovers
<1>5. ASSUME NEW p \in Replicas, Ends(p) PROVE PushInv'
  BY <1>1, <1>5, EndingCovers
<1> QED BY <1>2, <1>3, <1>4, <1>5
    DEF Next, Advance, Start, Migrate, Fatal, Serve, Exit, Terminate, Crash, BeginRollback,
        RollBack, RollbackFails

\* No push without an event of its own: a student has been sent at most as many
\* pushes as sessions started and breaches were ever published.
EveryPushHasItsEvent ==
  \A u \in Students :
    pushes[u] <= published["session.started"] + published["threshold.breached"]

\* For any number of replicas whose readers share the topics, with readers that
\* commit the offset as they take a message, no student is sent more pushes than
\* events were published.
THEOREM PushesHaveEvents == ASSUME IsFiniteSet(Replicas) PROVE Spec => []EveryPushHasItsEvent
<1>1. Init => ServerInv /\ PushInv
  BY InitSchema, InitGoroutines, InitPushes DEF ServerInv
<1>2. ServerInv /\ PushInv /\ [Next]_vars => (ServerInv /\ PushInv)'
  BY NextSchema, NextGoroutines, NextLife, NextPushes DEF ServerInv
<1>3. ServerInv /\ PushInv => EveryPushHasItsEvent
  <2> SUFFICES ASSUME ServerInv, PushInv, NEW u \in Students
               PROVE  pushes[u] <= published["session.started"] + published["threshold.breached"]
    BY DEF EveryPushHasItsEvent
  <2>1. Covered(u) /\ Cardinality(PendingFor(u)) \in Nat
    BY PendingFinite, FS_CardinalityType DEF PushInv
  <2>2. /\ unread["session.started"] \in Nat /\ unread["threshold.breached"] \in Nat
        /\ published["session.started"] \in Nat /\ published["threshold.breached"] \in Nat
        /\ pushes[u] \in Nat
    BY DEF ServerInv, GoroutineType, Notify!Topics
  <2> QED BY <2>1, <2>2 DEF Covered
<1> QED BY <1>1, <1>2, <1>3, PTL DEF Spec
-----------------------------------------------------------------------------
(* Migrations of several runners *)

\* Two transactions never hold one migration; what a replica is about to record
\* is on no record, and what the operator takes away is still there.
Exclusive ==
  /\ \A p, q \in Migration!Runners :
       p # q /\ step[p] \in Migration!Inside /\ step[q] \in Migration!Inside =>
         version[p] # version[q]
  /\ \A p \in Replicas : step[p] \in {"record", "commit"} => version[p] \notin applied
  /\ \A p \in Replicas : step[p] \in Migration!Inside => step[p] \in {"record", "commit"}
  /\ step[Operator] \in {"drop", "unrecord", "commit_down"} => version[Operator] \in applied

\* The record changes by one migration at a time: a replica adds one that was not
\* on it, all earlier ones being there unless the operator took one away, and
\* the operator takes one away that was.
OneAtATime ==
  applied' # applied =>
    \/ \E p \in Replicas : \E v \in Migration!Versions \ applied :
         /\ step[p] = "commit"
         /\ applied' = applied \cup {v}
         /\ rollbacks = 0 => 1..(v - 1) \subseteq applied
    \/ \E v \in applied : step[Operator] = "commit_down" /\ applied' = applied \ {v}

MigrationsInOrder == [][OneAtATime]_vars

\* A start fails only since another runner was faster: it has created the table,
\* or applied the migration, after this one had looked.  The primary key of
\* schema_migrations never has to refuse anything.
Overtaken(p) ==
  \/ step[p] = "create" /\ table
  \/ step[p] = "exec" /\ version[p] \in applied

FailuresAreRaces ==
  [][\A p \in Replicas : step[p] # "failed" /\ step'[p] = "failed" => Overtaken(p)]_vars

\* The steps that a handler still has to make.
HandlerLeft(p) ==
  CASE pc[p]["handler"] = "begin"   -> 3
    [] pc[p]["handler"] = "tx"      -> 2
    [] pc[p]["handler"] = "publish" -> 1
    [] OTHER                        -> 0

\* The steps of the file that the replica works on, and of those after it.
FilesLeft(p) == 4 * (LastVersion + 1 - version[p])

\* The steps of RunMigrations that are left, and those of another start when the
\* replica has been overtaken.
MigrationToGo(p) ==
  CASE step[p] = "done"   -> 1
    [] step[p] = "check"  -> FilesLeft(p) + 2
    [] step[p] = "exec"   -> IF Overtaken(p) THEN 4 * LastVersion + 7 ELSE FilesLeft(p) + 1
    [] step[p] = "record" -> FilesLeft(p)
    [] step[p] = "commit" -> FilesLeft(p) - 1
    [] step[p] = "create" -> 4 * LastVersion + IF Overtaken(p) THEN 7 ELSE 3
    [] step[p] = "ensure" -> 4 * LastVersion + 4
    [] OTHER              -> 4 * LastVersion + 6

\* The most steps that a replica makes until it serves when nobody applies a
\* migration before it does.
ToGo(p) ==
  CASE life[p] = "serving"  -> 0
    [] life[p] = "starting" -> MigrationToGo(p)
    [] life[p] = "draining" -> 4 * LastVersion + 6 + HandlerLeft(p)
    [] OTHER                -> 4 * LastVersion + 5

ToGoIsBounded ==
  \A p \in Replicas :
    /\ ToGo(p) \in 0..(4 * LastVersion + 9)
    /\ ToGo(p) = 0 <=> life[p] = "serving"

\* Without new trouble, and when no rollback is under way, a replica's own step
\* brings it nearer to serving, and another's takes it back only by applying
\* a migration or creating the table, which happens LastVersion + 1 times.
Nearer ==
  UNCHANGED bounds /\ step[Operator] = "off" =>
    /\ applied \subseteq applied' /\ table => table'
    /\ \A p \in Replicas :
         /\ Advance(p) \/ (life[p] = "draining" /\ Work(p, "handler")) => ToGo(p)' < ToGo(p)
         /\ UNCHANGED <<applied, table>> => ToGo(p)' <= ToGo(p)

ServingGetsNearer == [][Nearer]_vars

\* A step of RunMigrations, as it changes the database.
LEMMA MigrateCases ==
  ASSUME SchemaInv, LifeType, NEW p \in Replicas, Migration!Migrate(p)
  PROVE  /\ step[p] \in {"ensure", "create", "check", "exec", "record", "commit"}
         /\ \E s \in MigrationSteps : step' = [step EXCEPT ![p] = s]
         /\ \A q \in Migration!Runners \ {p} : version'[q] = version[q]
         /\ step[p] # "commit" => UNCHANGED <<applied, objects>>
         /\ step[p] \notin {"check", "commit"} => version' = version
         /\ step'[p] \in Migration!Inside \cup {"drop"} =>
              /\ step'[p] \in {"record", "commit"} /\ UNCHANGED <<version, applied>>
              /\ \/ step[p] = "exec" /\ ~Migration!Held(p, version[p])
                    /\ version[p] \notin applied
                 \/ step[p] = "record"
         /\ step[p] = "commit" =>
              version[p] \in Migration!Versions /\ applied' = applied \cup {version[p]}
<1> USE DEF SchemaInv, SchemaType, SchemaIsSound, MigrationSteps, Migration!Goto, Migration!Runners,
            Migration!Inside
<1>1. p \in Migration!Runners /\ step \in [Migration!Runners -> MigrationSteps]
  BY StepNames
<1>2. CASE Migration!EnsureTable(p)
  BY <1>1, <1>2 DEF Migration!EnsureTable
<1>3. CASE Migration!CreateTable(p)
  BY <1>1, <1>3 DEF Migration!CreateTable
<1>4. CASE Migration!Check(p)
  BY <1>1, <1>4 DEF Migration!Check
<1>5. CASE Migration!Exec(p)
  BY <1>1, <1>5 DEF Migration!Exec
<1>6. CASE Migration!RecordVersion(p)
  BY <1>1, <1>6 DEF Migration!RecordVersion
<1>7. CASE Migration!Commit(p)
  <2>1. version[p] \in Migration!Versions
    BY <1>1, <1>7, VersionAssumption DEF Migration!Commit, Migration!Versions, Progress
  <2> QED BY <1>1, <1>7, <2>1 DEF Migration!Commit, Migration!Recorded
<1> QED BY <1>2, <1>3, <1>4, <1>5, <1>6, <1>7 DEF Migration!Migrate

LEMMA MigrateExclusive ==
  ASSUME SchemaInv, LifeType, Exclusive, NEW p \in Replicas, Migration!Migrate(p)
  PROVE  Exclusive'
<1> USE OperatorAssumption DEF Exclusive, Migration!Runners
<1>1. \A q \in Migration!Runners \ {p} : step'[q] = step[q] /\ version'[q] = version[q]
  BY MigrateCases DEF SchemaInv, SchemaType
<1>2. CASE step'[p] \in Migration!Inside
  <2>1. step'[p] \in {"record", "commit"} /\ UNCHANGED <<version, applied>>
    BY <1>2, MigrateCases
  <2>2. \/ ~Migration!Held(p, version[p]) /\ version[p] \notin applied
        \/ step[p] = "record"
    BY <1>2, MigrateCases
  <2>3. \A q \in Migration!Runners \ {p} :
          step[q] \in Migration!Inside => version[q] # version[p]
    <3>1. \A q \in Replicas \ {p} : step[q] \in Migration!Inside => version[q] # version[p]
      BY <2>2 DEF Migration!Held, Migration!Inside
    <3>2. step[Operator] \in Migration!Inside => version[Operator] \in applied
      BY DEF SchemaInv, OperatorInv, Migration!Inside
    <3> QED BY <2>2, <3>1, <3>2
  <2> QED BY <1>1, <2>1, <2>2, <2>3
<1>3. CASE step'[p] \notin Migration!Inside
  <2>1. \/ applied' = applied
        \/ step[p] = "commit" /\ applied' = applied \cup {version[p]}
    BY MigrateCases
  <2>2. \A q \in Replicas \ {p} : step[q] \in {"record", "commit"} => version[q] \notin applied'
    BY <2>1 DEF Migration!Inside
  <2> QED BY <1>1, <1>3, <2>1, <2>2 DEF Migration!Inside
<1> QED BY <1>2, <1>3

\* The steps that no transaction of a replica takes part in.
LEMMA NextExclusive == ServerInv /\ Exclusive /\ [Next]_vars => Exclusive'
<1> SUFFICES ASSUME ServerInv, Exclusive, [Next]_vars PROVE Exclusive'
  OBVIOUS
<1> USE OperatorAssumption DEF database, messaging, bounds
<1>0. SchemaInv /\ LifeType
  BY DEF ServerInv
<1>1. ASSUME UNCHANGED <<applied, step, version>> PROVE Exclusive'
  BY <1>1 DEF Exclusive
<1>2. CASE UNCHANGED vars
  BY <1>1, <1>2 DEF vars
<1>3. ASSUME NEW p \in Replicas,
             \/ AcceptRequest(p)
             \/ \E k \in Notify!Kinds : Read(p, k) \/ Work(p, k) \/ Fails(p, k)
      PROVE  Exclusive'
  BY <1>1, <1>3, GoroutineSteps
<1>4. ASSUME NEW p \in Replicas, Terminate(p) \/ Exit(p) PROVE Exclusive'
  BY <1>1, <1>4 DEF Terminate, Exit
<1>5. ASSUME NEW p \in Replicas, Migrate(p) PROVE Exclusive'
  BY <1>0, <1>5, MigrateExclusive DEF Migrate
\* Whoever begins or ends holds nothing.
<1>6. ASSUME NEW p \in Migration!Runners, NEW s \in {"off", "ensure"},
             step' = [step EXCEPT ![p] = s], applied' = applied,
             \A q \in Migration!Runners \ {p} : version'[q] = version[q]
      PROVE  Exclusive'
  <2>1. /\ \A q \in Migration!Runners \ {p} : step'[q] = step[q]
        /\ step'[p] \notin Migration!Inside \cup {"drop"}
    BY <1>0, <1>6 DEF SchemaInv, SchemaType, Migration!Inside
  <2> QED BY <1>6, <2>1 DEF Exclusive, Migration!Inside, Migration!Runners
<1>7. ASSUME NEW p \in Replicas, Start(p) PROVE Exclusive'
  <2>1. p \in Migration!Runners
    BY DEF Migration!Runners
  <2> QED BY <1>0, <1>6, <1>7, <2>1
       DEF Start, Migration!Begin, Migration!Goto, SchemaInv, SchemaType
<1>8. ASSUME NEW p \in Replicas, Fatal(p) \/ Serve(p) \/ Crash(p) PROVE Exclusive'
  <2>1. p \in Migration!Runners
    BY DEF Migration!Runners
  <2>2. Migration!Abandon(p, "off")
    BY <1>8 DEF Fatal, Serve, Crash
  <2> QED BY <1>6, <2>1, <2>2 DEF Migration!Abandon, Migration!Goto
<1>9. Operator \in Migration!Runners /\ step \in [Migration!Runners -> Migration!Steps]
      /\ version \in [Migration!Runners -> 1..(LastVersion + 1)]
  BY <1>0 DEF Migration!Runners, SchemaInv, SchemaType
<1>10. CASE RollbackFails
  BY <1>6, <1>9, <1>10 DEF RollbackFails, Migration!Abandon, Migration!Goto
<1>11. CASE BeginRollback
  <2>1. CASE UNCHANGED <<step, version>>
    BY <1>1, <1>11, <2>1 DEF BeginRollback, Migration!FindLast
  <2>2. CASE ~UNCHANGED <<step, version>>
    <3>1. PICK v \in applied :
            /\ version' = [version EXCEPT ![Operator] = v]
            /\ step' = [step EXCEPT ![Operator] = "drop"] /\ applied' = applied
      BY <1>11, <2>2 DEF BeginRollback, Migration!FindLast, Migration!Newest, Migration!Goto
    <3> QED BY <1>9, <3>1 DEF Exclusive, Migration!Inside, Migration!Runners
  <2> QED BY <2>1, <2>2
<1>12. CASE RollBack /\ Migration!Drop
  <2>1. /\ step' = [step EXCEPT ![Operator] = "unrecord"] /\ UNCHANGED <<applied, version>>
        /\ step[Operator] = "drop" /\ version[Operator] \in applied
    BY <1>12 DEF Migration!Drop, Migration!Goto, Exclusive
  <2>2. \A q \in Replicas : step[q] \in {"record", "commit"} => version[q] # version[Operator]
    BY <2>1 DEF Exclusive
  <2>3. \A q \in Replicas : step[q] \in Migration!Inside => step[q] \in {"record", "commit"}
    BY DEF Exclusive
  <2> QED BY <1>9, <2>1, <2>2, <2>3 DEF Exclusive, Migration!Runners
<1>13. CASE RollBack /\ Migration!Unrecord
  <2>1. /\ step' = [step EXCEPT ![Operator] = "commit_down"] /\ UNCHANGED <<applied, version>>
        /\ step[Operator] = "unrecord"
    BY <1>13 DEF Migration!Unrecord, Migration!Goto
  <2> QED BY <1>9, <2>1 DEF Exclusive, Migration!Inside, Migration!Runners
<1>14. CASE RollBack /\ Migration!CommitDown
  <2>1. /\ step' = [step EXCEPT ![Operator] = "off"] /\ version' = version
        /\ applied' \subseteq applied
    BY <1>14 DEF Migration!CommitDown, Migration!Goto
  <2> QED BY <1>9, <2>1 DEF Exclusive, Migration!Inside, Migration!Runners
<1> QED BY <1>2, <1>3, <1>4, <1>5, <1>7, <1>8, <1>10, <1>11, <1>12, <1>13, <1>14
    DEF Next, Advance, RollBack

LEMMA ExclusiveHolds == Spec => [](ServerInv /\ Exclusive)
<1>1. Init => Exclusive
  BY DEF Init, Migration!Init, Exclusive, Migration!Inside, Migration!Runners
<1> QED BY <1>1, NextExclusive, ServerInvHolds, PTL DEF Spec

\* Whatever replicas and an operator do at once, each migration is recorded once,
\* after those before it, and taken away once.
THEOREM EachMigrationOnce == Spec => MigrationsInOrder
<1>1. ServerInv /\ Exclusive /\ [Next]_vars => [OneAtATime]_vars
  <2> SUFFICES ASSUME ServerInv, Exclusive, [Next]_vars, applied' # applied PROVE OneAtATime
    BY DEF OneAtATime
  <2>0. SchemaInv /\ LifeType
    BY DEF ServerInv
  <2>1. \/ \E p \in Replicas : Migrate(p)
        \/ RollBack /\ Migration!CommitDown
    <3>1. ASSUME NEW p \in Replicas,
                 \/ AcceptRequest(p)
                 \/ \E k \in Notify!Kinds : Read(p, k) \/ Work(p, k) \/ Fails(p, k)
          PROVE  FALSE
      BY <3>1, GoroutineSteps
    <3> QED BY <3>1 DEF Next, Advance, Start, Fatal, Serve, Exit, Terminate, Crash, BeginRollback,
             RollBack, RollbackFails, Migration!Begin, Migration!Abandon, Migration!FindLast,
             Migration!Drop, Migration!Unrecord, vars, database
  <2>2. ASSUME NEW p \in Replicas, Migrate(p) PROVE OneAtATime
    <3>1. /\ step[p] = "commit" /\ version[p] \in Migration!Versions
          /\ applied' = applied \cup {version[p]}
      BY <2>0, <2>2, MigrateCases DEF Migrate
    <3>2. version[p] \in Migration!Versions \ applied
      BY <3>1 DEF Exclusive
    <3>3. rollbacks = 0 => 1..(version[p] - 1) \subseteq applied
      BY <2>0, <3>1, VersionAssumption DEF SchemaInv, Progress, Migration!Versions
    <3> QED BY <3>1, <3>2, <3>3 DEF OneAtATime
  <2>3. CASE RollBack /\ Migration!CommitDown
    BY <2>3 DEF Migration!CommitDown, Exclusive, OneAtATime
  <2> QED BY <2>1, <2>2, <2>3
<1> QED BY <1>1, ExclusiveHolds, PTL DEF Spec, MigrationsInOrder

\* A start fails, without trouble, only because it was overtaken.
THEOREM OnlyTheOvertakenFail == Spec => FailuresAreRaces
<1> DEFINE A == \A p \in Replicas : step[p] # "failed" /\ step'[p] = "failed" => Overtaken(p)
<1>1. ServerInv /\ Exclusive /\ [Next]_vars => [A]_vars
  <2> SUFFICES ASSUME ServerInv, Exclusive, [Next]_vars, NEW p \in Replicas,
                      step[p] # "failed", step'[p] = "failed"
               PROVE  Overtaken(p)
    OBVIOUS
  <2> USE DEF database, Migration!Goto
  <2>1. SchemaInv /\ LifeType /\ p \in Migration!Runners
        /\ step \in [Migration!Runners -> Migration!Steps]
    BY DEF ServerInv, SchemaInv, SchemaType, Migration!Runners
  <2>2. ASSUME NEW q \in Replicas,
               \/ AcceptRequest(q)
               \/ \E k \in Notify!Kinds : Read(q, k) \/ Work(q, k) \/ Fails(q, k)
        PROVE  FALSE
    BY <2>2, GoroutineSteps
  <2>3. ASSUME NEW q \in Replicas,
               Start(q) \/ Fatal(q) \/ Serve(q) \/ Exit(q) \/ Terminate(q) \/ Crash(q)
        PROVE  FALSE
    BY <2>1, <2>3 DEF Start, Fatal, Serve, Exit, Terminate, Crash, Migration!Begin,
                      Migration!Abandon
  <2>4. CASE BeginRollback \/ RollBack \/ RollbackFails
    BY <2>1, <2>4, OperatorAssumption
       DEF BeginRollback, RollBack, RollbackFails, Migration!FindLast, Migration!Drop,
           Migration!Unrecord, Migration!CommitDown, Migration!Abandon
  <2>5. ASSUME NEW q \in Replicas, Migrate(q) PROVE Overtaken(p)
    <3>1. Migration!Migrate(q) /\ q = p
      BY <2>1, <2>5, MigrateCases DEF Migrate
    <3>2. ~Migration!EnsureTable(p) /\ ~Migration!Check(p) /\ ~Migration!Commit(p)
      BY <2>1 DEF Migration!EnsureTable, Migration!Check, Migration!Commit
    <3>3. ~Migration!RecordVersion(p)
      BY <2>1 DEF Migration!RecordVersion, Exclusive
    <3>4. CASE Migration!CreateTable(p)
      BY <2>1, <3>4 DEF Migration!CreateTable, Overtaken
    <3>5. CASE Migration!Exec(p)
      BY <2>1, <3>5 DEF Migration!Exec, Overtaken, SchemaInv, SchemaIsSound
    <3> QED BY <3>1, <3>2, <3>3, <3>4, <3>5 DEF Migration!Migrate
  <2> QED BY <2>2, <2>3, <2>4, <2>5 DEF Next, Advance, vars
<1> QED BY <1>1, ExclusiveHolds, PTL DEF Spec, FailuresAreRaces

\* A replica is starting exactly while it is somewhere in RunMigrations.
StartingSteps == {"ensure", "create", "check", "exec", "record", "commit", "done", "failed"}

Starting ==
  \A p \in Replicas : IF life[p] = "starting" THEN step[p] \in StartingSteps ELSE step[p] = "off"

LEMMA NextStarting == ServerInv /\ Starting /\ [Next]_vars => Starting'
<1> SUFFICES ASSUME ServerInv, Starting, [Next]_vars PROVE Starting'
  OBVIOUS
<1> USE DEF Starting, database, messaging, bounds, Becomes, Migration!Goto
<1>1. /\ step \in [Migration!Runners -> Migration!Steps] /\ life \in [Replicas -> Lives]
      /\ Replicas \subseteq Migration!Runners /\ SchemaInv /\ LifeType
  BY DEF ServerInv, SchemaInv, SchemaType, LifeType, Migration!Runners
<1>2. CASE UNCHANGED vars
  BY <1>2 DEF vars
<1>3. ASSUME NEW p \in Replicas,
             \/ AcceptRequest(p)
             \/ \E k \in Notify!Kinds : Read(p, k) \/ Work(p, k) \/ Fails(p, k)
      PROVE  Starting'
  BY <1>3, GoroutineSteps
<1>4. ASSUME NEW p \in Replicas, Start(p) PROVE Starting'
  BY <1>1, <1>4 DEF Start, Migration!Begin, StartingSteps
<1>5. ASSUME NEW p \in Replicas, Migrate(p) PROVE Starting'
  <2>1. \A q \in Replicas \ {p} : step'[q] = step[q]
    BY <1>1, <1>5, MigrateCases DEF Migrate
  <2>2. step'[p] \in StartingSteps
    BY <1>1, <1>5
       DEF Migrate, Migration!Migrate, Migration!EnsureTable, Migration!CreateTable, Migration!Check,
           Migration!Exec, Migration!RecordVersion, Migration!Commit, StartingSteps
  <2> QED BY <1>5, <2>1, <2>2 DEF Migrate
<1>6. ASSUME NEW p \in Replicas, Fatal(p) \/ Serve(p) \/ Crash(p) PROVE Starting'
  <2>1. /\ step' = [step EXCEPT ![p] = "off"]
        /\ \E l \in {"down", "serving"} : life' = [life EXCEPT ![p] = l]
    BY <1>6 DEF Fatal, Serve, Crash, Ends, Migration!Abandon
  <2> QED BY <1>1, <2>1
<1>7. ASSUME NEW p \in Replicas, Terminate(p) \/ Exit(p) PROVE Starting'
  <2>1. /\ step' = step /\ life[p] # "starting"
        /\ \E l \in {"down", "draining"} : life' = [life EXCEPT ![p] = l]
    BY <1>7 DEF Terminate, Exit, Ends
  <2> QED BY <1>1, <2>1
<1>8. CASE BeginRollback \/ RollBack \/ RollbackFails
  <2>1. life' = life /\ \A q \in Replicas : step'[q] = step[q]
    BY <1>1, <1>8, OperatorAssumption
       DEF BeginRollback, RollBack, RollbackFails, Migration!FindLast, Migration!Drop,
           Migration!Unrecord, Migration!CommitDown, Migration!Abandon
  <2> QED BY <2>1
<1> QED BY <1>2, <1>3, <1>4, <1>5, <1>6, <1>7, <1>8 DEF Next, Advance

LEMMA StartingHolds == Spec => [](ServerInv /\ Exclusive /\ Starting)
<1>1. Init => Starting
  BY DEF Init, Migration!Init, Starting, Migration!Runners
<1> QED BY <1>1, NextStarting, ServerInvHolds, ExclusiveHolds, PTL DEF Spec

\* The distance of a replica to serving never exceeds a constant of the files,
\* and only a serving replica has none to go.
THEOREM ServingIsNear == Spec => []ToGoIsBounded
<1>1. ServerInv /\ Starting => ToGoIsBounded
  <2> SUFFICES ASSUME ServerInv, Starting, NEW p \in Replicas
               PROVE  /\ ToGo(p) \in 0..(4 * LastVersion + 9)
                      /\ ToGo(p) = 0 <=> life[p] = "serving"
    BY DEF ToGoIsBounded
  <2>1. /\ LastVersion \in Nat /\ life[p] \in Lives
        /\ life[p] = "starting" => step[p] \in StartingSteps
    BY VersionAssumption DEF ServerInv, LifeType, Starting
  <2>2. /\ version[p] \in 1..(LastVersion + 1)
        /\ step[p] \in {"exec", "record", "commit"} => version[p] <= LastVersion
    BY DEF ServerInv, SchemaInv, SchemaType, Progress, Migration!Runners
  <2>3. HandlerLeft(p) \in 0..3
    BY DEF HandlerLeft
  <2>4. /\ FilesLeft(p) \in 0..(4 * LastVersion)
        /\ step[p] \in {"exec", "record", "commit"} => FilesLeft(p) >= 4
    BY <2>1, <2>2 DEF FilesLeft
  <2>5. CASE life[p] = "starting"
    <3>1. MigrationToGo(p) \in 1..(4 * LastVersion + 7)
      <4>1. CASE step[p] \in {"done", "ensure", "failed", "create"}
        BY <2>1, <4>1 DEF MigrationToGo
      <4>2. CASE step[p] \in {"check", "exec", "record", "commit"}
        BY <2>1, <2>4, <4>2 DEF MigrationToGo
      <4> QED BY <2>1, <2>5, <4>1, <4>2 DEF StartingSteps
    <3>2. ToGo(p) = MigrationToGo(p)
      BY <2>5 DEF ToGo
    <3> QED BY <2>1, <2>5, <3>1, <3>2
  <2>6. CASE life[p] # "starting"
    BY <2>1, <2>3, <2>6 DEF ToGo, Lives
  <2> QED BY <2>5, <2>6
<1> QED BY <1>1, StartingHolds, PTL

\* What the distance of a replica is made of.
LEMMA SameDistance ==
  ASSUME NEW p \in Replicas,
         life'[p] = life[p], step'[p] = step[p], version'[p] = version[p],
         pc'[p]["handler"] = pc[p]["handler"], UNCHANGED <<applied, table>>
  PROVE  ToGo(p)' = ToGo(p)
<1>1. HandlerLeft(p)' = HandlerLeft(p)
  BY DEF HandlerLeft
<1>2. FilesLeft(p)' = FilesLeft(p)
  BY DEF FilesLeft
<1>3. Overtaken(p)' <=> Overtaken(p)
  BY DEF Overtaken
<1> QED BY <1>1, <1>2, <1>3 DEF ToGo, MigrationToGo

\* A statement of RunMigrations brings its replica nearer.
LEMMA MigratingIsNearer ==
  ASSUME ServerInv, Exclusive, Starting, NEW p \in Replicas, Migrate(p)
  PROVE  ToGo(p)' < ToGo(p)
<1> USE DEF Migration!Goto
<1>1. /\ LastVersion \in Nat /\ version[p] \in 1..(LastVersion + 1)
      /\ life[p] = "starting" /\ life' = life
      /\ p \in Migration!Runners /\ step \in [Migration!Runners -> Migration!Steps]
      /\ version \in [Migration!Runners -> 1..(LastVersion + 1)]
  BY VersionAssumption DEF ServerInv, SchemaInv, SchemaType, Migration!Runners, Migrate
<1>2. applied = objects
  BY DEF ServerInv, SchemaInv, SchemaIsSound
<1>3. /\ FilesLeft(p) \in Nat /\ FilesLeft(p) <= 4 * LastVersion
      /\ version[p] <= LastVersion => FilesLeft(p) >= 4
      /\ version'[p] = version[p] => FilesLeft(p)' = FilesLeft(p)
      /\ version'[p] = version[p] + 1 => FilesLeft(p)' = FilesLeft(p) - 4
  BY <1>1 DEF FilesLeft
<1>4. /\ step[p] = "check"  => ToGo(p) = FilesLeft(p) + 2
      /\ step[p] = "record" => ToGo(p) = FilesLeft(p)
      /\ step[p] = "commit" => ToGo(p) = FilesLeft(p) - 1
      /\ step[p] = "ensure" => ToGo(p) = 4 * LastVersion + 4
      /\ step[p] \in {"create", "exec"} /\ Overtaken(p) => ToGo(p) = 4 * LastVersion + 7
      /\ step[p] = "create" /\ ~Overtaken(p) => ToGo(p) = 4 * LastVersion + 3
      /\ step[p] = "exec" /\ ~Overtaken(p) => ToGo(p) = FilesLeft(p) + 1
  BY <1>1 DEF ToGo, MigrationToGo
<1>5. /\ step'[p] = "check"  => ToGo(p)' = FilesLeft(p)' + 2
      /\ step'[p] = "record" => ToGo(p)' = FilesLeft(p)'
      /\ step'[p] = "commit" => ToGo(p)' = FilesLeft(p)' - 1
      /\ step'[p] = "done" => ToGo(p)' = 1
      /\ step'[p] = "failed" => ToGo(p)' = 4 * LastVersion + 6
      /\ step'[p] = "create" /\ ~Overtaken(p)' => ToGo(p)' = 4 * LastVersion + 3
      /\ step'[p] = "exec" /\ ~Overtaken(p)' => ToGo(p)' = FilesLeft(p)' + 1
  BY <1>1 DEF ToGo, MigrationToGo
<1>6. Migration!Migrate(p)
  BY DEF Migrate
<1>7. CASE Migration!EnsureTable(p)
  <2>1. /\ step[p] = "ensure" /\ UNCHANGED <<table, applied, version>>
        /\ step'[p] = IF table THEN "check" ELSE "create"
    BY <1>1, <1>7 DEF Migration!EnsureTable
  <2>2. step'[p] = "create" => ~Overtaken(p)'
    BY <2>1 DEF Overtaken
  <2> QED BY <1>1, <1>3, <1>4, <1>5, <2>1, <2>2
<1>8. CASE Migration!CreateTable(p)
  <2>1. /\ step[p] = "create" /\ version' = version
        /\ step'[p] = IF table THEN "failed" ELSE "check"
    BY <1>1, <1>8 DEF Migration!CreateTable
  <2>2. Overtaken(p) <=> table
    BY <2>1 DEF Overtaken
  <2> QED BY <1>1, <1>3, <1>4, <1>5, <2>1, <2>2
<1>9. CASE Migration!Check(p)
  <2>1. /\ step[p] = "check" /\ UNCHANGED <<table, applied>>
        /\ \/ step'[p] = "done" /\ version' = version
           \/ step'[p] = "check" /\ version'[p] = version[p] + 1 /\ version[p] <= LastVersion
           \/ /\ step'[p] = "exec" /\ version' = version /\ version[p] <= LastVersion
              /\ version[p] \notin applied
    BY <1>1, <1>9 DEF Migration!Check, Migration!AlreadyApplied
  <2>2. step'[p] = "exec" => ~Overtaken(p)'
    BY <2>1 DEF Overtaken
  <2> QED BY <1>1, <1>3, <1>4, <1>5, <2>1, <2>2
<1>10. CASE Migration!Exec(p)
  <2>1. /\ step[p] = "exec" /\ version' = version
        /\ step'[p] = IF version[p] \in applied THEN "failed" ELSE "record"
    BY <1>1, <1>2, <1>10 DEF Migration!Exec
  <2>2. Overtaken(p) <=> version[p] \in applied
    BY <2>1 DEF Overtaken
  <2> QED BY <1>1, <1>3, <1>4, <1>5, <2>1, <2>2
<1>11. CASE Migration!RecordVersion(p)
  <2>1. step[p] = "record" /\ version' = version /\ step'[p] = "commit"
    BY <1>1, <1>11 DEF Migration!RecordVersion, Exclusive
  <2> QED BY <1>1, <1>3, <1>4, <1>5, <2>1
<1>12. CASE Migration!Commit(p)
  <2>1. step[p] = "commit" /\ version'[p] = version[p] + 1 /\ step'[p] = "check"
    BY <1>1, <1>12 DEF Migration!Commit
  <2> QED BY <1>1, <1>3, <1>4, <1>5, <2>1
<1> QED BY <1>6, <1>7, <1>8, <1>9, <1>10, <1>11, <1>12 DEF Migration!Migrate

\* So do the other steps of a replica's life.
LEMMA LivingIsNearer ==
  ASSUME ServerInv, Exclusive, Starting, NEW p \in Replicas,
         Start(p) \/ Fatal(p) \/ Serve(p) \/ Exit(p)
  PROVE  ToGo(p)' < ToGo(p)
<1> USE DEF Migration!Goto, Becomes
<1>1. /\ LastVersion \in Nat /\ p \in Migration!Runners
      /\ step \in [Migration!Runners -> Migration!Steps] /\ life \in [Replicas -> Lives]
  BY VersionAssumption DEF ServerInv, SchemaInv, SchemaType, LifeType, Migration!Runners
<1>2. HandlerLeft(p) \in Nat
  BY DEF HandlerLeft
<1>3. CASE Start(p)
  <2>1. /\ life[p] = "down" /\ life'[p] = "starting" /\ step'[p] = "ensure"
    BY <1>1, <1>3 DEF Start, Migration!Begin
  <2>2. ToGo(p) = 4 * LastVersion + 5
    BY <2>1 DEF ToGo
  <2>3. ToGo(p)' = 4 * LastVersion + 4
    BY <2>1 DEF ToGo, MigrationToGo
  <2> QED BY <1>1, <2>2, <2>3
<1>4. CASE Fatal(p)
  <2>1. life[p] = "starting" /\ step[p] = "failed" /\ life'[p] = "down"
    BY <1>1, <1>4 DEF Fatal, Starting
  <2> QED BY <1>1, <2>1 DEF ToGo, MigrationToGo
<1>5. CASE Serve(p)
  <2>1. life[p] = "starting" /\ step[p] = "done" /\ life'[p] = "serving"
    BY <1>1, <1>5 DEF Serve, Starting
  <2> QED BY <1>1, <2>1 DEF ToGo, MigrationToGo
<1>6. CASE Exit(p)
  <2>1. life[p] = "draining" /\ life'[p] = "down"
    BY <1>1, <1>6 DEF Exit, Ends
  <2> QED BY <1>1, <1>2, <2>1 DEF ToGo, MigrationToGo
<1> QED BY <1>3, <1>4, <1>5, <1>6

\* A handler has one statement less to make after each.
LEMMA HandlerIsNearer ==
  ASSUME GoroutineType, NEW p \in Replicas, NEW k \in Notify!Kinds,
         Notify!Work(p, k) \/ Notify!Fails(p, k) \/ Notify!ReadMessage(p, k)
  PROVE  IF k = "handler" THEN HandlerLeft(p)' < HandlerLeft(p)
                          ELSE pc'[p]["handler"] = pc[p]["handler"]
<1>1. CASE k = "handler"
  <2>1. \/ Notify!Acquire(p, k) \/ Notify!Release(p, k) \/ Notify!PublishNothing(p, k)
        \/ \E topic \in Notify!Topics : Notify!Publish(p, k, topic)
        \/ Notify!TransactionFails(p, k)
    BY <1>1 DEF Notify!Work, Notify!Fails, Notify!PushFails, Notify!ReadMessage, Notify!Notifiers
  <2>2. \/ pc[p]["handler"] \in {"begin", "tx"} /\ pc'[p]["handler"] = "idle"
        \/ pc[p]["handler"] = "begin" /\ pc'[p]["handler"] = "tx"
        \/ pc[p]["handler"] = "tx" /\ pc'[p]["handler"] = "publish"
        \/ pc[p]["handler"] = "publish" /\ pc'[p]["handler"] = "idle"
    BY <1>1, <2>1 DEF Notify!Acquire, Notify!Release, Notify!PublishNothing, Notify!Publish,
         Notify!TransactionFails, Notify!Goto, Notify!At, GoroutineType, Notify!Kinds
  <2> QED BY <1>1, <2>2 DEF HandlerLeft
<1>2. CASE k # "handler"
  BY <1>2, RunningIsOwn DEF Running, OwnOnly, Notify!Kinds
<1> QED BY <1>1, <1>2

\* However replicas start, overtake each other and fail, each of them gets nearer
\* to serving with every step of its own, and only the progress of the whole, a
\* migration applied or the table created, takes it back: the part of
\* EveryReplicaServes that fairness and the bound on troubles turn into liveness.
THEOREM ReplicasGetNearer == Spec => ServingGetsNearer
<1>1. ServerInv /\ Exclusive /\ Starting /\ [Next]_vars => [Nearer]_vars
  <2> SUFFICES ASSUME ServerInv, Exclusive, Starting, [Next]_vars,
                      UNCHANGED bounds, step[Operator] = "off"
               PROVE  /\ applied \subseteq applied' /\ table => table'
                      /\ \A p \in Replicas :
                           /\ Advance(p) \/ (life[p] = "draining" /\ Work(p, "handler")) =>
                                ToGo(p)' < ToGo(p)
                           /\ UNCHANGED <<applied, table>> => ToGo(p)' <= ToGo(p)
    BY Zenon DEF Nearer
  <2>1. /\ SchemaInv /\ GoroutineType /\ LifeType /\ LastVersion \in Nat
        /\ faults \in Nat /\ stops \in Nat /\ rollbacks \in Nat
        /\ UNCHANGED <<faults, stops, rollbacks>>
    BY VersionAssumption DEF ServerInv, LifeType, bounds
  <2>2. \A p \in Replicas : ToGo(p) \in Int
    <3> SUFFICES ASSUME NEW p \in Replicas PROVE ToGo(p) \in Int
      OBVIOUS
    <3>1. version[p] \in Int
      BY <2>1 DEF SchemaInv, SchemaType, Migration!Runners
    <3>2. FilesLeft(p) \in Int /\ HandlerLeft(p) \in Int
      BY <2>1, <3>1 DEF FilesLeft, HandlerLeft
    <3> QED BY <2>1, <3>2 DEF ToGo, MigrationToGo
  \* What the steps of a replica leave to the others.
  <2>3. ASSUME NEW p \in Replicas, Advance(p)
        PROVE  \A q \in Replicas \ {p} :
                 /\ life'[q] = life[q] /\ step'[q] = step[q] /\ version'[q] = version[q]
                 /\ pc'[q]["handler"] = pc[q]["handler"]
    <3>1. CASE Migrate(p)
      BY <2>1, <3>1, MigrateCases DEF Migrate, messaging, SchemaInv, SchemaType, Migration!Runners
    <3>2. CASE Start(p)
      BY <2>1, <3>2 DEF Start, Migration!Begin, Migration!Goto, Becomes, messaging, SchemaInv,
           SchemaType, LifeType, Migration!Runners
    <3>3. CASE Fatal(p) \/ Serve(p)
      BY <2>1, <3>3 DEF Fatal, Serve, Migration!Abandon, Migration!Goto, Becomes, messaging, SchemaInv,
           SchemaType, LifeType, Migration!Runners
    <3>4. CASE Exit(p)
      BY <2>1, <3>4 DEF Exit, Ends, Notify!Die, Becomes, database, GoroutineType, LifeType
    <3> QED BY <2>3, <3>1, <3>2, <3>3, <3>4 DEF Advance
  <2>4. ASSUME NEW p \in Replicas, Advance(p) PROVE ToGo(p)' < ToGo(p)
    BY <2>4, MigratingIsNearer, LivingIsNearer DEF Advance
  <2>5. ASSUME NEW p \in Replicas, NEW k \in Notify!Kinds,
               Read(p, k) \/ Work(p, k) \/ Fails(p, k)
        PROVE  /\ UNCHANGED <<table, applied, step, version, life>>
               /\ \A q \in Replicas \ {p} : pc'[q]["handler"] = pc[q]["handler"]
               /\ IF k = "handler" THEN HandlerLeft(p)' < HandlerLeft(p)
                                   ELSE pc'[p]["handler"] = pc[p]["handler"]
    BY <2>1, <2>5, GoroutineSteps, HandlerIsNearer, WorkType DEF Read, Work, Fails
  <2>6. ASSUME NEW p \in Replicas, AcceptRequest(p)
        PROVE  /\ UNCHANGED <<table, applied, step, version, life>>
               /\ \A q \in Replicas \ {p} : pc'[q]["handler"] = pc[q]["handler"]
               /\ life[p] = "serving"
    <3>1. "handler" \in Notify!Kinds
      BY DEF Notify!Kinds
    <3> QED BY <2>1, <2>6, <3>1, GoroutineSteps, WorkType DEF AcceptRequest
  <2>7. ASSUME NEW p \in Replicas, life[p] = "draining", Work(p, "handler")
        PROVE  ToGo(p)' < ToGo(p)
    <3>1. life'[p] = "draining" /\ HandlerLeft(p)' < HandlerLeft(p) /\ "handler" \in Notify!Kinds
      BY <2>5, <2>7 DEF Notify!Kinds
    <3>2. HandlerLeft(p) \in Int /\ HandlerLeft(p)' \in Int
      BY DEF HandlerLeft
    <3> QED BY <2>1, <2>7, <3>1, <3>2 DEF ToGo, MigrationToGo
  <2>8. UNCHANGED <<applied, table>> =>
          \A q \in Replicas : ToGo(q)' <= ToGo(q)
    <3> SUFFICES ASSUME UNCHANGED <<applied, table>>, NEW q \in Replicas
                 PROVE  ToGo(q)' <= ToGo(q)
      OBVIOUS
    <3>1. CASE UNCHANGED vars
      BY <2>2, <3>1, SameDistance DEF vars, database, messaging
    <3>2. ASSUME NEW p \in Replicas, Advance(p) PROVE ToGo(q)' <= ToGo(q)
      <4>1. CASE q = p
        <5>1. ToGo(p)' < ToGo(p) /\ ToGo(p) \in Int
          BY <2>2, <2>4, <3>2
        <5>2. ToGo(p)' \in Int
          <6>1. ServerInv'
            BY NextSchema, NextGoroutines, NextLife DEF ServerInv
          <6>2. version'[p] \in Int
            BY <6>1 DEF ServerInv, SchemaInv, SchemaType, Migration!Runners
          <6>3. FilesLeft(p)' \in Int /\ HandlerLeft(p)' \in Int
            BY <2>1, <6>2 DEF FilesLeft, HandlerLeft
          <6> QED BY <2>1, <6>3 DEF ToGo, MigrationToGo
        <5> QED BY <4>1, <5>1, <5>2
      <4>2. CASE q # p
        BY <2>2, <2>3, <3>2, <4>2, SameDistance
      <4> QED BY <4>1, <4>2
    <3>3. ASSUME NEW p \in Replicas, NEW k \in Notify!Kinds,
                 Read(p, k) \/ Work(p, k) \/ Fails(p, k)
          PROVE  ToGo(q)' <= ToGo(q)
      <4>1. CASE q = p /\ k = "handler"
        <5>1. /\ HandlerLeft(q)' < HandlerLeft(q)
              /\ UNCHANGED <<table, applied, step, version, life>>
          BY <2>5, <3>3, <4>1
        <5>2. HandlerLeft(q) \in Int /\ HandlerLeft(q)' \in Int
          BY DEF HandlerLeft
        <5>3. FilesLeft(q)' = FilesLeft(q) /\ (Overtaken(q)' <=> Overtaken(q))
          BY <5>1 DEF FilesLeft, Overtaken
        <5>4. CASE life[q] = "draining"
          BY <2>1, <5>1, <5>2, <5>4 DEF ToGo, MigrationToGo
        <5>5. CASE life[q] # "draining"
          <6>1. ToGo(q)' = ToGo(q)
            BY <5>1, <5>3, <5>5 DEF ToGo, MigrationToGo
          <6> QED BY <2>2, <6>1
        <5> QED BY <5>4, <5>5
      <4>2. CASE q # p \/ k # "handler"
        BY <2>2, <2>5, <3>3, <4>2, SameDistance
      <4> QED BY <4>1, <4>2
    <3>4. ASSUME NEW p \in Replicas, AcceptRequest(p) PROVE ToGo(q)' <= ToGo(q)
      <4>1. CASE q = p
        <5>1. ToGo(q) = 0 /\ ToGo(q)' = 0
          BY <2>6, <3>4, <4>1 DEF ToGo, MigrationToGo
        <5> QED BY <5>1
      <4>2. CASE q # p
        BY <2>2, <2>6, <3>4, <4>2, SameDistance
      <4> QED BY <4>1, <4>2
    <3>5. ASSUME NEW p \in Replicas, Terminate(p) \/ Crash(p) PROVE FALSE
      BY <2>1, <3>5 DEF Terminate, Crash, Fault
    <3>6. CASE BeginRollback \/ RollBack \/ RollbackFails
      BY <2>1, <3>6 DEF BeginRollback, RollBack, RollbackFails, Migration!Drop, Migration!Unrecord,
           Migration!CommitDown
    <3> QED BY <3>1, <3>2, <3>3, <3>4, <3>5, <3>6 DEF Next
  <2>9. applied \subseteq applied' /\ (table => table')
    <3>1. ASSUME NEW p \in Replicas, Migrate(p) PROVE applied \subseteq applied' /\ (table => table')
      <4>1. applied \subseteq applied'
        BY <2>1, <3>1, MigrateCases DEF Migrate
      <4>2. table => table'
        BY <3>1 DEF Migrate, Migration!Migrate, Migration!EnsureTable, Migration!CreateTable,
             Migration!Check, Migration!Exec, Migration!RecordVersion, Migration!Commit
      <4> QED BY <4>1, <4>2
    <3>2. ASSUME NEW p \in Replicas,
                 \/ AcceptRequest(p)
                 \/ \E k \in Notify!Kinds : Read(p, k) \/ Work(p, k) \/ Fails(p, k)
          PROVE  UNCHANGED <<applied, table>>
      BY <3>2, GoroutineSteps
    <3>3. ASSUME NEW p \in Replicas,
                 Start(p) \/ Fatal(p) \/ Serve(p) \/ Exit(p) \/ Terminate(p) \/ Crash(p)
          PROVE  UNCHANGED <<applied, table>>
      BY <3>3 DEF Start, Fatal, Serve, Exit, Terminate, Crash, Migration!Begin, Migration!Abandon,
           database
    <3>4. CASE BeginRollback \/ RollBack \/ RollbackFails
      BY <2>1, <3>4 DEF BeginRollback, RollBack, RollbackFails, Migration!Drop, Migration!Unrecord,
           Migration!CommitDown
    <3> QED BY <3>1, <3>2, <3>3, <3>4 DEF Next, Advance, vars, database
  <2> QED BY <2>4, <2>7, <2>8, <2>9
<1> QED BY <1>1, StartingHolds, PTL DEF Spec, ServingGetsNearer
=============================================================================
