------------------- MODULE ClassAttendanceProgressProofs -------------------
(***************************************************************************)
(* Why every request of ClassAttendance is answered, as far as it can be   *)
(* said without fairness, for every set of students, sections, sessions    *)
(* and requests: row locks are given back, nobody waits in a circle, and   *)
(* every handler has a bounded number of steps left, whatever the others   *)
(* do.                                                                     *)
(***************************************************************************)
EXTENDS ClassAttendanceProofs

\* Whose row lock keeps the next statement of r from running: the guards of the
\* upserts, of the INSERT and of the UPDATE.
WaitsFor(r, q) ==
  /\ q # r /\ sess[q] = sess[r]
  /\ \/ /\ pc[r] \in {"checkin_upsert", "override_upsert", "end_insert"}
        /\ stu[r] \in wrote[q]
     \/ pc[r] = "end_update" /\ pc[q] \in EndHolding

\* A row lock is held within a transaction only.
LocksAreGivenBack ==
  \A r \in Requests :
    pc[r] \notin InTransaction => wrote[r] = {} /\ \A q \in Requests : ~WaitsFor(q, r)

\* In every group of requests somebody waits for nobody of the group.
NoCircleOfWaiters ==
  \A W \in SUBSET Requests : W # {} =>
    \E r \in W : \A q \in W : ~WaitsFor(r, q)

\* A bound on the steps a request may still take until it is answered.
Visits(r) == 2 * Cardinality(todo[r])
Everybody == Cardinality(Students)

Left(r) ==
  CASE pc[r] \in {"start_publish", "checkin_publish", "override_publish"} -> 1
    [] pc[r] \in {"start_code", "checkin_counter", "override_commit"} -> 2
    [] pc[r] \in {"start_commit", "checkin_commit", "override_audit"} -> 3
    [] pc[r] \in {"start_insert", "checkin_upsert", "override_upsert"} -> 4
    [] pc[r] \in {"start_check", "checkin_evaluate", "override_verify"} -> 5
    [] pc[r] = "checkin_duplicate" -> 6
    [] pc[r] = "checkin_limit" -> 7
    [] pc[r] = "checkin_resolve" -> 8
    [] pc[r] = "end_publish" -> Cardinality(todo[r]) + 1
    [] pc[r] = "end_commit" -> Everybody + 2
    [] pc[r] = "end_count_overridden" -> Everybody + 3
    [] pc[r] = "end_count_absent" -> Everybody + 4
    [] pc[r] = "end_count_present" -> Everybody + 5
    [] pc[r] = "end_exists" -> Everybody + 6 + Visits(r)
    [] pc[r] = "end_insert" -> Everybody + 7 + Visits(r)
    [] pc[r] = "end_roster" -> 3 * Everybody + 7
    [] pc[r] = "end_update" -> 3 * Everybody + 8
    [] pc[r] = "end_select" -> 3 * Everybody + 9
    [] OTHER -> 0

\* The distance is a bound, and it is used up exactly when the request is
\* answered.
DistancesAreBounded ==
  \A r \in Requests :
    /\ Left(r) \in 0..(3 * Everybody + 9)
    /\ Left(r) = 0 <=> pc[r] \in Replies \cup {"idle"}

\* Every step of a handler brings its answer nearer, and no step of another
\* request, of a failure or of a crash takes it away again.
AnswersComeNearer ==
  [][\A r \in Requests :
       pc[r] # "idle" =>
         /\ Left(r)' <= Left(r)
         /\ Handle(r) => Left(r)' < Left(r)]_vars
-----------------------------------------------------------------------------
(* Who waits for whom *)

\* Only an EndSession that inserts an absence both waits and is waited for:
\* check-ins and overrides take their one lock last, and an EndSession that
\* waits for its session holds nothing yet.
LEMMA WaitersThatHold ==
  ASSUME SafetyInv, NEW r \in Requests, NEW q \in Requests, NEW p \in Requests,
         WaitsFor(r, q), WaitsFor(q, p)
  PROVE  pc[q] = "end_insert"
BY DEF SafetyInv, LocalInv, LocalsMeanWhatTheySay, WaitsFor, Writing, EndLoop, EndHolding

\* So a chain of waiters ends after two: a third would be a second EndSession
\* in the loop of the same session.
LEMMA ChainsAreShort ==
  ASSUME SafetyInv, NEW r \in Requests, NEW q \in Requests, NEW p \in Requests,
         NEW o \in Requests, WaitsFor(r, q), WaitsFor(q, p)
  PROVE  ~WaitsFor(p, o)
<1> SUFFICES ASSUME WaitsFor(p, o) PROVE FALSE
  OBVIOUS
<1>1. pc[q] = "end_insert" /\ pc[p] = "end_insert"
  BY WaitersThatHold
<1>2. q # p /\ sess[q] = sess[p]
  BY DEF WaitsFor
<1> QED BY <1>1, <1>2 DEF SafetyInv, LocksExclusive, EndHolding

\* No request keeps a row lock once its transaction is over, whether it
\* committed, failed or died.
THEOREM LocksReturn == Spec => []LocksAreGivenBack
<1>1. SafetyInv => LocksAreGivenBack
  BY DEF SafetyInv, LocalInv, LocalsMeanWhatTheySay, LocksAreGivenBack, WaitsFor, Writing,
         EndLoop, EndHolding, InTransaction, CheckinSteps, OverrideSteps, EndSteps
<1> QED BY <1>1, SafetyInvHolds, PTL

\* However many check-ins, overrides and EndSessions meet on one session, they
\* never wait for each other in a circle: PostgreSQL has no deadlock to break.
THEOREM NobodyWaitsInACircle == Spec => []NoCircleOfWaiters
<1>1. SafetyInv => NoCircleOfWaiters
  <2> SUFFICES ASSUME SafetyInv, NEW W \in SUBSET Requests, W # {},
                      \A r \in W : \E q \in W : WaitsFor(r, q)
               PROVE  FALSE
    BY DEF NoCircleOfWaiters
  <2>1. PICK r \in W, q \in W : WaitsFor(r, q)
    OBVIOUS
  <2>2. PICK p \in W : WaitsFor(q, p)
    OBVIOUS
  <2>3. PICK o \in W : WaitsFor(p, o)
    OBVIOUS
  <2> QED BY <2>1, <2>2, <2>3, ChainsAreShort
<1> QED BY <1>1, SafetyInvHolds, PTL
-----------------------------------------------------------------------------
(* How far a request is from its answer *)

\* Sets of students are finite, and none is larger than the whole.
LEMMA ToDoIsFinite ==
  ASSUME NEW T \in SUBSET Students
  PROVE  /\ IsFiniteSet(T)
         /\ Cardinality(T) \in Nat /\ Everybody \in Nat
         /\ Cardinality(T) <= Everybody
         /\ \A u \in T : Cardinality(T \ {u}) = Cardinality(T) - 1
BY StudentsAssumption, FS_Subset, FS_CardinalityType, FS_RemoveElement DEF Everybody

\* The distance is a number, at most three times the students and nine, and it
\* is nothing exactly when the request is answered.
LEMMA LeftIsBounded ==
  ASSUME TypeOK, NEW r \in Requests
  PROVE  /\ Left(r) \in Nat /\ Left(r) <= 3 * Everybody + 9
         /\ Left(r) = 0 <=> pc[r] \in Replies \cup {"idle"}
<1>1. /\ Cardinality(todo[r]) \in Nat /\ Everybody \in Nat
      /\ Cardinality(todo[r]) <= Everybody
      /\ pc[r] \in Steps
  BY ToDoIsFinite DEF TypeOK
<1> HIDE DEF Everybody
<1> QED BY <1>1 DEF Left, Visits, Steps, InTransaction, AfterCommit, StartSteps,
             CheckinSteps, OverrideSteps, EndSteps, EndHolding, Replies

\* The steps of StartSession.
LEMMA StartComesNearer ==
  ASSUME TypeOK, NEW r \in Requests, Start(r)
  PROVE  Left(r)' < Left(r)
<1> USE DEF Goto, TypeOK, Left
<1>1. CASE StartCheck(r)
  BY <1>1 DEF StartCheck
<1>2. CASE StartInsert(r)
  BY <1>2 DEF StartInsert
<1>3. CASE StartCommit(r)
  BY <1>3 DEF StartCommit
<1>4. CASE StartCode(r)
  BY <1>4 DEF StartCode
<1>5. CASE StartPublish(r)
  BY <1>5 DEF StartPublish
<1> QED BY <1>1, <1>2, <1>3, <1>4, <1>5 DEF Start

\* The steps of SubmitCheckin.
LEMMA CheckinComesNearer ==
  ASSUME TypeOK, NEW r \in Requests, Checkin(r)
  PROVE  Left(r)' < Left(r)
<1> USE DEF Goto, TypeOK, Left
<1>1. CASE CheckinResolve(r)
  BY <1>1 DEF CheckinResolve
<1>2. CASE CheckinLimit(r)
  BY <1>2 DEF CheckinLimit
<1>3. CASE CheckinDuplicate(r)
  BY <1>3 DEF CheckinDuplicate
<1>4. CASE CheckinEvaluate(r)
  BY <1>4 DEF CheckinEvaluate
<1>5. CASE CheckinUpsert(r)
  BY <1>5 DEF CheckinUpsert
<1>6. CASE CheckinCommit(r)
  BY <1>6 DEF CheckinCommit
<1>7. CASE CheckinCounter(r)
  BY <1>7 DEF CheckinCounter
<1>8. CASE CheckinPublish(r)
  BY <1>8 DEF CheckinPublish
<1> QED BY <1>1, <1>2, <1>3, <1>4, <1>5, <1>6, <1>7, <1>8 DEF Checkin

\* The steps of SubmitOverride.
LEMMA OverrideComesNearer ==
  ASSUME TypeOK, NEW r \in Requests, Override(r)
  PROVE  Left(r)' < Left(r)
<1> USE DEF Goto, TypeOK, Left
<1>1. CASE OverrideVerify(r)
  BY <1>1 DEF OverrideVerify
<1>2. CASE OverrideUpsert(r)
  BY <1>2 DEF OverrideUpsert
<1>3. CASE OverrideAudit(r)
  BY <1>3 DEF OverrideAudit
<1>4. CASE OverrideCommit(r)
  BY <1>4 DEF OverrideCommit
<1>5. CASE OverridePublish(r)
  BY <1>5 DEF OverridePublish
<1> QED BY <1>1, <1>2, <1>3, <1>4, <1>5 DEF Override

\* The steps of EndSession: each visit of its loop takes a student off the list
\* for good, and an INSERT returns to the same list.
LEMMA EndComesNearer ==
  ASSUME TypeInv, NEW r \in Requests, End(r)
  PROVE  Left(r)' < Left(r)
<1>1. TypeOK /\ TypeOK'
  BY EndTypeInv DEF TypeInv
<1>2. /\ Everybody \in Nat
      /\ todo[r] \in SUBSET Students /\ todo'[r] \in SUBSET Students
      /\ Cardinality(todo[r]) \in Nat /\ Cardinality(todo'[r]) \in Nat
      /\ Cardinality(todo'[r]) <= Everybody
      /\ \A u \in todo[r] : Cardinality(todo[r] \ {u}) = Cardinality(todo[r]) - 1
  BY <1>1, ToDoIsFinite DEF TypeOK
<1> HIDE DEF Everybody
<1> USE DEF Goto, Left, Visits
<1>3. /\ r \in DOMAIN pc /\ r \in DOMAIN todo
      /\ Everybody' = Everybody
  BY <1>1 DEF TypeOK, Everybody
<1>4. CASE EndSelect(r)
  BY <1>2, <1>3, <1>4 DEF EndSelect
<1>5. CASE EndUpdate(r)
  BY <1>2, <1>3, <1>5 DEF EndUpdate
<1>6. CASE EndRoster(r)
  BY <1>2, <1>3, <1>6 DEF EndRoster
<1>7. CASE EndExists(r)
  <2>1. CASE todo[r] = {} /\ pc' = [pc EXCEPT ![r] = "end_count_present"]
    BY <1>2, <1>3, <1>7, <2>1 DEF EndExists
  <2>2. ASSUME NEW u \in todo[r], todo' = [todo EXCEPT ![r] = @ \ {u}],
               pc' = [pc EXCEPT ![r] = IF HasRecord(r, u) THEN "end_exists" ELSE "end_insert"]
        PROVE  Left(r)' < Left(r)
    <3>1. Cardinality(todo'[r]) = Cardinality(todo[r]) - 1
      BY <1>2, <1>3, <2>2
    <3> QED BY <1>2, <1>3, <1>7, <2>2, <3>1 DEF EndExists
  <2> QED BY <1>7, <2>1, <2>2 DEF EndExists
<1>8. CASE EndInsert(r)
  BY <1>2, <1>3, <1>8 DEF EndInsert
<1>9. CASE EndCounts(r)
  BY <1>2, <1>3, <1>9 DEF EndCounts, EndCount
<1>10. CASE EndCommit(r)
  BY <1>2, <1>3, <1>10 DEF EndCommit
<1>11. CASE EndPublish(r)
  <2>1. CASE pc' = [pc EXCEPT ![r] = "ended"]
    BY <1>2, <1>3, <1>11, <2>1 DEF EndPublish
  <2>2. ASSUME NEW u \in todo[r], todo' = [todo EXCEPT ![r] = @ \ {u}], pc' = pc
        PROVE  Left(r)' < Left(r)
    <3>1. Cardinality(todo'[r]) = Cardinality(todo[r]) - 1
      BY <1>2, <1>3, <2>2
    <3> QED BY <1>2, <1>3, <1>11, <2>2, <3>1 DEF EndPublish
  <2> QED BY <1>11, <2>1, <2>2 DEF EndPublish
<1> QED BY <1>4, <1>5, <1>6, <1>7, <1>8, <1>9, <1>10, <1>11 DEF End

\* At every step a request has a bounded distance from its answer.
THEOREM DistancesBounded == Spec => []DistancesAreBounded
<1>1. TypeInv => DistancesAreBounded
  <2> SUFFICES ASSUME TypeInv, NEW r \in Requests
               PROVE  /\ Left(r) \in 0..(3 * Everybody + 9)
                      /\ Left(r) = 0 <=> pc[r] \in Replies \cup {"idle"}
    BY DEF DistancesAreBounded
  <2>1. Everybody \in Nat
    BY ToDoIsFinite
  <2> HIDE DEF Everybody
  <2> QED BY <2>1, LeftIsBounded DEF TypeInv
<1> QED BY <1>1, InitTypeInv, NextTypeInv, PTL DEF Spec

\* A request is answered after at most three steps for each student and nine
\* more, none of which another request, a failure or a crash can undo.
THEOREM AnswersGetNearer == Spec => AnswersComeNearer
<1> DEFINE Nearer == \A r \in Requests :
                       pc[r] # "idle" =>
                         /\ Left(r)' <= Left(r)
                         /\ Handle(r) => Left(r)' < Left(r)
           Numbers == \A r \in Requests : Left(r) \in Nat
<1>1. TypeInv => Numbers
  BY LeftIsBounded DEF TypeInv
<1>2. TypeInv' => Numbers'
  BY <1>1, PTL
<1>3. TypeInv /\ [Next]_vars => [Nearer]_vars
  <2> SUFFICES ASSUME TypeInv, NEW q \in Requests, Acts(q),
                      NEW r \in Requests, pc[r] # "idle"
               PROVE  /\ Left(r)' <= Left(r)
                      /\ Handle(r) => Left(r)' < Left(r)
    BY DEF Next, AllAnswered, Acts
  <2>1. Left(r) \in Nat /\ Left(r)' \in Nat
    <3>1. TypeInv'
      BY NextTypeInv DEF Next, Acts
    <3> QED BY <3>1, <1>1, <1>2
  <2>2. Handle(r) => Left(r)' < Left(r)
    BY StartComesNearer, CheckinComesNearer, OverrideComesNearer, EndComesNearer
       DEF TypeInv, Handle
  <2>3. CASE q # r
    <3>1. pc'[r] = pc[r] /\ todo'[r] = todo[r]
      BY <2>3, ActsTouchOneRequest DEF OthersUntouched
    <3>2. Left(r)' = Left(r)
      BY <3>1 DEF Left, Visits, Everybody
    <3> QED BY <2>1, <2>2, <3>2
  <2>4. CASE q = r /\ Handle(r)
    BY <2>1, <2>2, <2>4
  <2>5. CASE q = r /\ ~Handle(r)
    <3>1. ~Arrive(r)
      BY DEF Arrive, StartArrive, EndArrive, CheckinArrive, OverrideArrive
    <3>2. pc'[r] = "failed"
      BY <2>5, <3>1 DEF Acts, Abort, Die, OnError, Goto, TypeInv, TypeOK
    <3>3. Left(r)' = 0
      BY <3>2 DEF Left
    <3> QED BY <2>1, <2>5, <3>3
  <2> QED BY <2>3, <2>4, <2>5
<1> QED BY <1>3, InitTypeInv, NextTypeInv, PTL DEF Spec, AnswersComeNearer
=============================================================================
