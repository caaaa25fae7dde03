----------------------- MODULE ClassAttendanceProofs -----------------------
(***************************************************************************)
(* Theorems about ClassAttendance, for every set of students, sections,    *)
(* sessions and requests.                                                  *)
(***************************************************************************)
EXTENDS ClassAttendance, FiniteSetTheorems, TLAPS

-----------------------------------------------------------------------------
(* Type correctness *)

\* The steps at which a request has no session, has a student, and has a
\* teacher's status.
Unaddressed == {"idle", "checkin_resolve", "not_found", "bad_request", "failed",
                "rejected", "conflict"}
OnStudent == {"checkin_resolve", "checkin_limit", "checkin_duplicate",
              "checkin_evaluate", "checkin_upsert", "checkin_commit",
              "checkin_counter", "checkin_publish", "accepted", "override_verify",
              "override_upsert", "override_audit", "override_commit",
              "override_publish", "overridden", "end_insert"}
Overriding == {"override_verify", "override_upsert", "override_audit",
               "override_commit", "override_publish", "overridden"}

Addressed ==
  \A r \in Requests :
    /\ pc[r] \notin Unaddressed => sess[r] \in Sessions
    /\ pc[r] \in OnStudent      => stu[r] \in Students
    /\ pc[r] \in Overriding     => want[r] \in Overrides

\* TypeOK alone is not inductive: an event is well formed because the request
\* that publishes it has been given a session and a student.
TypeInv == TypeOK /\ Addressed

\* The labels a handler goes to are among the steps pc ranges over.
LEMMA StepsAreSteps ==
  {"start_check", "start_insert", "start_commit", "start_code", "start_publish",
   "checkin_resolve", "checkin_limit", "checkin_duplicate", "checkin_evaluate",
   "checkin_upsert", "checkin_commit", "checkin_counter", "checkin_publish",
   "override_verify", "override_upsert", "override_audit", "override_commit",
   "override_publish", "end_select", "end_update", "end_roster", "end_exists",
   "end_insert", "end_count_present", "end_count_absent", "end_count_overridden",
   "end_commit", "end_publish"} \cup Replies \subseteq Steps
BY DEF Steps, InTransaction, AfterCommit, StartSteps, CheckinSteps, OverrideSteps,
       EndSteps, EndHolding

\* A COUNT(*) is a natural number.
LEMMA CountedIsNat ==
  ASSUME TypeOK, NEW r \in Requests, NEW wanted
  PROVE  Counted(r, wanted) \in Nat
<1>1. IsFiniteSet({u \in Students : status[sess[r]][u] \in wanted})
  BY StudentsAssumption, FS_Subset, Zenon
<1>2. IsFiniteSet(wrote[r])
  <2>1. wrote[r] \subseteq Students
    BY DEF TypeOK
  <2> QED BY <2>1, StudentsAssumption, FS_Subset
<1> QED BY <1>1, <1>2, FS_CardinalityType DEF Counted

\* What Publish adds to Kafka is an event.
LEMMA PublishTyped ==
  ASSUME published \subseteq Event, NEW r \in Requests, NEW s \in Sessions,
         NEW u \in Students \cup {NoStudent},
         NEW v \in {"started", "ended", "present", "absent"} \cup Overrides,
         Publish(r, s, u, v)
  PROVE  published' \subseteq Event
<1>1. [by |-> r, sess |-> s, stu |-> u, status |-> v] \in Event
  BY DEF Event
<1> QED BY <1>1 DEF Publish

\* The initial states are well formed.
LEMMA InitTypeInv == Init => TypeInv
BY DEF Init, TypeInv, TypeOK, Addressed, Unaddressed, OnStudent, Overriding, Phases,
       Outcomes, Steps, Attempt, Audit, Event

\* The steps of StartSession.
LEMMA StartTypeInv ==
  ASSUME TypeInv, NEW r \in Requests, Start(r)
  PROVE  TypeInv'
<1> USE DEF TypeInv, Goto, database, inputs, progress
<1>1. CASE StartCheck(r)
  <2>1. TypeOK'
    BY <1>1, StepsAreSteps DEF StartCheck, TypeOK, Replies
  <2>2. Addressed'
    BY <1>1 DEF StartCheck, TypeOK, Addressed, Unaddressed, OnStudent, Overriding
  <2> QED BY <2>1, <2>2
<1>2. CASE StartInsert(r)
  <2>1. TypeOK'
    BY <1>2, StepsAreSteps DEF StartInsert, TypeOK, Replies
  <2>2. Addressed'
    BY <1>2 DEF StartInsert, TypeOK, Addressed, Unaddressed, OnStudent, Overriding
  <2> QED BY <2>1, <2>2
<1>3. CASE StartCommit(r)
  <2>1. TypeOK'
    BY <1>3, StepsAreSteps DEF StartCommit, TypeOK, Replies, Phases
  <2>2. Addressed'
    BY <1>3 DEF StartCommit, TypeOK, Addressed, Unaddressed, OnStudent, Overriding, Phases
  <2> QED BY <2>1, <2>2
<1>4. CASE StartCode(r)
  <2>1. TypeOK'
    BY <1>4, StepsAreSteps DEF StartCode, TypeOK, Replies
  <2>2. Addressed'
    BY <1>4 DEF StartCode, TypeOK, Addressed, Unaddressed, OnStudent, Overriding
  <2> QED BY <2>1, <2>2
<1>5. CASE StartPublish(r)
  <2>1. TypeOK'
    <3>1. published' \subseteq Event
      <4>1. sess[r] \in Sessions
        BY <1>5 DEF StartPublish, Addressed, Unaddressed
      <4> QED BY <1>5, <4>1, PublishTyped DEF StartPublish, TypeOK
    <3> QED BY <1>5, <3>1, StepsAreSteps DEF StartPublish, TypeOK, Replies
  <2>2. Addressed'
    BY <1>5 DEF StartPublish, TypeOK, Addressed, Unaddressed, OnStudent, Overriding, Publish, Event
  <2> QED BY <2>1, <2>2
<1> QED BY <1>1, <1>2, <1>3, <1>4, <1>5 DEF Start

\* The steps of SubmitCheckin.
LEMMA CheckinTypeInv ==
  ASSUME TypeInv, NEW r \in Requests, Checkin(r)
  PROVE  TypeInv'
<1> USE DEF TypeInv, Goto, database, inputs, progress
<1>1. CASE CheckinResolve(r)
  <2>1. TypeOK'
    BY <1>1, StepsAreSteps DEF CheckinResolve, TypeOK, Replies
  <2>2. Addressed'
    BY <1>1 DEF CheckinResolve, TypeOK, Addressed, Unaddressed, OnStudent, Overriding
  <2> QED BY <2>1, <2>2
<1>2. CASE CheckinLimit(r)
  <2>1. TypeOK'
    BY <1>2, StepsAreSteps DEF CheckinLimit, TypeOK, Replies
  <2>2. Addressed'
    BY <1>2 DEF CheckinLimit, TypeOK, Addressed, Unaddressed, OnStudent, Overriding
  <2> QED BY <2>1, <2>2
<1>3. CASE CheckinDuplicate(r)
  <2>1. TypeOK'
    BY <1>3, StepsAreSteps DEF CheckinDuplicate, TypeOK, Replies
  <2>2. Addressed'
    BY <1>3 DEF CheckinDuplicate, TypeOK, Addressed, Unaddressed, OnStudent, Overriding
  <2> QED BY <2>1, <2>2
<1>4. CASE CheckinEvaluate(r)
  <2>1. TypeOK'
    BY <1>4, StepsAreSteps DEF CheckinEvaluate, TypeOK, Replies, Outcomes
  <2>2. Addressed'
    BY <1>4 DEF CheckinEvaluate, TypeOK, Addressed, Unaddressed, OnStudent, Overriding, Outcomes
  <2> QED BY <2>1, <2>2
<1>5. CASE CheckinUpsert(r)
  <2>1. TypeOK'
    BY <1>5, StepsAreSteps DEF CheckinUpsert, TypeOK, Replies, Addressed, OnStudent
  <2>2. Addressed'
    BY <1>5 DEF CheckinUpsert, TypeOK, Addressed, Unaddressed, OnStudent, Overriding
  <2> QED BY <2>1, <2>2
<1>6. CASE CheckinCommit(r)
  <2>1. TypeOK'
    <3>1. sess[r] \in Sessions /\ stu[r] \in Students
      BY <1>6 DEF CheckinCommit, Addressed, Unaddressed, OnStudent
    <3>2. attempts' \subseteq Attempt
      BY <1>6, <3>1 DEF CheckinCommit, TypeOK, Attempt
    <3>3. status' \in [Sessions -> [Students -> Outcomes]]
      BY <1>6, <3>1 DEF CheckinCommit, TypeOK, Outcomes
    <3>4. evidence' \in [Sessions -> [Students -> Requests \cup {NoRequest}]]
      BY <1>6, <3>1 DEF CheckinCommit, TypeOK, EvidenceOf
    <3>5. writer' \in [Sessions -> [Students -> Requests \cup {NoRequest}]]
      BY <1>6, <3>1 DEF CheckinCommit, TypeOK
    <3> QED BY <1>6, <3>2, <3>3, <3>4, <3>5, StepsAreSteps DEF CheckinCommit, TypeOK
  <2>2. Addressed'
    BY <1>6 DEF CheckinCommit, TypeOK, Addressed, Unaddressed, OnStudent, Overriding, EvidenceOf, Attempt, Outcomes
  <2> QED BY <2>1, <2>2
<1>7. CASE CheckinCounter(r)
  <2>1. TypeOK'
    BY <1>7, StepsAreSteps DEF CheckinCounter, TypeOK, Replies
  <2>2. Addressed'
    BY <1>7 DEF CheckinCounter, TypeOK, Addressed, Unaddressed, OnStudent, Overriding
  <2> QED BY <2>1, <2>2
<1>8. CASE CheckinPublish(r)
  <2>1. TypeOK'
    <3>1. published' \subseteq Event
      <4>1. sess[r] \in Sessions /\ stu[r] \in Students
        BY <1>8 DEF CheckinPublish, Addressed, Unaddressed, OnStudent
      <4> QED BY <1>8, <4>1, PublishTyped DEF CheckinPublish, TypeOK
    <3> QED BY <1>8, <3>1, StepsAreSteps DEF CheckinPublish, TypeOK, Replies
  <2>2. Addressed'
    BY <1>8 DEF CheckinPublish, TypeOK, Addressed, Unaddressed, OnStudent, Overriding, Publish, Event
  <2> QED BY <2>1, <2>2
<1> QED BY <1>1, <1>2, <1>3, <1>4, <1>5, <1>6, <1>7, <1>8 DEF Checkin

\* The steps of SubmitOverride.
LEMMA OverrideTypeInv ==
  ASSUME TypeInv, NEW r \in Requests, Override(r)
  PROVE  TypeInv'
<1> USE DEF TypeInv, Goto, database, inputs, progress
<1>1. CASE OverrideVerify(r)
  <2>1. TypeOK'
    BY <1>1, StepsAreSteps DEF OverrideVerify, TypeOK, Replies
  <2>2. Addressed'
    BY <1>1 DEF OverrideVerify, TypeOK, Addressed, Unaddressed, OnStudent, Overriding
  <2> QED BY <2>1, <2>2
<1>2. CASE OverrideUpsert(r)
  <2>1. TypeOK'
    BY <1>2, StepsAreSteps DEF OverrideUpsert, TypeOK, Replies, Addressed, OnStudent
  <2>2. Addressed'
    BY <1>2 DEF OverrideUpsert, TypeOK, Addressed, Unaddressed, OnStudent, Overriding
  <2> QED BY <2>1, <2>2
<1>3. CASE OverrideAudit(r)
  <2>1. TypeOK'
    BY <1>3, StepsAreSteps DEF OverrideAudit, TypeOK, Replies
  <2>2. Addressed'
    BY <1>3 DEF OverrideAudit, TypeOK, Addressed, Unaddressed, OnStudent, Overriding
  <2> QED BY <2>1, <2>2
<1>4. CASE OverrideCommit(r)
  <2>1. TypeOK'
    <3>1. sess[r] \in Sessions /\ stu[r] \in Students /\ want[r] \in Overrides
      BY <1>4 DEF OverrideCommit, Addressed, Unaddressed, OnStudent, Overriding
    <3>2. audits' \subseteq Audit
      BY <1>4, <3>1 DEF OverrideCommit, TypeOK, Audited, Audit
    <3>3. status' \in [Sessions -> [Students -> Outcomes]]
      BY <1>4, <3>1 DEF OverrideCommit, TypeOK, Outcomes
    <3>4. writer' \in [Sessions -> [Students -> Requests \cup {NoRequest}]]
      BY <1>4, <3>1 DEF OverrideCommit, TypeOK
    <3> QED BY <1>4, <3>2, <3>3, <3>4, StepsAreSteps DEF OverrideCommit, TypeOK
  <2>2. Addressed'
    BY <1>4 DEF OverrideCommit, TypeOK, Addressed, Unaddressed, OnStudent, Overriding, Audited, Audit, Outcomes, Overrides
  <2> QED BY <2>1, <2>2
<1>5. CASE OverridePublish(r)
  <2>1. TypeOK'
    <3>1. published' \subseteq Event
      <4>1. sess[r] \in Sessions /\ stu[r] \in Students /\ want[r] \in Overrides
        BY <1>5 DEF OverridePublish, Addressed, Unaddressed, OnStudent, Overriding
      <4> QED BY <1>5, <4>1, PublishTyped DEF OverridePublish, TypeOK
    <3> QED BY <1>5, <3>1, StepsAreSteps DEF OverridePublish, TypeOK, Replies
  <2>2. Addressed'
    BY <1>5 DEF OverridePublish, TypeOK, Addressed, Unaddressed, OnStudent, Overriding, Publish, Event, Overrides
  <2> QED BY <2>1, <2>2
<1> QED BY <1>1, <1>2, <1>3, <1>4, <1>5 DEF Override

\* The steps of EndSession.
LEMMA EndTypeInv ==
  ASSUME TypeInv, NEW r \in Requests, End(r)
  PROVE  TypeInv'
<1> USE DEF TypeInv, Goto, database, inputs, progress
<1>1. CASE EndSelect(r)
  <2>1. TypeOK'
    BY <1>1, StepsAreSteps DEF EndSelect, TypeOK, Replies
  <2>2. Addressed'
    BY <1>1 DEF EndSelect, TypeOK, Addressed, Unaddressed, OnStudent, Overriding
  <2> QED BY <2>1, <2>2
<1>2. CASE EndUpdate(r)
  <2>1. TypeOK'
    BY <1>2, StepsAreSteps DEF EndUpdate, TypeOK, Replies
  <2>2. Addressed'
    BY <1>2 DEF EndUpdate, TypeOK, Addressed, Unaddressed, OnStudent, Overriding
  <2> QED BY <2>1, <2>2
<1>3. CASE EndRoster(r)
  <2>1. TypeOK'
    BY <1>3, StepsAreSteps, SectionsAssumption DEF EndRoster, TypeOK, Replies, Roster, Addressed, Unaddressed
  <2>2. Addressed'
    BY <1>3, SectionsAssumption DEF EndRoster, TypeOK, Addressed, Unaddressed, OnStudent, Overriding, Roster
  <2> QED BY <2>1, <2>2
<1>4. CASE EndExists(r)
  <2>1. TypeOK'
    <3>1. pc' \in [Requests -> Steps]
      BY <1>4, StepsAreSteps DEF EndExists, TypeOK
    <3>2. CASE UNCHANGED <<stu, todo>>
      BY <1>4, <3>1, <3>2 DEF EndExists, TypeOK
    <3>3. ASSUME NEW u \in todo[r], stu' = [stu EXCEPT ![r] = u],
                 todo' = [todo EXCEPT ![r] = @ \ {u}]
          PROVE  TypeOK'
      <4>1. u \in Students /\ todo[r] \ {u} \in SUBSET Students
        BY DEF TypeOK
      <4>2. /\ stu' \in [Requests -> Students \cup {NoStudent}]
            /\ todo' \in [Requests -> SUBSET Students]
        BY <3>3, <4>1 DEF TypeOK
      <4> QED BY <1>4, <3>1, <4>2 DEF EndExists, TypeOK
    <3> QED BY <1>4, <3>2, <3>3 DEF EndExists
  <2>2. Addressed'
    BY <1>4 DEF EndExists, TypeOK, Addressed, Unaddressed, OnStudent, Overriding, HasRecord
  <2> QED BY <2>1, <2>2
<1>5. CASE EndInsert(r)
  <2>1. TypeOK'
    <3>1. stu[r] \in Students
      BY <1>5 DEF EndInsert, Addressed, OnStudent
    <3>2. wrote' \in [Requests -> SUBSET Students]
      BY <1>5, <3>1 DEF EndInsert, TypeOK, RolledBack
    <3>3. pc' \in [Requests -> Steps]
      BY <1>5, StepsAreSteps DEF EndInsert, TypeOK, Replies
    <3> QED BY <1>5, <3>2, <3>3 DEF EndInsert, TypeOK
  <2>2. Addressed'
    BY <1>5 DEF EndInsert, TypeOK, Addressed, Unaddressed, OnStudent, Overriding, RolledBack, Conflicts
  <2> QED BY <2>1, <2>2
<1>6. CASE EndCounts(r)
  <2>1. TypeOK'
    <3>1. ASSUME NEW step, NEW wanted, NEW next \in Steps,
                 NEW field \in {"present", "absent", "overridden"},
                 EndCount(r, step, wanted, field, next)
          PROVE  TypeOK'
      <4>1. Counted(r, wanted) \in Nat
        BY CountedIsNat
      <4>2. tally' \in [Requests -> [present : Nat, absent : Nat, overridden : Nat]]
        BY <3>1, <4>1 DEF EndCount, TypeOK
      <4> QED BY <3>1, <4>2 DEF EndCount, TypeOK
    <3> QED BY <1>6, <3>1, StepsAreSteps DEF EndCounts
  <2>2. Addressed'
    BY <1>6, CountedIsNat DEF EndCounts, TypeOK, Addressed, Unaddressed, OnStudent, Overriding, EndCount, Overrides
  <2> QED BY <2>1, <2>2
<1>7. CASE EndCommit(r)
  <2>1. TypeOK'
    <3>1. sess[r] \in Sessions
      BY <1>7 DEF EndCommit, Addressed, Unaddressed
    <3>2. phase' \in [Sessions -> Phases]
      BY <1>7, <3>1 DEF EndCommit, TypeOK, Phases
    <3>3. status' \in [Sessions -> [Students -> Outcomes]]
      BY <1>7, <3>1 DEF EndCommit, TypeOK, Outcomes
    <3>4. /\ todo' \in [Requests -> SUBSET Students]
          /\ wrote' \in [Requests -> SUBSET Students]
      BY <1>7 DEF EndCommit, TypeOK
    <3>5. writer' \in [Sessions -> [Students -> Requests \cup {NoRequest}]]
      BY <1>7, <3>1 DEF EndCommit, TypeOK
    <3> QED BY <1>7, <3>2, <3>3, <3>4, <3>5, StepsAreSteps DEF EndCommit, TypeOK
  <2>2. Addressed'
    BY <1>7 DEF EndCommit, TypeOK, Addressed, Unaddressed, OnStudent, Overriding, Outcomes
  <2> QED BY <2>1, <2>2
<1>8. CASE EndPublish(r)
  <2>1. TypeOK'
    <3>1. sess[r] \in Sessions
      BY <1>8 DEF EndPublish, Addressed, Unaddressed
    <3>2. published' \subseteq Event
      <4>1. ASSUME NEW u \in todo[r], Publish(r, sess[r], u, "absent")
            PROVE  published' \subseteq Event
        BY <3>1, <4>1, PublishTyped DEF TypeOK
      <4>2. ASSUME Publish(r, sess[r], NoStudent, "ended")
            PROVE  published' \subseteq Event
        BY <3>1, <4>2, PublishTyped DEF TypeOK
      <4> QED BY <1>8, <4>1, <4>2 DEF EndPublish
    <3>3. pc' \in [Requests -> Steps]
      BY <1>8, StepsAreSteps DEF EndPublish, TypeOK, Replies
    <3>4. todo' \in [Requests -> SUBSET Students]
      BY <1>8 DEF EndPublish, TypeOK
    <3> QED BY <1>8, <3>2, <3>3, <3>4 DEF EndPublish, TypeOK
  <2>2. Addressed'
    BY <1>8 DEF EndPublish, TypeOK, Addressed, Unaddressed, OnStudent, Overriding, Publish, Event
  <2> QED BY <2>1, <2>2
<1> QED BY <1>1, <1>2, <1>3, <1>4, <1>5, <1>6, <1>7, <1>8 DEF End

\* Arrivals, failures and crashes.
LEMMA OtherTypeInv ==
  ASSUME TypeInv, NEW r \in Requests, Arrive(r) \/ Abort(r) \/ Die(r)
  PROVE  TypeInv'
<1> USE DEF TypeInv, Goto, database, inputs, progress
<1>1. ASSUME NEW s \in Sessions, StartArrive(r, s) \/ EndArrive(r, s)
      PROVE  TypeInv'
  <2>1. TypeOK'
    BY <1>1, StepsAreSteps DEF StartArrive, EndArrive, TypeOK
  <2>2. Addressed'
    BY <1>1 DEF StartArrive, EndArrive, TypeOK, Addressed, Unaddressed, OnStudent, Overriding
  <2> QED BY <2>1, <2>2
<1>2. ASSUME NEW u \in Students, CheckinArrive(r, u)
      PROVE  TypeInv'
  <2>1. TypeOK'
    BY <1>2, StepsAreSteps DEF CheckinArrive, TypeOK
  <2>2. Addressed'
    BY <1>2 DEF CheckinArrive, TypeOK, Addressed, Unaddressed, OnStudent, Overriding
  <2> QED BY <2>1, <2>2
<1>3. ASSUME NEW s \in Sessions, NEW u \in Students, NEW v \in Requested,
             OverrideArrive(r, s, u, v)
      PROVE  TypeInv'
  <2>1. TypeOK'
    <3>1. CASE v \in Overrides
      <4>1. v \in Outcomes \ {"absent"}
        BY <3>1 DEF Outcomes, Overrides
      <4>2. /\ sess' = [sess EXCEPT ![r] = s]
            /\ stu'  = [stu EXCEPT ![r] = u]
            /\ want' = [want EXCEPT ![r] = v]
            /\ pc'   = [pc EXCEPT ![r] = "override_verify"]
        BY <1>3, <3>1 DEF OverrideArrive, ValidStatus
      <4>3. /\ sess' \in [Requests -> Sessions \cup {NoSession}]
            /\ stu'  \in [Requests -> Students \cup {NoStudent}]
        BY <4>2 DEF TypeOK
      <4>4. want' \in [Requests -> Outcomes \ {"absent"}]
        BY <4>1, <4>2 DEF TypeOK
      <4>5. pc' \in [Requests -> Steps]
        BY <4>2, StepsAreSteps DEF TypeOK
      <4> QED BY <1>3, <4>3, <4>4, <4>5 DEF OverrideArrive, TypeOK
    <3>2. CASE v \notin Overrides
      BY <1>3, <3>2, StepsAreSteps DEF OverrideArrive, ValidStatus, TypeOK, Replies
    <3> QED BY <3>1, <3>2
  <2>2. Addressed'
    BY <1>3 DEF OverrideArrive, ValidStatus, TypeOK, Addressed, Unaddressed, OnStudent, Overriding
  <2> QED BY <2>1, <2>2
<1>4. CASE Abort(r) \/ Die(r)
  <2>1. TypeOK'
    BY <1>4, StepsAreSteps DEF Abort, Die, RolledBack, OnError, TypeOK, Replies
  <2>2. Addressed'
    BY <1>4 DEF Abort, Die, OnError, TypeOK, Addressed, Unaddressed, OnStudent, Overriding
  <2> QED BY <2>1, <2>2
<1> QED BY <1>1, <1>2, <1>3, <1>4 DEF Arrive

\* Every step of the system keeps the variables well formed.
LEMMA NextTypeInv == TypeInv /\ [Next]_vars => TypeInv'
<1> SUFFICES ASSUME TypeInv, [Next]_vars PROVE TypeInv'
  OBVIOUS
<1>1. ASSUME NEW r \in Requests, Arrive(r) \/ Handle(r) \/ Abort(r) \/ Die(r)
      PROVE  TypeInv'
  BY <1>1, StartTypeInv, CheckinTypeInv, OverrideTypeInv, EndTypeInv, OtherTypeInv
     DEF Handle
<1>2. CASE UNCHANGED vars
  BY <1>2 DEF vars, database, inputs, progress, TypeInv, TypeOK, Addressed
<1> QED BY <1>1, <1>2 DEF Next, AllAnswered

\* The tables and the handlers' locals keep their shape: whatever a handler
\* writes or publishes is a well formed row or event.
THEOREM TypeCorrect == Spec => []TypeOK
<1>1. Init => TypeInv
  BY InitTypeInv
<1>2. TypeInv /\ [Next]_vars => TypeInv'
  BY NextTypeInv
<1>3. TypeInv => TypeOK
  BY DEF TypeInv
<1> QED BY <1>1, <1>2, <1>3, PTL DEF Spec
-----------------------------------------------------------------------------
(* The safety invariant *)

EndLoop    == {"end_exists", "end_insert", "end_count_present", "end_count_absent",
               "end_count_overridden", "end_commit"}
EndCounted == {"end_count_present", "end_count_absent", "end_count_overridden",
               "end_commit"}
Writing    == {"checkin_commit", "override_audit", "override_commit"} \cup EndLoop

\* Steps a request reaches only after it has seen its session's row.
SessionSeen == {"start_code", "start_publish", "started", "checkin_limit",
                "checkin_duplicate", "checkin_evaluate", "checkin_upsert",
                "checkin_commit", "checkin_counter", "checkin_publish", "accepted",
                "override_upsert", "override_audit", "override_commit",
                "end_update"} \cup EndHolding

\* Two transactions never hold the same row: a record, a session, or the id of
\* a session that is being inserted.
LocksExclusive ==
  \A q, r \in Requests : q # r /\ sess[q] = sess[r] =>
    /\ wrote[q] \cap wrote[r] = {}
    /\ ~(pc[q] \in EndHolding /\ pc[r] \in EndHolding)
    /\ ~(pc[q] \in StartSteps /\ pc[r] \in StartSteps)

\* What the locals of a request say about the tables, at each of its steps.
LocalsMeanWhatTheySay(r) ==
  LET s == sess[r] IN
  /\ wrote[r] # {} => pc[r] \in Writing
  /\ pc[r] \in StartSteps  => phase[s] = "unstarted"
  /\ pc[r] \in SessionSeen => phase[s] # "unstarted"
  /\ pc[r] = "checkin_upsert" => want[r] = "present"
  /\ pc[r] = "checkin_commit" /\ want[r] = "present" => wrote[r] = {stu[r]}
  /\ pc[r] \in {"override_audit", "override_commit"} => wrote[r] = {stu[r]}
  /\ pc[r] \in EndLoop =>
       /\ todo[r] \subseteq Roster(s)
       /\ wrote[r] \subseteq Roster(s)
       /\ \A u \in wrote[r] : status[s][u] = "none"
       /\ \A u \in Roster(s) :
            \/ status[s][u] # "none"
            \/ u \in todo[r] \cup wrote[r]
            \/ pc[r] = "end_insert" /\ u = stu[r]
       /\ pc[r] = "end_insert" => stu[r] \in Roster(s)
  /\ pc[r] \in EndCounted => todo[r] = {}

LocalInv == \A r \in Requests : LocalsMeanWhatTheySay(r)

\* An override that is on record has left its transaction: its request writes
\* nothing more and asks for no other status.
Recorded == {"override_publish", "overridden", "failed"}

AuditorsAreDone == \A a \in audits : pc[a.by] \in Recorded

\* What the runs check of the tables, and what keeps an audit row true.
DataInv ==
  /\ EndedIsComplete
  /\ AbsentOnlyByEnding
  /\ PresentIsEarned
  /\ OverrideIsAudited
  /\ AuditorsAreDone

SafetyInv == TypeInv /\ LocksExclusive /\ LocalInv /\ DataInv
-----------------------------------------------------------------------------
(* One request's step *)

Acts(r) == Arrive(r) \/ Handle(r) \/ Abort(r) \/ Die(r)

OthersUntouched(r) ==
  \A q \in Requests \ {r} :
    /\ pc'[q] = pc[q] /\ sess'[q] = sess[q] /\ stu'[q] = stu[q]
    /\ want'[q] = want[q] /\ todo'[q] = todo[q] /\ wrote'[q] = wrote[q]

\* A step of one request leaves the locals of all the others alone: two
\* requests meet only in the tables and in each other's row locks.
LEMMA ActsTouchOneRequest ==
  ASSUME TypeInv, NEW r \in Requests, Acts(r)
  PROVE  OthersUntouched(r)
<1> USE DEF OthersUntouched, TypeInv, TypeOK, Goto, database, inputs, progress
<1>1. CASE Start(r)
  BY <1>1 DEF Start, StartCheck, StartInsert, StartCommit, StartCode, StartPublish
<1>2. CASE Checkin(r)
  BY <1>2 DEF Checkin, CheckinResolve, CheckinLimit, CheckinDuplicate, CheckinEvaluate,
       CheckinUpsert, CheckinCommit, CheckinCounter, CheckinPublish
<1>3. CASE Override(r)
  BY <1>3 DEF Override, OverrideVerify, OverrideUpsert, OverrideAudit, OverrideCommit,
       OverridePublish
<1>4. CASE End(r)
  <2>1. CASE EndSelect(r) \/ EndUpdate(r) \/ EndRoster(r) \/ EndExists(r)
    BY <2>1 DEF EndSelect, EndUpdate, EndRoster, EndExists
  <2>2. CASE EndInsert(r) \/ EndCounts(r) \/ EndCommit(r) \/ EndPublish(r)
    BY <2>2 DEF EndInsert, RolledBack, EndCounts, EndCount, EndCommit, EndPublish
  <2> QED BY <1>4, <2>1, <2>2 DEF End
<1>5. CASE Arrive(r)
  BY <1>5 DEF Arrive, StartArrive, EndArrive, CheckinArrive, OverrideArrive
<1>6. CASE Abort(r) \/ Die(r)
  BY <1>6 DEF Abort, Die, RolledBack
<1> QED BY <1>1, <1>2, <1>3, <1>4, <1>5, <1>6 DEF Acts, Handle

\* No request has a local, a lock or a record yet.
LEMMA InitSafetyInv == Init => SafetyInv
<1> SUFFICES ASSUME Init PROVE SafetyInv
  OBVIOUS
<1>1. TypeInv
  BY InitTypeInv
<1>2. LocksExclusive
  BY DEF Init, LocksExclusive, EndHolding, StartSteps
<1>3. LocalInv
  BY DEF Init, LocalInv, LocalsMeanWhatTheySay, Writing, EndLoop, EndCounted,
         EndHolding, StartSteps, SessionSeen
<1>4. DataInv
  BY DEF Init, DataInv, EndedIsComplete, AbsentOnlyByEnding, PresentIsEarned,
         OverrideIsAudited, Overrides, AuditorsAreDone
<1> QED BY <1>1, <1>2, <1>3, <1>4 DEF SafetyInv

\* A step that opens, closes or decides something keeps the meaning of the
\* other requests' locals, provided it decides no record that they hold.
LEMMA OthersKeepTheirMeaning ==
  ASSUME SafetyInv, NEW r \in Requests, OthersUntouched(r),
         \A s \in Sessions : phase[s] # "unstarted" => phase'[s] # "unstarted",
         \A q \in Requests \ {r} : pc[q] \in StartSteps => phase'[sess[q]] = "unstarted",
         \A s \in Sessions, u \in Students : status[s][u] # "none" => status'[s][u] # "none",
         \A q \in Requests \ {r} : pc[q] \in EndLoop =>
           \A u \in wrote[q] : status'[sess[q]][u] = "none"
  PROVE  \A q \in Requests \ {r} : LocalsMeanWhatTheySay(q)'
<1> SUFFICES ASSUME NEW q \in Requests \ {r}
             PROVE  LocalsMeanWhatTheySay(q)'
  OBVIOUS
<1>1. LocalsMeanWhatTheySay(q)
  BY DEF SafetyInv, LocalInv
<1>2. /\ pc'[q] = pc[q] /\ sess'[q] = sess[q] /\ stu'[q] = stu[q]
      /\ want'[q] = want[q] /\ todo'[q] = todo[q] /\ wrote'[q] = wrote[q]
  BY DEF OthersUntouched
<1>3. pc[q] \in SessionSeen => phase'[sess[q]] # "unstarted"
  <2>1. pc[q] \in SessionSeen => sess[q] \in Sessions
    BY DEF SafetyInv, TypeInv, Addressed, Unaddressed, SessionSeen, EndHolding
  <2> QED BY <1>1, <2>1 DEF LocalsMeanWhatTheySay
<1>4. ASSUME pc[q] \in EndLoop
      PROVE  \A u \in Roster(sess[q]) :
               \/ status'[sess[q]][u] # "none"
               \/ u \in todo[q] \cup wrote[q]
               \/ pc[q] = "end_insert" /\ u = stu[q]
  <2>1. sess[q] \in Sessions
    BY <1>4 DEF SafetyInv, TypeInv, Addressed, Unaddressed, EndLoop
  <2>2. Roster(sess[q]) \subseteq Students
    BY <2>1, SectionsAssumption DEF Roster
  <2> QED BY <1>1, <1>4, <2>1, <2>2 DEF LocalsMeanWhatTheySay
<1> QED BY <1>1, <1>2, <1>3, <1>4 DEF LocalsMeanWhatTheySay, Roster

\* A step that writes neither phase nor status keeps it too.
LEMMA OthersKeepTheirMeaningQuietly ==
  ASSUME SafetyInv, NEW r \in Requests, OthersUntouched(r), UNCHANGED <<phase, status>>
  PROVE  \A q \in Requests \ {r} : LocalsMeanWhatTheySay(q)'
<1>1. \A q \in Requests \ {r} : pc[q] \in StartSteps => phase'[sess[q]] = "unstarted"
  BY DEF SafetyInv, LocalInv, LocalsMeanWhatTheySay
<1>2. \A q \in Requests \ {r} : pc[q] \in EndLoop =>
        \A u \in wrote[q] : status'[sess[q]][u] = "none"
  BY DEF SafetyInv, LocalInv, LocalsMeanWhatTheySay
<1> QED BY <1>1, <1>2, OthersKeepTheirMeaning
-----------------------------------------------------------------------------
(* What each step does to the locals of its own request. *)

\* StartSession.
LEMMA StartLocals ==
  ASSUME SafetyInv, NEW r \in Requests, Start(r)
  PROVE  LocalsMeanWhatTheySay(r)'
<1>1. TypeOK /\ Addressed /\ LocalsMeanWhatTheySay(r)
  BY DEF SafetyInv, TypeInv, LocalInv
<1> USE DEF LocalsMeanWhatTheySay, Goto, TypeOK, database, inputs, progress,
      Writing, EndLoop, EndCounted, EndHolding, StartSteps, SessionSeen
<1>2. CASE StartCheck(r)
  BY <1>1, <1>2 DEF StartCheck
<1>3. CASE StartInsert(r)
  BY <1>1, <1>3 DEF StartInsert
<1>4. CASE StartCommit(r)
  BY <1>1, <1>4 DEF StartCommit, Addressed, Unaddressed
<1>5. CASE StartCode(r)
  BY <1>1, <1>5 DEF StartCode
<1>6. CASE StartPublish(r)
  BY <1>1, <1>6 DEF StartPublish
<1> QED BY <1>2, <1>3, <1>4, <1>5, <1>6 DEF Start

\* SubmitCheckin.
LEMMA CheckinLocals ==
  ASSUME SafetyInv, NEW r \in Requests, Checkin(r)
  PROVE  LocalsMeanWhatTheySay(r)'
<1>1. TypeOK /\ Addressed /\ LocalsMeanWhatTheySay(r)
  BY DEF SafetyInv, TypeInv, LocalInv
<1> USE DEF LocalsMeanWhatTheySay, Goto, TypeOK, database, inputs, progress,
      Writing, EndLoop, EndCounted, EndHolding, StartSteps, SessionSeen
<1>2. CASE CheckinResolve(r)
  BY <1>1, <1>2 DEF CheckinResolve
<1>3. CASE CheckinLimit(r)
  BY <1>1, <1>3 DEF CheckinLimit
<1>4. CASE CheckinDuplicate(r)
  BY <1>1, <1>4 DEF CheckinDuplicate
<1>5. CASE CheckinEvaluate(r)
  BY <1>1, <1>5 DEF CheckinEvaluate
<1>6. CASE CheckinUpsert(r)
  BY <1>1, <1>6 DEF CheckinUpsert
<1>7. CASE CheckinCommit(r)
  BY <1>1, <1>7 DEF CheckinCommit
<1>8. CASE CheckinCounter(r)
  BY <1>1, <1>8 DEF CheckinCounter
<1>9. CASE CheckinPublish(r)
  BY <1>1, <1>9 DEF CheckinPublish
<1> QED BY <1>2, <1>3, <1>4, <1>5, <1>6, <1>7, <1>8, <1>9 DEF Checkin

\* SubmitOverride.
LEMMA OverrideLocals ==
  ASSUME SafetyInv, NEW r \in Requests, Override(r)
  PROVE  LocalsMeanWhatTheySay(r)'
<1>1. TypeOK /\ Addressed /\ LocalsMeanWhatTheySay(r)
  BY DEF SafetyInv, TypeInv, LocalInv
<1> USE DEF LocalsMeanWhatTheySay, Goto, TypeOK, database, inputs, progress,
      Writing, EndLoop, EndCounted, EndHolding, StartSteps, SessionSeen
<1>2. CASE OverrideVerify(r)
  BY <1>1, <1>2 DEF OverrideVerify
<1>3. CASE OverrideUpsert(r)
  BY <1>1, <1>3 DEF OverrideUpsert
<1>4. CASE OverrideAudit(r)
  BY <1>1, <1>4 DEF OverrideAudit
<1>5. CASE OverrideCommit(r)
  BY <1>1, <1>5 DEF OverrideCommit
<1>6. CASE OverridePublish(r)
  BY <1>1, <1>6 DEF OverridePublish
<1> QED BY <1>2, <1>3, <1>4, <1>5, <1>6 DEF Override

\* EndSession.
LEMMA EndLocals ==
  ASSUME SafetyInv, NEW r \in Requests, End(r)
  PROVE  LocalsMeanWhatTheySay(r)'
<1>1. TypeOK /\ Addressed /\ LocalsMeanWhatTheySay(r)
  BY DEF SafetyInv, TypeInv, LocalInv
<1> USE DEF LocalsMeanWhatTheySay, Goto, TypeOK, database, inputs, progress,
      Writing, EndLoop, EndCounted, EndHolding, StartSteps, SessionSeen
<1>2. CASE EndSelect(r)
  BY <1>1, <1>2 DEF EndSelect
<1>3. CASE EndUpdate(r)
  BY <1>1, <1>3 DEF EndUpdate
<1>4. CASE EndRoster(r)
  BY <1>1, <1>4 DEF EndRoster, Roster, Addressed, Unaddressed
<1>5. CASE EndExists(r)
  BY <1>1, <1>5 DEF EndExists, HasRecord, Roster
<1>6. CASE EndInsert(r)
  BY <1>1, <1>6 DEF EndInsert, RolledBack, Conflicts, Roster
<1>7. CASE EndCounts(r)
  BY <1>1, <1>7 DEF EndCounts, EndCount
<1>8. CASE EndCommit(r)
  BY <1>1, <1>8 DEF EndCommit, Addressed, Unaddressed
<1>9. CASE EndPublish(r)
  BY <1>1, <1>9 DEF EndPublish
<1> QED BY <1>2, <1>3, <1>4, <1>5, <1>6, <1>7, <1>8, <1>9 DEF End

\* Arrivals, failures and crashes.
LEMMA OtherLocals ==
  ASSUME SafetyInv, NEW r \in Requests, Arrive(r) \/ Abort(r) \/ Die(r)
  PROVE  LocalsMeanWhatTheySay(r)'
<1>1. TypeOK /\ Addressed /\ LocalsMeanWhatTheySay(r)
  BY DEF SafetyInv, TypeInv, LocalInv
<1> USE DEF LocalsMeanWhatTheySay, Goto, TypeOK, database, inputs, progress,
      Writing, EndLoop, EndCounted, EndHolding, StartSteps, SessionSeen
<1>2. CASE Arrive(r)
  BY <1>1, <1>2 DEF Arrive, StartArrive, EndArrive, CheckinArrive, OverrideArrive
<1>3. CASE Abort(r)
  BY <1>1, <1>3 DEF Abort, RolledBack, OnError
<1>4. CASE Die(r)
  <2>1. wrote[r] = {}
    BY <1>1, <1>4 DEF Die, AfterCommit
  <2> QED BY <1>1, <1>4, <2>1 DEF Die
<1> QED BY <1>2, <1>3, <1>4

\* The locals of the request that steps mean what its next step needs.
LEMMA OwnLocals ==
  ASSUME SafetyInv, NEW r \in Requests, Acts(r)
  PROVE  LocalsMeanWhatTheySay(r)'
BY StartLocals, CheckinLocals, OverrideLocals, EndLocals, OtherLocals DEF Acts, Handle
-----------------------------------------------------------------------------
(* Row locks. *)

\* The locks of r, after a step of its own, clash with nobody's.
OwnLocks(r) ==
  \A q \in Requests \ {r} : sess[q] = sess[r] =>
    /\ wrote[q] \cap wrote[r] = {}
    /\ ~(pc[q] \in EndHolding /\ pc[r] \in EndHolding)
    /\ ~(pc[q] \in StartSteps /\ pc[r] \in StartSteps)

\* Locks stay exclusive if those of the request that steps clash with nobody's:
\* the others kept theirs.
LEMMA OwnLocksSuffice ==
  ASSUME LocksExclusive, NEW r \in Requests, OthersUntouched(r), OwnLocks(r)'
  PROVE  LocksExclusive'
<1> SUFFICES ASSUME NEW q \in Requests, NEW p \in Requests, q # p, sess'[q] = sess'[p]
             PROVE  /\ wrote'[q] \cap wrote'[p] = {}
                    /\ ~(pc'[q] \in EndHolding /\ pc'[p] \in EndHolding)
                    /\ ~(pc'[q] \in StartSteps /\ pc'[p] \in StartSteps)
  BY DEF LocksExclusive
<1>1. CASE q = r
  BY <1>1 DEF OwnLocks
<1>2. CASE p = r
  BY <1>2 DEF OwnLocks
<1>3. CASE q # r /\ p # r
  BY <1>3 DEF OthersUntouched, LocksExclusive
<1> QED BY <1>1, <1>2, <1>3

\* A request that stays on its session and takes no lock clashes with nobody.
LEMMA NoNewLock ==
  ASSUME LocksExclusive, NEW r \in Requests, OthersUntouched(r),
         sess'[r] = sess[r], wrote'[r] \subseteq wrote[r],
         pc'[r] \in EndHolding => pc[r] \in EndHolding,
         pc'[r] \in StartSteps => pc[r] \in StartSteps
  PROVE  OwnLocks(r)'
BY DEF OwnLocks, LocksExclusive, OthersUntouched

\* A request that holds nothing and takes no lock clashes with nobody.
LEMMA NoLock ==
  ASSUME NEW r \in Requests, wrote'[r] = {}, pc'[r] \notin EndHolding,
         pc'[r] \notin StartSteps
  PROVE  OwnLocks(r)'
BY DEF OwnLocks

\* StartSession takes the id of its row when it arrives.
LEMMA StartLocks ==
  ASSUME SafetyInv, NEW r \in Requests, Start(r), OthersUntouched(r)
  PROVE  OwnLocks(r)'
<1>1. TypeOK /\ LocksExclusive /\ LocalsMeanWhatTheySay(r)
  BY DEF SafetyInv, TypeInv, LocalInv
<1> USE DEF TypeOK, Goto, database, inputs, progress, EndHolding, StartSteps
<1>2. CASE StartCheck(r)
  BY <1>1, <1>2, NoNewLock DEF StartCheck
<1>3. CASE StartInsert(r)
  BY <1>1, <1>3, NoNewLock DEF StartInsert
<1>4. CASE StartCommit(r)
  BY <1>1, <1>4, NoNewLock DEF StartCommit
<1>5. CASE StartCode(r)
  BY <1>1, <1>5, NoNewLock DEF StartCode
<1>6. CASE StartPublish(r)
  BY <1>1, <1>6, NoNewLock DEF StartPublish
<1> QED BY <1>2, <1>3, <1>4, <1>5, <1>6 DEF Start

\* SubmitCheckin locks one record in its upsert.
LEMMA CheckinLocks ==
  ASSUME SafetyInv, NEW r \in Requests, Checkin(r), OthersUntouched(r)
  PROVE  OwnLocks(r)'
<1>1. TypeOK /\ LocksExclusive /\ LocalsMeanWhatTheySay(r)
  BY DEF SafetyInv, TypeInv, LocalInv
<1> USE DEF TypeOK, Goto, database, inputs, progress, EndHolding, StartSteps
<1>2. CASE CheckinResolve(r)
  BY <1>1, <1>2, NoLock DEF CheckinResolve, LocalsMeanWhatTheySay, Writing, EndLoop
<1>3. CASE CheckinLimit(r)
  BY <1>1, <1>3, NoNewLock DEF CheckinLimit
<1>4. CASE CheckinDuplicate(r)
  BY <1>1, <1>4, NoNewLock DEF CheckinDuplicate
<1>5. CASE CheckinEvaluate(r)
  BY <1>1, <1>5, NoNewLock DEF CheckinEvaluate
<1>6. CASE CheckinUpsert(r)
  BY <1>1, <1>6 DEF CheckinUpsert, OwnLocks, RecordFree, OthersUntouched
<1>7. CASE CheckinCommit(r)
  BY <1>1, <1>7, NoNewLock DEF CheckinCommit
<1>8. CASE CheckinCounter(r)
  BY <1>1, <1>8, NoNewLock DEF CheckinCounter
<1>9. CASE CheckinPublish(r)
  BY <1>1, <1>9, NoNewLock DEF CheckinPublish
<1> QED BY <1>2, <1>3, <1>4, <1>5, <1>6, <1>7, <1>8, <1>9 DEF Checkin

\* SubmitOverride locks one record in its upsert.
LEMMA OverrideLocks ==
  ASSUME SafetyInv, NEW r \in Requests, Override(r), OthersUntouched(r)
  PROVE  OwnLocks(r)'
<1>1. TypeOK /\ LocksExclusive /\ LocalsMeanWhatTheySay(r)
  BY DEF SafetyInv, TypeInv, LocalInv
<1> USE DEF TypeOK, Goto, database, inputs, progress, EndHolding, StartSteps
<1>2. CASE OverrideVerify(r)
  BY <1>1, <1>2, NoNewLock DEF OverrideVerify
<1>3. CASE OverrideUpsert(r)
  BY <1>1, <1>3 DEF OverrideUpsert, OwnLocks, RecordFree, OthersUntouched
<1>4. CASE OverrideAudit(r)
  BY <1>1, <1>4, NoNewLock DEF OverrideAudit
<1>5. CASE OverrideCommit(r)
  BY <1>1, <1>5, NoNewLock DEF OverrideCommit
<1>6. CASE OverridePublish(r)
  BY <1>1, <1>6, NoNewLock DEF OverridePublish
<1> QED BY <1>2, <1>3, <1>4, <1>5, <1>6 DEF Override

\* EndSession locks its session, then one record after another.
LEMMA EndLocks ==
  ASSUME SafetyInv, NEW r \in Requests, End(r), OthersUntouched(r)
  PROVE  OwnLocks(r)'
<1>1. TypeOK /\ LocksExclusive /\ LocalsMeanWhatTheySay(r)
  BY DEF SafetyInv, TypeInv, LocalInv
<1> USE DEF TypeOK, Goto, database, inputs, progress, EndHolding, StartSteps
<1>2. CASE EndSelect(r)
  BY <1>1, <1>2, NoNewLock DEF EndSelect
<1>3. CASE EndUpdate(r)
  BY <1>1, <1>3 DEF EndUpdate, OwnLocks, SessionFree, OthersUntouched, LocksExclusive
<1>4. CASE EndRoster(r)
  BY <1>1, <1>4, NoNewLock DEF EndRoster
<1>5. CASE EndExists(r)
  BY <1>1, <1>5, NoNewLock DEF EndExists, HasRecord
<1>6. CASE EndInsert(r)
  BY <1>1, <1>6 DEF EndInsert, OwnLocks, RecordFree, OthersUntouched, LocksExclusive, RolledBack
<1>7. CASE EndCounts(r)
  BY <1>1, <1>7, NoNewLock DEF EndCounts, EndCount
<1>8. CASE EndCommit(r)
  BY <1>1, <1>8, NoNewLock DEF EndCommit
<1>9. CASE EndPublish(r)
  BY <1>1, <1>9, NoNewLock DEF EndPublish
<1> QED BY <1>2, <1>3, <1>4, <1>5, <1>6, <1>7, <1>8, <1>9 DEF End

\* A request arrives with no lock, and loses all of them when it fails.
LEMMA OtherLocks ==
  ASSUME SafetyInv, NEW r \in Requests, Arrive(r) \/ Abort(r) \/ Die(r), OthersUntouched(r)
  PROVE  OwnLocks(r)'
<1>1. TypeOK /\ LocksExclusive /\ LocalsMeanWhatTheySay(r)
  BY DEF SafetyInv, TypeInv, LocalInv
<1> USE DEF TypeOK, Goto, database, inputs, progress, EndHolding, StartSteps
<1>2. ASSUME NEW s \in Sessions, StartArrive(r, s)
      PROVE  OwnLocks(r)'
  <2>1. wrote'[r] = {}
    BY <1>1, <1>2 DEF StartArrive, LocalsMeanWhatTheySay, Writing, EndLoop
  <2>2. pc'[r] = "start_check" /\ sess'[r] = s
    BY <1>1, <1>2 DEF StartArrive
  <2>3. \A q \in Requests \ {r} : pc[q] \in StartSteps => sess[q] # s
    BY <1>2 DEF StartArrive
  <2> QED BY <2>1, <2>2, <2>3 DEF OwnLocks, OthersUntouched
<1>3. CASE Arrive(r) /\ ~ \E s \in Sessions : StartArrive(r, s)
  <2>1. wrote'[r] = {}
    BY <1>1, <1>3 DEF Arrive, EndArrive, CheckinArrive, OverrideArrive,
         LocalsMeanWhatTheySay, Writing, EndLoop
  <2>2. pc'[r] \notin EndHolding /\ pc'[r] \notin StartSteps
    BY <1>1, <1>3 DEF Arrive, EndArrive, CheckinArrive, OverrideArrive
  <2> QED BY <2>1, <2>2, NoLock
<1>4. CASE Abort(r)
  BY <1>1, <1>4, NoLock DEF Abort, RolledBack, OnError
<1>5. CASE Die(r)
  BY <1>1, <1>5, NoNewLock DEF Die
<1> QED BY <1>2, <1>3, <1>4, <1>5

\* PostgreSQL's row locks stay exclusive: each statement that takes one waits.
LEMMA LocksStep ==
  ASSUME SafetyInv, NEW r \in Requests, Acts(r)
  PROVE  LocksExclusive'
<1>1. OthersUntouched(r)
  BY ActsTouchOneRequest DEF SafetyInv
<1>2. OwnLocks(r)'
  BY <1>1, StartLocks, CheckinLocks, OverrideLocks, EndLocks, OtherLocks DEF Acts, Handle
<1> QED BY <1>1, <1>2, OwnLocksSuffice DEF SafetyInv
-----------------------------------------------------------------------------
(* The four commits are the only steps that change the tables. *)

Commits(r) == StartCommit(r) \/ CheckinCommit(r) \/ OverrideCommit(r) \/ EndCommit(r)

\* The committed tables change only in a handler's Commit.
LEMMA OnlyCommitsChangeTables ==
  ASSUME NEW r \in Requests, Acts(r), ~Commits(r)
  PROVE  UNCHANGED database
<1>1. CASE Start(r)
  BY <1>1 DEF Commits, Start, StartCheck, StartInsert, StartCode, StartPublish
<1>2. CASE Checkin(r)
  BY <1>2 DEF Commits, Checkin, CheckinResolve, CheckinLimit, CheckinDuplicate,
       CheckinEvaluate, CheckinUpsert, CheckinCounter, CheckinPublish
<1>3. CASE Override(r)
  BY <1>3 DEF Commits, Override, OverrideVerify, OverrideUpsert, OverrideAudit,
       OverridePublish
<1>4. CASE End(r)
  BY <1>4 DEF Commits, End, EndSelect, EndUpdate, EndRoster, EndExists, EndInsert,
       EndCounts, EndCount, EndPublish
<1>5. CASE Arrive(r) \/ Abort(r) \/ Die(r)
  BY <1>5 DEF Arrive, StartArrive, EndArrive, CheckinArrive, OverrideArrive, Abort, Die
<1> QED BY <1>1, <1>2, <1>3, <1>4, <1>5 DEF Acts, Handle

\* What the committing request knows of its session and its student.
LEMMA CommitTargets ==
  ASSUME SafetyInv, NEW r \in Requests, Commits(r)
  PROVE  /\ sess[r] \in Sessions
         /\ pc[r] # "end_commit" /\ pc[r] # "start_commit" => stu[r] \in Students
         /\ pc[r] = "override_commit" => want[r] \in Overrides
         /\ Roster(sess[r]) \subseteq Students
<1>1. pc[r] \in {"start_commit", "checkin_commit", "override_commit", "end_commit"}
  BY DEF Commits, StartCommit, CheckinCommit, OverrideCommit, EndCommit
<1>2. sess[r] \in Sessions
  BY <1>1 DEF SafetyInv, TypeInv, Addressed, Unaddressed
<1>3. /\ pc[r] # "end_commit" /\ pc[r] # "start_commit" => stu[r] \in Students
      /\ pc[r] = "override_commit" => want[r] \in Overrides
  BY <1>1 DEF SafetyInv, TypeInv, Addressed, OnStudent, Overriding
<1> QED BY <1>2, <1>3, SectionsAssumption DEF Roster

\* A commit decides no record that another transaction holds, opens no session
\* that another one is inserting, and undoes nothing.
LEMMA CommitsRespectLocks ==
  ASSUME SafetyInv, NEW r \in Requests, Commits(r)
  PROVE  /\ \A s \in Sessions : phase[s] # "unstarted" => phase'[s] # "unstarted"
         /\ \A q \in Requests \ {r} : pc[q] \in StartSteps => phase'[sess[q]] = "unstarted"
         /\ \A s \in Sessions, u \in Students : status[s][u] # "none" => status'[s][u] # "none"
         /\ \A q \in Requests \ {r} : pc[q] \in EndLoop =>
              \A u \in wrote[q] : status'[sess[q]][u] = "none"
<1> DEFINE s == sess[r]
           u == stu[r]
<1>1. TypeOK /\ LocksExclusive
  BY DEF SafetyInv, TypeInv
<1>2. sess[r] \in Sessions
  BY CommitTargets
<1>3. \A q \in Requests : LocalsMeanWhatTheySay(q)
  BY DEF SafetyInv, LocalInv
<1>4. \A q \in Requests \ {r} :
        /\ pc[q] \in StartSteps => phase[sess[q]] = "unstarted" /\ sess[q] \in Sessions
        /\ pc[q] \in EndLoop =>
             /\ sess[q] \in Sessions
             /\ \A x \in wrote[q] : status[sess[q]][x] = "none" /\ x \in Students
  BY <1>3 DEF SafetyInv, TypeInv, TypeOK, Addressed, Unaddressed, LocalsMeanWhatTheySay,
       StartSteps, EndLoop
<1>5. CASE StartCommit(r)
  <2>1. phase[sess[r]] = "unstarted"
    BY <1>3, <1>5 DEF LocalsMeanWhatTheySay, StartSteps, StartCommit
  <2>2. \A q \in Requests \ {r} : pc[q] \in StartSteps => sess[q] # sess[r]
    BY <1>1, <1>5 DEF LocksExclusive, StartSteps, StartCommit
  <2> QED BY <1>1, <1>2, <1>4, <1>5, <2>2 DEF StartCommit, TypeOK
<1>6. ASSUME NEW v \in ({"present"} \cup Overrides), wrote[r] = {u}, u \in Students,
             status' = [status EXCEPT ![s][u] = v], UNCHANGED phase
      PROVE  /\ \A t \in Sessions : phase[t] # "unstarted" => phase'[t] # "unstarted"
             /\ \A q \in Requests \ {r} : pc[q] \in StartSteps => phase'[sess[q]] = "unstarted"
             /\ \A t \in Sessions, x \in Students : status[t][x] # "none" => status'[t][x] # "none"
             /\ \A q \in Requests \ {r} : pc[q] \in EndLoop =>
                  \A x \in wrote[q] : status'[sess[q]][x] = "none"
  <2>1. \A q \in Requests \ {r} : sess[q] = s => u \notin wrote[q]
    BY <1>1, <1>6 DEF LocksExclusive
  <2> QED BY <1>1, <1>2, <1>4, <1>6, <2>1 DEF TypeOK, Overrides
<1>7. CASE CheckinCommit(r)
  <2>1. CASE want[r] = "present"
    <3>1. wrote[r] = {u} /\ u \in Students
      BY <1>3, <1>7, <2>1, CommitTargets DEF LocalsMeanWhatTheySay, CheckinCommit
    <3> QED BY <1>6, <1>7, <2>1, <3>1 DEF CheckinCommit
  <2>2. CASE want[r] # "present"
    BY <1>4, <1>7, <2>2 DEF CheckinCommit
  <2> QED BY <2>1, <2>2
<1>8. CASE OverrideCommit(r)
  <2>1. wrote[r] = {u} /\ u \in Students /\ want[r] \in Overrides
    BY <1>3, <1>8, CommitTargets DEF LocalsMeanWhatTheySay, OverrideCommit
  <2>2. want[r] \in ({"present"} \cup Overrides)
    BY <2>1 DEF Overrides
  <2> QED BY <1>6, <1>8, <2>1, <2>2 DEF OverrideCommit
<1>9. CASE EndCommit(r)
  <2>1. phase[s] # "unstarted"
    BY <1>3, <1>9 DEF EndCommit, LocalsMeanWhatTheySay, SessionSeen, EndHolding
  <2>2. \A q \in Requests \ {r} : pc[q] \in EndLoop => sess[q] # s
    BY <1>1, <1>9 DEF LocksExclusive, EndCommit, EndHolding, EndLoop
  <2>3. \A q \in Requests \ {r} : pc[q] \in StartSteps => sess[q] # s
    BY <1>4, <2>1
  <2> QED BY <1>1, <1>2, <1>4, <1>9, <2>1, <2>2, <2>3 DEF EndCommit, TypeOK
<1> QED BY <1>5, <1>7, <1>8, <1>9 DEF Commits

\* Every request's locals keep their meaning when any request steps.
LEMMA LocalsStep ==
  ASSUME SafetyInv, NEW r \in Requests, Acts(r)
  PROVE  LocalInv'
<1>1. OthersUntouched(r)
  BY ActsTouchOneRequest DEF SafetyInv
<1>2. LocalsMeanWhatTheySay(r)'
  BY OwnLocals
<1>3. \A q \in Requests \ {r} : LocalsMeanWhatTheySay(q)'
  <2>1. CASE Commits(r)
    BY <1>1, <2>1, CommitsRespectLocks, OthersKeepTheirMeaning
  <2>2. CASE ~Commits(r)
    BY <1>1, <2>2, OnlyCommitsChangeTables, OthersKeepTheirMeaningQuietly DEF database
  <2> QED BY <2>1, <2>2
<1> QED BY <1>2, <1>3 DEF LocalInv
-----------------------------------------------------------------------------
(* The tables after a commit. *)

\* When an EndSession commits, what it has not written itself has a record.
LEMMA EndLeavesNobodyOut ==
  ASSUME SafetyInv, NEW r \in Requests, EndCommit(r)
  PROVE  /\ \A u \in Roster(sess[r]) : status[sess[r]][u] = "none" <=> u \in wrote[r]
         /\ wrote[r] \subseteq Roster(sess[r])
BY DEF SafetyInv, LocalInv, LocalsMeanWhatTheySay, EndCommit, EndLoop, EndCounted

\* An ended session keeps a record for every enrolled student.
LEMMA EndedStep ==
  ASSUME SafetyInv, NEW r \in Requests, Commits(r)
  PROVE  EndedIsComplete'
<1> USE DEF EndedIsComplete
<1>1. TypeOK /\ EndedIsComplete
  BY DEF SafetyInv, TypeInv, DataInv
<1>2. sess[r] \in Sessions /\ Roster(sess[r]) \subseteq Students
  BY CommitTargets
<1>3. \A s \in Sessions : Roster(s) \subseteq Students /\ Roster(s)' = Roster(s)
  BY SectionsAssumption DEF Roster
<1>4. \A s \in Sessions, u \in Students : status[s][u] # "none" => status'[s][u] # "none"
  BY CommitsRespectLocks
<1>5. CASE StartCommit(r)
  BY <1>1, <1>2, <1>3, <1>5 DEF StartCommit, TypeOK
<1>6. CASE CheckinCommit(r) \/ OverrideCommit(r)
  BY <1>1, <1>3, <1>4, <1>6 DEF CheckinCommit, OverrideCommit
<1>7. CASE EndCommit(r)
  <2>1. \A u \in Roster(sess[r]) : status'[sess[r]][u] # "none"
    BY <1>1, <1>2, <1>7, EndLeavesNobodyOut DEF EndCommit, TypeOK
  <2>2. \A s \in Sessions : s # sess[r] => phase'[s] = phase[s]
    BY <1>1, <1>7 DEF EndCommit, TypeOK
  <2> QED BY <1>1, <1>3, <1>4, <2>1, <2>2
<1> QED BY <1>5, <1>6, <1>7 DEF Commits

\* A commit writes an absence only in closing the session.
LEMMA AbsentStep ==
  ASSUME SafetyInv, NEW r \in Requests, Commits(r)
  PROVE  AbsentOnlyByEnding'
<1> USE DEF AbsentOnlyByEnding
<1>1. TypeOK /\ AbsentOnlyByEnding /\ LocalsMeanWhatTheySay(r)
  BY DEF SafetyInv, TypeInv, LocalInv, DataInv
<1>2. sess[r] \in Sessions
  BY CommitTargets
<1>3. \A s \in Sessions : Roster(s)' = Roster(s)
  BY DEF Roster
<1>4. CASE StartCommit(r)
  BY <1>1, <1>2, <1>3, <1>4 DEF StartCommit, TypeOK, LocalsMeanWhatTheySay, StartSteps
<1>5. CASE CheckinCommit(r)
  BY <1>1, <1>2, <1>3, <1>5 DEF CheckinCommit, TypeOK
<1>6. CASE OverrideCommit(r)
  BY <1>1, <1>2, <1>3, <1>6, CommitTargets DEF OverrideCommit, TypeOK, Overrides
<1>7. CASE EndCommit(r)
  BY <1>1, <1>2, <1>3, <1>7, EndLeavesNobodyOut DEF EndCommit, TypeOK
<1> QED BY <1>4, <1>5, <1>6, <1>7 DEF Commits

\* A commit writes "present" only with its accepted attempt.
LEMMA PresentStep ==
  ASSUME SafetyInv, NEW r \in Requests, Commits(r)
  PROVE  PresentIsEarned'
<1> USE DEF PresentIsEarned
<1>1. TypeOK /\ PresentIsEarned
  BY DEF SafetyInv, TypeInv, DataInv
<1>2. sess[r] \in Sessions
  BY CommitTargets
<1>3. CASE StartCommit(r)
  BY <1>1, <1>3 DEF StartCommit
<1>4. CASE CheckinCommit(r)
  <2>1. stu[r] \in Students
    BY <1>4, CommitTargets DEF CheckinCommit
  <2>2. CASE want[r] = "present"
    <3> DEFINE a == [by |-> r, sess |-> sess[r], stu |-> stu[r], result |-> "accepted"]
    <3>1. a \in attempts'
      BY <1>4, <2>2 DEF CheckinCommit
    <3>2. evidence'[sess[r]][stu[r]] = r
      BY <1>1, <1>2, <1>4, <2>1, <2>2 DEF CheckinCommit, EvidenceOf, TypeOK
    <3>3. attempts \subseteq attempts'
      BY <1>4 DEF CheckinCommit
    <3>4. ASSUME NEW s \in Sessions, NEW u \in Students, ~(s = sess[r] /\ u = stu[r])
          PROVE  status'[s][u] = status[s][u] /\ evidence'[s][u] = evidence[s][u]
      BY <1>1, <1>2, <1>4, <2>1, <2>2, <3>4 DEF CheckinCommit, EvidenceOf, TypeOK
    <3> QED BY <1>1, <3>1, <3>2, <3>3, <3>4
  <2>3. CASE want[r] # "present"
    BY <1>1, <1>4, <2>3 DEF CheckinCommit
  <2> QED BY <2>2, <2>3
<1>5. CASE OverrideCommit(r)
  <2>1. want[r] # "present" /\ stu[r] \in Students
    BY <1>5, CommitTargets DEF OverrideCommit, Overrides
  <2>2. \A s \in Sessions, u \in Students :
          status'[s][u] = "present" => status[s][u] = "present"
    BY <1>1, <1>2, <1>5, <2>1 DEF OverrideCommit, TypeOK
  <2> QED BY <1>1, <1>5, <2>2 DEF OverrideCommit
<1>6. CASE EndCommit(r)
  BY <1>1, <1>2, <1>6 DEF EndCommit, TypeOK
<1> QED BY <1>3, <1>4, <1>5, <1>6 DEF Commits

\* A request whose override is on record keeps its status and its place there.
LEMMA AuditorsKeepTheirWord ==
  ASSUME SafetyInv, NEW r \in Requests, Acts(r), NEW q \in Requests, pc[q] \in Recorded
  PROVE  pc'[q] \in Recorded /\ want'[q] = want[q]
<1>1. TypeOK
  BY DEF SafetyInv, TypeInv
<1>2. CASE q # r
  <2>1. OthersUntouched(r)
    BY ActsTouchOneRequest DEF SafetyInv
  <2> QED BY <1>2, <2>1 DEF OthersUntouched
<1>3. CASE q = r
  <2> USE DEF Recorded, Goto, inputs
  <2>1. ~Start(r) /\ ~Checkin(r)
    BY <1>3 DEF Start, StartCheck, StartInsert, StartCommit, StartCode, StartPublish,
         Checkin, CheckinResolve, CheckinLimit, CheckinDuplicate, CheckinEvaluate,
         CheckinUpsert, CheckinCommit, CheckinCounter, CheckinPublish
  <2>2. ~End(r) /\ ~Arrive(r)
    BY <1>3 DEF End, EndSelect, EndUpdate, EndRoster, EndExists, EndInsert, EndCounts,
         EndCount, EndCommit, EndPublish, Arrive, StartArrive, EndArrive, CheckinArrive,
         OverrideArrive
  <2>3. CASE Override(r)
    BY <1>1, <1>3, <2>3 DEF Override, OverrideVerify, OverrideUpsert, OverrideAudit,
         OverrideCommit, OverridePublish, TypeOK
  <2>4. CASE Abort(r) \/ Die(r)
    BY <1>1, <1>3, <2>4 DEF Abort, Die, InTransaction, StartSteps, CheckinSteps,
         OverrideSteps, EndSteps, EndHolding, TypeOK
  <2> QED BY <2>1, <2>2, <2>3, <2>4 DEF Acts, Handle
<1> QED BY <1>2, <1>3

\* An audit row is inserted by a request that then leaves its transaction.
LEMMA AuditorsStep ==
  ASSUME SafetyInv, NEW r \in Requests, Acts(r)
  PROVE  AuditorsAreDone'
<1>1. TypeOK /\ AuditorsAreDone
  BY DEF SafetyInv, TypeInv, DataInv
<1>2. \A a \in audits : a.by \in Requests
  BY <1>1 DEF TypeOK, Audit
<1>3. \A a \in audits : pc'[a.by] \in Recorded
  BY <1>1, <1>2, AuditorsKeepTheirWord DEF AuditorsAreDone
<1>4. CASE OverrideCommit(r)
  <2>1. pc'[r] = "override_publish"
    BY <1>1, <1>4 DEF OverrideCommit, Goto, TypeOK
  <2>2. audits' = audits \cup {[by |-> r, sess |-> sess[r], stu |-> stu[r]]}
    BY <1>4 DEF OverrideCommit, Audited
  <2> QED BY <1>3, <2>1, <2>2 DEF AuditorsAreDone, Recorded
<1>5. CASE ~OverrideCommit(r)
  <2>1. audits' = audits
    BY <1>5, OnlyCommitsChangeTables DEF Commits, StartCommit, CheckinCommit, EndCommit,
         database
  <2> QED BY <1>3, <2>1 DEF AuditorsAreDone
<1> QED BY <1>4, <1>5

\* An overridden record that a step leaves alone, with its writer, stays audited.
LEMMA AuditStands ==
  ASSUME SafetyInv, NEW r \in Requests, Acts(r), NEW s \in Sessions, NEW u \in Students,
         status'[s][u] \in Overrides, status'[s][u] = status[s][u],
         writer'[s][u] = writer[s][u], audits \subseteq audits'
  PROVE  /\ [by |-> writer[s][u], sess |-> s, stu |-> u] \in audits'
         /\ want'[writer[s][u]] = status[s][u]
<1> DEFINE a == [by |-> writer[s][u], sess |-> s, stu |-> u]
<1>1. a \in audits /\ want[writer[s][u]] = status[s][u]
  BY DEF SafetyInv, DataInv, OverrideIsAudited
<1>2. writer[s][u] \in Requests
  BY <1>1 DEF SafetyInv, TypeInv, TypeOK, Audit
<1>3. pc[writer[s][u]] \in Recorded
  BY <1>1 DEF SafetyInv, DataInv, AuditorsAreDone
<1> QED BY <1>1, <1>2, <1>3, AuditorsKeepTheirWord

\* A step writes an override only with its audit row.
LEMMA OverrideStep ==
  ASSUME SafetyInv, NEW r \in Requests, Acts(r)
  PROVE  OverrideIsAudited'
<1> SUFFICES ASSUME NEW s \in Sessions, NEW u \in Students, status'[s][u] \in Overrides
             PROVE  /\ [by |-> writer'[s][u], sess |-> s, stu |-> u] \in audits'
                    /\ want'[writer'[s][u]] = status'[s][u]
  BY DEF OverrideIsAudited
<1>1. TypeOK
  BY DEF SafetyInv, TypeInv
<1>2. Commits(r) => sess[r] \in Sessions
  BY CommitTargets
<1>3. CASE ~Commits(r)
  BY <1>3, OnlyCommitsChangeTables, AuditStands DEF database
<1>4. CASE StartCommit(r)
  BY <1>4, AuditStands DEF StartCommit
<1>5. CASE CheckinCommit(r)
  <2>1. status'[s][u] = status[s][u] /\ writer'[s][u] = writer[s][u]
    BY <1>1, <1>2, <1>5 DEF CheckinCommit, Commits, TypeOK, Overrides
  <2> QED BY <1>5, <2>1, AuditStands DEF CheckinCommit
<1>6. CASE OverrideCommit(r)
  <2>1. audits' = audits \cup {[by |-> r, sess |-> sess[r], stu |-> stu[r]]}
    BY <1>6 DEF OverrideCommit, Audited
  <2>2. stu[r] \in Students
    BY <1>6, CommitTargets DEF OverrideCommit, Commits
  <2>3. CASE s = sess[r] /\ u = stu[r]
    <3>1. status'[s][u] = want[r] /\ writer'[s][u] = r /\ want' = want
      BY <1>1, <1>2, <1>6, <2>2, <2>3 DEF OverrideCommit, Commits, TypeOK, inputs
    <3> QED BY <2>1, <2>3, <3>1
  <2>4. CASE ~(s = sess[r] /\ u = stu[r])
    <3>1. status'[s][u] = status[s][u] /\ writer'[s][u] = writer[s][u]
      BY <1>1, <1>2, <1>6, <2>2, <2>4 DEF OverrideCommit, Commits, TypeOK
    <3> QED BY <2>1, <3>1, AuditStands
  <2> QED BY <2>3, <2>4
<1>7. CASE EndCommit(r)
  <2>1. status'[s][u] = status[s][u] /\ writer'[s][u] = writer[s][u]
    BY <1>1, <1>2, <1>7 DEF EndCommit, Commits, TypeOK, Overrides
  <2> QED BY <1>7, <2>1, AuditStands DEF EndCommit
<1> QED BY <1>3, <1>4, <1>5, <1>6, <1>7 DEF Commits

\* The facts about the tables survive every step.
LEMMA DataStep ==
  ASSUME SafetyInv, NEW r \in Requests, Acts(r)
  PROVE  DataInv'
<1>1. OverrideIsAudited' /\ AuditorsAreDone'
  BY OverrideStep, AuditorsStep
<1>2. CASE Commits(r)
  BY <1>1, <1>2, EndedStep, AbsentStep, PresentStep DEF DataInv
<1>3. CASE ~Commits(r)
  BY <1>1, <1>3, OnlyCommitsChangeTables DEF SafetyInv, DataInv, database,
       EndedIsComplete, AbsentOnlyByEnding, PresentIsEarned, Roster
<1> QED BY <1>2, <1>3

\* The inductive step.
LEMMA NextSafetyInv == SafetyInv /\ [Next]_vars => SafetyInv'
<1> SUFFICES ASSUME SafetyInv, [Next]_vars PROVE SafetyInv'
  OBVIOUS
<1>1. ASSUME NEW r \in Requests, Acts(r)
      PROVE  SafetyInv'
  BY <1>1, NextTypeInv, LocksStep, LocalsStep, DataStep DEF SafetyInv, Next, Acts
<1>2. CASE UNCHANGED vars
  BY <1>2 DEF vars, database, inputs, progress, SafetyInv, TypeInv, TypeOK, Addressed,
       LocksExclusive, LocalInv, LocalsMeanWhatTheySay, DataInv, EndedIsComplete,
       AbsentOnlyByEnding, PresentIsEarned, OverrideIsAudited, AuditorsAreDone, Roster
<1> QED BY <1>1, <1>2 DEF Next, AllAnswered, Acts

\* The inductive invariant holds in every reachable state.
LEMMA SafetyInvHolds == Spec => []SafetyInv
BY InitSafetyInv, NextSafetyInv, PTL DEF Spec
-----------------------------------------------------------------------------
(* The theorems. *)

\* However EndSession interleaves with check-ins, overrides, other EndSessions
\* and rollbacks, an ended session has an outcome for every enrolled student.
THEOREM EndedComplete == Spec => []EndedIsComplete
<1>1. SafetyInv => EndedIsComplete
  BY DEF SafetyInv, DataInv
<1> QED BY <1>1, SafetyInvHolds, PTL

\* Automatic absences exist only in ended sessions and for enrolled students.
THEOREM AbsentByEnding == Spec => []AbsentOnlyByEnding
<1>1. SafetyInv => AbsentOnlyByEnding
  BY DEF SafetyInv, DataInv
<1> QED BY <1>1, SafetyInvHolds, PTL

\* Whoever is present has an accepted verification attempt for that session.
THEOREM PresentEarned == Spec => []PresentIsEarned
<1>1. SafetyInv => PresentIsEarned
  BY DEF SafetyInv, DataInv
<1> QED BY <1>1, SafetyInvHolds, PTL

\* Whoever is overridden was last written by a teacher's request for that very
\* outcome, whose audit row is on record.
THEOREM OverrideAudited == Spec => []OverrideIsAudited
<1>1. SafetyInv => OverrideIsAudited
  BY DEF SafetyInv, DataInv
<1> QED BY <1>1, SafetyInvHolds, PTL

\* What was decided is never turned into an automatic absence, nor erased.
THEOREM OutcomesAreKept == Spec => OutcomesStand
<1> DEFINE Kept == \A s \in Sessions, u \in Students :
                     status[s][u] # "none" /\ status'[s][u] # status[s][u] =>
                       status'[s][u] \in {"present"} \cup Overrides
<1>1. SafetyInv /\ [Next]_vars => [Kept]_vars
  <2> SUFFICES ASSUME SafetyInv, NEW r \in Requests, Acts(r) PROVE Kept
    BY DEF Next, AllAnswered, Acts
  <2>1. TypeOK
    BY DEF SafetyInv, TypeInv
  <2>2. CASE ~Commits(r)
    BY <2>2, OnlyCommitsChangeTables DEF database
  <2>3. CASE StartCommit(r)
    BY <2>3 DEF StartCommit
  <2>4. CASE CheckinCommit(r)
    BY <2>1, <2>4 DEF CheckinCommit, TypeOK
  <2>5. CASE OverrideCommit(r)
    <3>1. want[r] \in Overrides
      BY <2>5, CommitTargets DEF Commits, OverrideCommit
    <3> QED BY <2>1, <2>5, <3>1 DEF OverrideCommit, TypeOK
  <2>6. CASE EndCommit(r)
    <3>1. \A u \in wrote[r] : status[sess[r]][u] = "none"
      BY <2>6, EndLeavesNobodyOut
    <3> QED BY <2>1, <2>6, <3>1 DEF EndCommit, TypeOK
  <2> QED BY <2>2, <2>3, <2>4, <2>5, <2>6 DEF Commits
<1> QED BY <1>1, SafetyInvHolds, PTL DEF Spec, OutcomesStand

\* The handlers implement the register.  An EndSession that commits after
\* another one closed the session finds a record for everybody and marks nobody;
\* the one that closes it marks exactly those who have none.
THEOREM ImplementsRegister == Spec => RefinesRegister
<1>1. Init => Register!RegisterInit
  BY DEF Init, Register!RegisterInit
<1>2. SafetyInv /\ [Next]_vars => [Register!RegisterNext]_(Register!registerVars)
  <2> USE DEF Register!registerVars
  <2> SUFFICES ASSUME SafetyInv, NEW r \in Requests, Acts(r)
               PROVE  Register!RegisterNext \/ UNCHANGED <<phase, status>>
    BY DEF Next, AllAnswered, Acts, vars, database
  <2>1. TypeOK /\ LocalsMeanWhatTheySay(r)
    BY DEF SafetyInv, TypeInv, LocalInv
  <2>2. CASE ~Commits(r)
    BY <2>2, OnlyCommitsChangeTables DEF database
  <2>3. CASE StartCommit(r)
    <3>1. sess[r] \in Sessions
      BY <2>3, CommitTargets DEF Commits
    <3>2. Register!Open(sess[r])
      BY <2>1, <2>3 DEF StartCommit, LocalsMeanWhatTheySay, StartSteps, Register!Open
    <3> QED BY <3>1, <3>2 DEF Register!RegisterNext
  <2>4. CASE CheckinCommit(r)
    <3>1. sess[r] \in Sessions /\ stu[r] \in Students
      BY <2>4, CommitTargets DEF Commits, CheckinCommit
    <3>2. want[r] = "present" => Register!Decide(sess[r], stu[r], "present")
      BY <2>1, <2>4 DEF CheckinCommit, LocalsMeanWhatTheySay, SessionSeen, Register!Decide
    <3>3. want[r] # "present" => UNCHANGED <<phase, status>>
      BY <2>4 DEF CheckinCommit
    <3> QED BY <3>1, <3>2, <3>3 DEF Register!RegisterNext, Register!Decided
  <2>5. CASE OverrideCommit(r)
    <3>1. sess[r] \in Sessions /\ stu[r] \in Students /\ want[r] \in Overrides
      BY <2>5, CommitTargets DEF Commits, OverrideCommit
    <3>2. Register!Decide(sess[r], stu[r], want[r])
      BY <2>1, <2>5 DEF OverrideCommit, LocalsMeanWhatTheySay, SessionSeen, Register!Decide
    <3> QED BY <3>1, <3>2 DEF Register!RegisterNext, Register!Decided, Overrides
  <2>6. CASE EndCommit(r)
    <3> DEFINE s == sess[r]
    <3>1. s \in Sessions /\ Roster(s) \subseteq Students
      BY <2>6, CommitTargets DEF Commits
    <3>2. /\ \A u \in Roster(s) : status[s][u] = "none" <=> u \in wrote[r]
          /\ wrote[r] \subseteq Roster(s)
      BY <2>6, EndLeavesNobodyOut
    <3>3. phase[s] \in {"active", "ended"}
      BY <2>1, <2>6, <3>1 DEF EndCommit, LocalsMeanWhatTheySay, SessionSeen, EndHolding,
           TypeOK, Phases
    <3>4. CASE phase[s] = "active"
      <4>1. [u \in Students |-> IF u \in wrote[r] THEN "absent" ELSE status[s][u]]
            = [u \in Students |-> IF u \in Roster(s) /\ status[s][u] = "none"
                                    THEN "absent" ELSE status[s][u]]
        BY <3>2
      <4>2. Register!Close(s)
        BY <2>1, <2>6, <3>1, <3>4, <4>1 DEF EndCommit, Register!Close, Register!Roster, Roster, TypeOK
      <4> QED BY <3>1, <4>2 DEF Register!RegisterNext
    <3>5. CASE phase[s] = "ended"
      <4>1. wrote[r] = {}
        BY <3>1, <3>2, <3>5 DEF SafetyInv, DataInv, EndedIsComplete
      <4>2. phase' = phase /\ status' = status
        BY <2>1, <2>6, <3>1, <3>5, <4>1 DEF EndCommit, TypeOK
      <4> QED BY <4>2
    <3> QED BY <3>3, <3>4, <3>5
  <2> QED BY <2>2, <2>3, <2>4, <2>5, <2>6 DEF Commits
<1> QED BY <1>1, <1>2, SafetyInvHolds, PTL DEF Spec, RefinesRegister, Register!RegisterSpec
=============================================================================
