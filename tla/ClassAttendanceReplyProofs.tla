--------------------- MODULE ClassAttendanceReplyProofs ---------------------
(***************************************************************************)
(* What the callers and the consumers of ClassAttendance are told, for     *)
(* every set of students, sections, sessions and requests: the replies,    *)
(* the events and the closing teacher's count of absences.                 *)
(*                                                                         *)
(* None of them is a fact about the tables alone.  RepliesInv says what a  *)
(* request that has committed may go on to claim; it stands on SafetyInv   *)
(* of ClassAttendanceProofs, which says what the commit itself did.        *)
(***************************************************************************)
EXTENDS ClassAttendanceProofs

\* A teacher or a check-in has decided the record: no EndSession will touch it.
IsDecided(s, u) == status[s][u] \notin {"none", "absent"}

Accepted(r) == \E a \in attempts : a.by = r /\ a.stu = stu[r] /\ a.result = "accepted"
HasAudit(r) == [by |-> r, sess |-> sess[r], stu |-> stu[r]] \in audits

\* The steps at which a check-in that was accepted, an override and an
\* EndSession have committed.
CheckedIn  == {"checkin_publish", "accepted"}
Overridden == {"override_publish", "overridden"}
Closed     == {"end_publish", "ended"}
AbsentCounted == {"end_count_overridden", "end_commit"}

\* What a request that has committed may claim.
ClaimsAreTrue(r) ==
  /\ pc[r] \in CheckedIn \/ (pc[r] = "checkin_counter" /\ want[r] = "present") =>
       IsDecided(sess[r], stu[r]) /\ Accepted(r)
  /\ pc[r] \in Overridden => IsDecided(sess[r], stu[r]) /\ HasAudit(r)
  /\ pc[r] \in Closed => phase[sess[r]] = "ended"
  /\ pc[r] \in AbsentCounted /\ phase[sess[r]] = "active" =>
       tally[r].absent = Cardinality(wrote[r])

RepliesInv == EventsFollowCommits /\ \A r \in Requests : ClaimsAreTrue(r)
-----------------------------------------------------------------------------
(* The tables only grow *)

\* No step reopens a session, forgets an attempt or an audit row, or takes back
\* a decision.
LEMMA TablesOnlyGrow ==
  ASSUME SafetyInv, NEW r \in Requests, Acts(r)
  PROVE  /\ \A s \in Sessions : phase[s] # "unstarted" => phase'[s] # "unstarted"
         /\ \A s \in Sessions : phase[s] = "ended" => phase'[s] = "ended"
         /\ \A s \in Sessions : phase'[s] = "active" => phase[s] # "ended"
         /\ attempts \subseteq attempts'
         /\ audits \subseteq audits'
         /\ \A s \in Sessions, u \in Students : IsDecided(s, u) => IsDecided(s, u)'
<1>1. TypeOK /\ LocalsMeanWhatTheySay(r)
  BY DEF SafetyInv, TypeInv, LocalInv
<1>2. CASE ~Commits(r)
  BY <1>2, OnlyCommitsChangeTables DEF database, IsDecided
<1>3. CASE StartCommit(r)
  <2>1. sess[r] \in Sessions /\ phase[sess[r]] = "unstarted"
    BY <1>1, <1>3, CommitTargets DEF Commits, LocalsMeanWhatTheySay, StartSteps, StartCommit
  <2> QED BY <1>1, <1>3, <2>1 DEF StartCommit, TypeOK, IsDecided
<1>4. CASE CheckinCommit(r)
  BY <1>1, <1>4 DEF CheckinCommit, TypeOK, IsDecided
<1>5. CASE OverrideCommit(r)
  <2>1. want[r] \in Overrides
    BY <1>5, CommitTargets DEF Commits, OverrideCommit
  <2> QED BY <1>1, <1>5, <2>1 DEF OverrideCommit, Audited, TypeOK, IsDecided, Overrides
<1>6. CASE EndCommit(r)
  <2>1. \A u \in wrote[r] : status[sess[r]][u] = "none"
    BY <1>6, EndLeavesNobodyOut
  <2> QED BY <1>1, <1>6, <2>1 DEF EndCommit, TypeOK, IsDecided
<1> QED BY <1>2, <1>3, <1>4, <1>5, <1>6 DEF Commits

\* Nobody else's summary is touched.
LEMMA TalliesAreOwn ==
  ASSUME TypeInv, NEW r \in Requests, Acts(r)
  PROVE  \A q \in Requests \ {r} : tally'[q] = tally[q]
<1> USE DEF TypeInv, TypeOK, progress
<1>1. CASE Start(r)
  BY <1>1 DEF Start, StartCheck, StartInsert, StartCommit, StartCode, StartPublish
<1>2. CASE Checkin(r)
  BY <1>2 DEF Checkin, CheckinResolve, CheckinLimit, CheckinDuplicate, CheckinEvaluate,
       CheckinUpsert, CheckinCommit, CheckinCounter, CheckinPublish
<1>3. CASE Override(r)
  BY <1>3 DEF Override, OverrideVerify, OverrideUpsert, OverrideAudit, OverrideCommit,
       OverridePublish
<1>4. CASE End(r)
  BY <1>4 DEF End, EndSelect, EndUpdate, EndRoster, EndExists, EndInsert, EndCounts,
       EndCount, EndCommit, EndPublish
<1>5. CASE Arrive(r) \/ Abort(r) \/ Die(r)
  BY <1>5 DEF Arrive, StartArrive, EndArrive, CheckinArrive, OverrideArrive, Abort, Die
<1> QED BY <1>1, <1>2, <1>3, <1>4, <1>5 DEF Acts, Handle

\* What the others claim stays true.
LEMMA OthersClaimsStay ==
  ASSUME SafetyInv, RepliesInv, NEW r \in Requests, Acts(r)
  PROVE  \A q \in Requests \ {r} : ClaimsAreTrue(q)'
<1> SUFFICES ASSUME NEW q \in Requests \ {r} PROVE ClaimsAreTrue(q)'
  OBVIOUS
<1>1. /\ pc'[q] = pc[q] /\ sess'[q] = sess[q] /\ stu'[q] = stu[q]
      /\ want'[q] = want[q] /\ wrote'[q] = wrote[q] /\ tally'[q] = tally[q]
  BY ActsTouchOneRequest, TalliesAreOwn DEF SafetyInv, OthersUntouched
<1>2. ClaimsAreTrue(q) /\ LocalsMeanWhatTheySay(q) /\ TypeOK /\ Addressed
  BY DEF RepliesInv, SafetyInv, LocalInv, TypeInv
<1>3. pc[q] \in CheckedIn \cup Overridden \cup {"checkin_counter"} =>
        sess[q] \in Sessions /\ stu[q] \in Students
  BY <1>2 DEF Addressed, Unaddressed, OnStudent, CheckedIn, Overridden
<1>4. pc[q] \in Closed \cup AbsentCounted => sess[q] \in Sessions
  BY <1>2 DEF Addressed, Unaddressed, Closed, AbsentCounted
<1>5. Accepted(q) => Accepted(q)'
  BY <1>1, TablesOnlyGrow DEF Accepted
<1>6. HasAudit(q) => HasAudit(q)'
  BY <1>1, TablesOnlyGrow DEF HasAudit
<1>7. pc[q] \in CheckedIn \/ (pc[q] = "checkin_counter" /\ want[q] = "present") =>
        IsDecided(sess[q], stu[q])'
  BY <1>1, <1>2, <1>3, TablesOnlyGrow DEF ClaimsAreTrue, IsDecided
<1>8. pc[q] \in Overridden => IsDecided(sess[q], stu[q])'
  BY <1>1, <1>2, <1>3, TablesOnlyGrow DEF ClaimsAreTrue, IsDecided
<1>9. pc[q] \in Closed => phase'[sess[q]] = "ended"
  BY <1>2, <1>4, TablesOnlyGrow DEF ClaimsAreTrue
<1>10. pc[q] \in AbsentCounted /\ phase'[sess[q]] = "active" => phase[sess[q]] = "active"
  BY <1>2, <1>4, TablesOnlyGrow
     DEF LocalsMeanWhatTheySay, SessionSeen, EndHolding, AbsentCounted, TypeOK, Phases
<1> QED BY <1>1, <1>2, <1>5, <1>6, <1>7, <1>8, <1>9, <1>10 DEF ClaimsAreTrue
-----------------------------------------------------------------------------
(* What each step lets its own request claim *)

\* The steps at which a request claims nothing.
Silent(p, w) ==
  /\ p \notin CheckedIn \cup Overridden \cup Closed \cup AbsentCounted
  /\ p # "checkin_counter" \/ w # "present"

\* A request that claims nothing claims nothing false.
LEMMA SilenceIsTrue ==
  ASSUME NEW r \in Requests, Silent(pc'[r], want'[r])
  PROVE  ClaimsAreTrue(r)'
BY DEF Silent, ClaimsAreTrue

\* StartSession, arrivals, failures and crashes claim nothing.
LEMMA QuietClaims ==
  ASSUME SafetyInv, NEW r \in Requests, Start(r) \/ Arrive(r) \/ Abort(r) \/ Die(r)
  PROVE  ClaimsAreTrue(r)'
<1>1. TypeOK
  BY DEF SafetyInv, TypeInv
<1> USE DEF TypeOK, Goto, Silent, CheckedIn, Overridden, Closed, AbsentCounted
<1>2. CASE Start(r)
  BY <1>1, <1>2, SilenceIsTrue
     DEF Start, StartCheck, StartInsert, StartCommit, StartCode, StartPublish
<1>3. CASE Arrive(r)
  BY <1>1, <1>3, SilenceIsTrue
     DEF Arrive, StartArrive, EndArrive, CheckinArrive, OverrideArrive
<1>4. CASE Abort(r) \/ Die(r)
  BY <1>1, <1>4, SilenceIsTrue DEF Abort, OnError, Die
<1> QED BY <1>2, <1>3, <1>4

\* SubmitCheckin.
LEMMA CheckinClaims ==
  ASSUME SafetyInv, RepliesInv, NEW r \in Requests, Checkin(r)
  PROVE  ClaimsAreTrue(r)'
<1>1. TypeOK /\ Addressed /\ ClaimsAreTrue(r)
  BY DEF SafetyInv, TypeInv, RepliesInv
<1>2. CASE \/ CheckinResolve(r) \/ CheckinLimit(r) \/ CheckinDuplicate(r)
           \/ CheckinEvaluate(r) \/ CheckinUpsert(r)
  BY <1>1, <1>2, SilenceIsTrue
     DEF CheckinResolve, CheckinLimit, CheckinDuplicate, CheckinEvaluate, CheckinUpsert,
         TypeOK, Goto, Silent, CheckedIn, Overridden, Closed, AbsentCounted
<1>3. CASE CheckinCommit(r)
  <2>1. sess[r] \in Sessions /\ stu[r] \in Students
    BY <1>3, CommitTargets DEF Commits, CheckinCommit
  <2>2. pc'[r] = "checkin_counter" /\ UNCHANGED inputs
    BY <1>1, <1>3 DEF CheckinCommit, Goto, TypeOK
  <2>3. CASE want[r] = "present"
    <3>1. IsDecided(sess[r], stu[r])'
      BY <1>1, <1>3, <2>1, <2>2, <2>3 DEF CheckinCommit, TypeOK, IsDecided, inputs
    <3>2. [by |-> r, sess |-> sess[r], stu |-> stu[r], result |-> "accepted"] \in attempts'
      BY <1>3, <2>3 DEF CheckinCommit
    <3>3. Accepted(r)'
      BY <2>2, <3>2 DEF Accepted, inputs
    <3> QED BY <2>2, <3>1, <3>3
            DEF ClaimsAreTrue, CheckedIn, Overridden, Closed, AbsentCounted
  <2>4. CASE want[r] # "present"
    BY <2>2, <2>4, SilenceIsTrue
       DEF Silent, CheckedIn, Overridden, Closed, AbsentCounted, inputs
  <2> QED BY <2>3, <2>4
<1>4. CASE CheckinCounter(r) \/ CheckinPublish(r)
  <2>1. /\ UNCHANGED <<database, inputs>>
        /\ pc'[r] = "rejected" \/ (pc[r] = "checkin_counter" /\ want[r] = "present"
             /\ pc'[r] = "checkin_publish") \/ (pc[r] = "checkin_publish" /\ pc'[r] = "accepted")
    BY <1>1, <1>4 DEF CheckinCounter, CheckinPublish, Goto, TypeOK
  <2>2. CASE pc'[r] = "rejected"
    BY <2>2, SilenceIsTrue DEF Silent, CheckedIn, Overridden, Closed, AbsentCounted
  <2>3. CASE pc'[r] # "rejected"
    <3>1. IsDecided(sess[r], stu[r]) /\ Accepted(r)
      BY <1>1, <2>1, <2>3 DEF ClaimsAreTrue, CheckedIn
    <3>2. IsDecided(sess[r], stu[r])' /\ Accepted(r)'
      BY <2>1, <3>1 DEF IsDecided, Accepted, database, inputs
    <3> QED BY <2>1, <2>3, <3>2
            DEF ClaimsAreTrue, CheckedIn, Overridden, Closed, AbsentCounted
  <2> QED BY <2>2, <2>3
<1> QED BY <1>2, <1>3, <1>4 DEF Checkin

\* SubmitOverride.
LEMMA OverrideClaims ==
  ASSUME SafetyInv, RepliesInv, NEW r \in Requests, Override(r)
  PROVE  ClaimsAreTrue(r)'
<1>1. TypeOK /\ Addressed /\ ClaimsAreTrue(r)
  BY DEF SafetyInv, TypeInv, RepliesInv
<1>2. CASE OverrideVerify(r) \/ OverrideUpsert(r) \/ OverrideAudit(r)
  BY <1>1, <1>2, SilenceIsTrue
     DEF OverrideVerify, OverrideUpsert, OverrideAudit,
         TypeOK, Goto, Silent, CheckedIn, Overridden, Closed, AbsentCounted
<1>3. CASE OverrideCommit(r)
  <2>1. sess[r] \in Sessions /\ stu[r] \in Students /\ want[r] \in Overrides
    BY <1>3, CommitTargets DEF Commits, OverrideCommit
  <2>2. pc'[r] = "override_publish" /\ UNCHANGED inputs
    BY <1>1, <1>3 DEF OverrideCommit, Goto, TypeOK
  <2>3. IsDecided(sess[r], stu[r])'
    BY <1>1, <1>3, <2>1, <2>2 DEF OverrideCommit, TypeOK, IsDecided, inputs, Overrides
  <2>4. HasAudit(r)'
    BY <1>3, <2>2 DEF OverrideCommit, Audited, HasAudit, inputs
  <2> QED BY <2>2, <2>3, <2>4 DEF ClaimsAreTrue, CheckedIn, Overridden, Closed, AbsentCounted
<1>4. CASE OverridePublish(r)
  <2>1. UNCHANGED <<database, inputs>> /\ pc[r] = "override_publish" /\ pc'[r] = "overridden"
    BY <1>1, <1>4 DEF OverridePublish, Goto, TypeOK
  <2>2. IsDecided(sess[r], stu[r]) /\ HasAudit(r)
    BY <1>1, <2>1 DEF ClaimsAreTrue, Overridden
  <2>3. IsDecided(sess[r], stu[r])' /\ HasAudit(r)'
    BY <2>1, <2>2 DEF IsDecided, HasAudit, database, inputs
  <2> QED BY <2>1, <2>3 DEF ClaimsAreTrue, CheckedIn, Overridden, Closed, AbsentCounted
<1> QED BY <1>2, <1>3, <1>4 DEF Override

\* The absences that an EndSession counts while its session is still active
\* are its own: no other closing has committed one.
LEMMA OwnAbsences ==
  ASSUME SafetyInv, NEW s \in Sessions, phase[s] = "active"
  PROVE  \A u \in Students : status[s][u] # "absent"
BY DEF SafetyInv, DataInv, AbsentOnlyByEnding

\* EndSession.
LEMMA EndClaims ==
  ASSUME SafetyInv, RepliesInv, NEW r \in Requests, End(r)
  PROVE  ClaimsAreTrue(r)'
<1>1. TypeOK /\ Addressed /\ ClaimsAreTrue(r)
  BY DEF SafetyInv, TypeInv, RepliesInv
<1> USE DEF CheckedIn, Overridden, Closed, AbsentCounted
<1>2. CASE EndSelect(r) \/ EndUpdate(r) \/ EndRoster(r) \/ EndExists(r) \/ EndInsert(r)
  BY <1>1, <1>2, SilenceIsTrue
     DEF EndSelect, EndUpdate, EndRoster, EndExists, EndInsert, TypeOK, Goto, Silent
<1>3. CASE EndCounts(r)
  <2>1. UNCHANGED <<database, inputs, wrote>>
    BY <1>3 DEF EndCounts, EndCount
  <2>2. CASE EndCount(r, "end_count_present", {"present"}, "present", "end_count_absent")
    BY <1>1, <2>2, SilenceIsTrue DEF EndCount, TypeOK, Goto, Silent
  <2>3. CASE EndCount(r, "end_count_absent", {"absent"}, "absent", "end_count_overridden")
    <3>1. sess[r] \in Sessions
      BY <1>1, <2>3 DEF EndCount, Addressed, Unaddressed
    <3>2. ASSUME phase[sess[r]] = "active"
          PROVE  tally'[r].absent = Cardinality(wrote[r])
      <4>1. {u \in Students : status[sess[r]][u] \in {"absent"}} = {}
        BY <3>1, <3>2, OwnAbsences
      <4>2. Cardinality({u \in Students : status[sess[r]][u] \in {"absent"}}) = 0
        BY <4>1, FS_EmptySet
      <4>3. Cardinality(wrote[r]) \in Nat
        BY <1>1, StudentsAssumption, FS_Subset, FS_CardinalityType DEF TypeOK
      <4>4. Counted(r, {"absent"}) = Cardinality(wrote[r])
        BY <4>2, <4>3 DEF Counted
      <4> QED BY <1>1, <2>3, <4>4 DEF EndCount, TypeOK
    <3>3. pc'[r] = "end_count_overridden"
      BY <1>1, <2>3 DEF EndCount, Goto, TypeOK
    <3> QED BY <2>1, <3>2, <3>3 DEF ClaimsAreTrue, database, inputs
  <2>4. CASE EndCount(r, "end_count_overridden", Overrides, "overridden", "end_commit")
    <3>1. tally'[r].absent = tally[r].absent
      BY <1>1, <2>4 DEF EndCount, TypeOK
    <3>2. pc[r] = "end_count_overridden" /\ pc'[r] = "end_commit"
      BY <1>1, <2>4 DEF EndCount, Goto, TypeOK
    <3> QED BY <1>1, <2>1, <3>1, <3>2 DEF ClaimsAreTrue, database, inputs
  <2> QED BY <1>3, <2>2, <2>3, <2>4 DEF EndCounts
<1>4. CASE EndCommit(r)
  <2>1. sess[r] \in Sessions
    BY <1>4, CommitTargets DEF Commits
  <2>2. pc'[r] = "end_publish" /\ phase'[sess[r]] = "ended" /\ UNCHANGED inputs
    BY <1>1, <1>4, <2>1 DEF EndCommit, Goto, TypeOK
  <2> QED BY <2>2 DEF ClaimsAreTrue, inputs
<1>5. CASE EndPublish(r)
  <2>1. /\ UNCHANGED <<database, inputs>>
        /\ pc[r] = "end_publish" /\ pc'[r] \in {"end_publish", "ended"}
    BY <1>1, <1>5 DEF EndPublish, Goto, TypeOK
  <2> QED BY <1>1, <2>1 DEF ClaimsAreTrue, database, inputs
<1> QED BY <1>2, <1>3, <1>4, <1>5 DEF End
-----------------------------------------------------------------------------
(* The events *)

\* What an event says of the tables.
Founded(e) ==
  CASE e.status = "started" -> phase[e.sess] # "unstarted"
    [] e.status \in {"ended", "absent"} -> phase[e.sess] = "ended"
    [] e.status = "present" ->
         \E a \in attempts : a.by = e.by /\ a.stu = e.stu /\ a.result = "accepted"
    [] OTHER -> /\ [by |-> e.by, sess |-> e.sess, stu |-> e.stu] \in audits
                /\ want[e.by] = e.status

\* An event that was founded stays so: the tables only grow.
LEMMA FoundedStays ==
  ASSUME SafetyInv, NEW r \in Requests, Acts(r), NEW e \in Event, Founded(e)
  PROVE  Founded(e)'
<1>1. e.sess \in Sessions /\ e.by \in Requests
  BY DEF Event
<1>2. ASSUME [by |-> e.by, sess |-> e.sess, stu |-> e.stu] \in audits
      PROVE  want'[e.by] = want[e.by]
  <2>1. pc[e.by] \in Recorded
    BY <1>2 DEF SafetyInv, DataInv, AuditorsAreDone
  <2> QED BY <1>1, <2>1, AuditorsKeepTheirWord
<1>3. CASE e.status \in {"started", "ended", "absent"}
  BY <1>1, <1>3, TablesOnlyGrow DEF Founded
<1>4. CASE e.status = "present"
  BY <1>4, TablesOnlyGrow DEF Founded
<1>5. CASE e.status \notin {"started", "ended", "absent", "present"}
  <2>1. /\ [by |-> e.by, sess |-> e.sess, stu |-> e.stu] \in audits
        /\ want[e.by] = e.status
    BY <1>5 DEF Founded
  <2>2. /\ [by |-> e.by, sess |-> e.sess, stu |-> e.stu] \in audits'
        /\ want'[e.by] = e.status
    BY <1>2, <2>1, TablesOnlyGrow
  <2> QED BY <1>5, <2>2 DEF Founded
<1> QED BY <1>3, <1>4, <1>5

\* Publishing a founded event.
LEMMA PublishFounded ==
  ASSUME NEW r \in Requests, NEW s, NEW u, NEW v, Publish(r, s, u, v),
         UNCHANGED <<database, inputs>>,
         Founded([by |-> r, sess |-> s, stu |-> u, status |-> v]), EventsFollowCommits
  PROVE  EventsFollowCommits'
<1>1. \A e \in published : Founded(e)
  BY DEF EventsFollowCommits, Founded
<1>2. \A e \in published' : Founded(e)
  BY <1>1 DEF Publish
<1>3. \A e \in published' : Founded(e)'
  BY <1>2 DEF Founded, database, inputs
<1> QED BY <1>3 DEF EventsFollowCommits, Founded

\* The five places that publish.
LEMMA EventsStep ==
  ASSUME SafetyInv, RepliesInv, NEW r \in Requests, Acts(r)
  PROVE  EventsFollowCommits'
<1>1. TypeOK /\ Addressed /\ ClaimsAreTrue(r) /\ LocalsMeanWhatTheySay(r)
  BY DEF SafetyInv, TypeInv, RepliesInv, LocalInv
<1>2. EventsFollowCommits
  BY DEF RepliesInv
<1>3. CASE UNCHANGED published
  <2>1. \A e \in published : e \in Event /\ Founded(e)
    BY <1>1, <1>2 DEF TypeOK, EventsFollowCommits, Founded
  <2>2. \A e \in published : Founded(e)'
    BY <2>1, FoundedStays
  <2> QED BY <1>3, <2>2 DEF EventsFollowCommits, Founded
<1>4. CASE StartPublish(r)
  <2>1. Founded([by |-> r, sess |-> sess[r], stu |-> NoStudent, status |-> "started"])
    BY <1>1, <1>4 DEF StartPublish, Founded, LocalsMeanWhatTheySay, SessionSeen
  <2> QED BY <1>2, <1>4, <2>1, PublishFounded DEF StartPublish
<1>5. CASE CheckinPublish(r)
  <2>1. Accepted(r)
    BY <1>1, <1>5 DEF CheckinPublish, ClaimsAreTrue, CheckedIn
  <2>2. Founded([by |-> r, sess |-> sess[r], stu |-> stu[r], status |-> "present"])
    BY <2>1 DEF Founded, Accepted
  <2> QED BY <1>2, <1>5, <2>2, PublishFounded DEF CheckinPublish
<1>6. CASE OverridePublish(r)
  <2>1. HasAudit(r) /\ want[r] \in Overrides
    BY <1>1, <1>6 DEF OverridePublish, ClaimsAreTrue, Overridden, Addressed, Overriding
  <2>2. Founded([by |-> r, sess |-> sess[r], stu |-> stu[r], status |-> want[r]])
    BY <2>1 DEF Founded, HasAudit, Overrides
  <2> QED BY <1>2, <1>6, <2>2, PublishFounded DEF OverridePublish
<1>7. CASE EndPublish(r)
  <2>1. phase[sess[r]] = "ended"
    BY <1>1, <1>7 DEF EndPublish, ClaimsAreTrue, Closed
  <2>2. ASSUME NEW u \in todo[r], Publish(r, sess[r], u, "absent")
        PROVE  EventsFollowCommits'
    <3>1. Founded([by |-> r, sess |-> sess[r], stu |-> u, status |-> "absent"])
      BY <2>1 DEF Founded
    <3> QED BY <1>2, <1>7, <2>2, <3>1, PublishFounded DEF EndPublish
  <2>3. ASSUME Publish(r, sess[r], NoStudent, "ended")
        PROVE  EventsFollowCommits'
    <3>1. Founded([by |-> r, sess |-> sess[r], stu |-> NoStudent, status |-> "ended"])
      BY <2>1 DEF Founded
    <3> QED BY <1>2, <1>7, <2>3, <3>1, PublishFounded DEF EndPublish
  <2> QED BY <1>7, <2>2, <2>3 DEF EndPublish
<1>8. \/ UNCHANGED published \/ StartPublish(r) \/ CheckinPublish(r)
      \/ OverridePublish(r) \/ EndPublish(r)
  <2>1. CASE Start(r)
    BY <2>1 DEF Start, StartCheck, StartInsert, StartCommit, StartCode
  <2>2. CASE Checkin(r)
    BY <2>2 DEF Checkin, CheckinResolve, CheckinLimit, CheckinDuplicate, CheckinEvaluate,
         CheckinUpsert, CheckinCommit, CheckinCounter
  <2>3. CASE Override(r)
    BY <2>3 DEF Override, OverrideVerify, OverrideUpsert, OverrideAudit, OverrideCommit
  <2>4. CASE End(r)
    BY <2>4 DEF End, EndSelect, EndUpdate, EndRoster, EndExists, EndInsert, EndCounts,
         EndCount, EndCommit
  <2>5. CASE Arrive(r) \/ Abort(r) \/ Die(r)
    BY <2>5 DEF Arrive, StartArrive, EndArrive, CheckinArrive, OverrideArrive, Abort, Die
  <2> QED BY <2>1, <2>2, <2>3, <2>4, <2>5 DEF Acts, Handle
<1> QED BY <1>3, <1>4, <1>5, <1>6, <1>7, <1>8
-----------------------------------------------------------------------------
(* The theorems *)

\* Nobody has claimed anything yet.
LEMMA InitRepliesInv == Init => RepliesInv
BY DEF Init, RepliesInv, EventsFollowCommits, ClaimsAreTrue, CheckedIn, Overridden,
       Closed, AbsentCounted

\* The inductive step.
LEMMA NextRepliesInv == SafetyInv /\ RepliesInv /\ [Next]_vars => RepliesInv'
<1> SUFFICES ASSUME SafetyInv, RepliesInv, [Next]_vars PROVE RepliesInv'
  OBVIOUS
<1>1. ASSUME NEW r \in Requests, Acts(r)
      PROVE  RepliesInv'
  <2>1. ClaimsAreTrue(r)'
    BY <1>1, QuietClaims, CheckinClaims, OverrideClaims, EndClaims DEF Acts, Handle
  <2>2. \A q \in Requests \ {r} : ClaimsAreTrue(q)'
    BY <1>1, OthersClaimsStay
  <2> QED BY <1>1, <2>1, <2>2, EventsStep DEF RepliesInv
<1>2. CASE UNCHANGED vars
  BY <1>2 DEF vars, database, inputs, progress, RepliesInv, EventsFollowCommits,
       ClaimsAreTrue, IsDecided, Accepted, HasAudit
<1> QED BY <1>1, <1>2 DEF Next, AllAnswered, Acts

\* Both invariants hold in every reachable state.
LEMMA RepliesInvHolds == Spec => [](SafetyInv /\ RepliesInv)
<1>1. Init => SafetyInv /\ RepliesInv
  BY InitSafetyInv, InitRepliesInv
<1>2. SafetyInv /\ RepliesInv /\ [Next]_vars => (SafetyInv /\ RepliesInv)'
  BY NextSafetyInv, NextRepliesInv
<1> QED BY <1>1, <1>2, PTL DEF Spec

\* What a reply says stays true, whatever other requests do to the record
\* afterwards: SubmitCheckin's "present", SubmitOverride's and EndSession's 200.
THEOREM RepliesTrue == Spec => []RepliesAreTrue
<1>1. RepliesInv => RepliesAreTrue
  BY DEF RepliesInv, ClaimsAreTrue, RepliesAreTrue, IsDecided, CheckedIn, Overridden, Closed
<1> QED BY <1>1, RepliesInvHolds, PTL

\* An event that Kafka carries is about rows that are committed, for ever: the
\* five call sites of Publish come after Commit.
THEOREM EventsAfterCommits == Spec => []EventsFollowCommits
<1>1. RepliesInv => EventsFollowCommits
  BY DEF RepliesInv
<1> QED BY <1>1, RepliesInvHolds, PTL

\* The closing teacher's count of absences is the number the commit leaves in
\* the table, although check-ins and overrides go on between the two.
THEOREM AbsencesExact == Spec => []AbsencesAreExact
<1>1. SafetyInv /\ RepliesInv => AbsencesAreExact
  <2> SUFFICES ASSUME SafetyInv, RepliesInv, NEW r \in Requests,
                      pc[r] = "end_commit", phase[sess[r]] = "active"
               PROVE  tally[r].absent = Cardinality(
                        {u \in Students : status[sess[r]][u] = "absent" \/ u \in wrote[r]})
    BY DEF AbsencesAreExact
  <2>1. tally[r].absent = Cardinality(wrote[r])
    BY DEF RepliesInv, ClaimsAreTrue, AbsentCounted
  <2>2. sess[r] \in Sessions
    BY DEF SafetyInv, TypeInv, Addressed, Unaddressed
  <2>3. wrote[r] \subseteq Students
    BY DEF SafetyInv, TypeInv, TypeOK
  <2>4. {u \in Students : status[sess[r]][u] = "absent" \/ u \in wrote[r]} = wrote[r]
    BY <2>2, <2>3, OwnAbsences
  <2> QED BY <2>1, <2>4
<1> QED BY <1>1, RepliesInvHolds, PTL
=============================================================================
