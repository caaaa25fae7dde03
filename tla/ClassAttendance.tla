--------------------------- MODULE ClassAttendance ---------------------------
(***************************************************************************)
(* The four handlers that write attendance, interleaved statement by       *)
(* statement over PostgreSQL at READ COMMITTED:                            *)
(*                                                                         *)
(*   StartSession    server/internal/session/service.go                    *)
(*   EndSession      server/internal/session/service.go                    *)
(*   SubmitCheckin   server/internal/verification/service.go               *)
(*   SubmitOverride  server/internal/attendance/service.go                 *)
(*                                                                         *)
(* A request is a process.  It runs one SQL statement, or one call to      *)
(* Redis or Kafka, per step; every statement sees what is committed when   *)
(* it runs.  phase, status, evidence, attempts and audits are the committed *)
(* tables.  What a transaction has written and not committed is in its     *)
(* request's locals (wrote, want), which are also its row locks.           *)
(*                                                                         *)
(* Abstracted: whether the submitted signals satisfy the policy and        *)
(* whether the failed-attempt counter is exhausted are free choices (the   *)
(* code, BSSID, geofence and counter live elsewhere), and so is whether    *)
(* the caller owns the section it names.  The enrolment of a section does  *)
(* not change while its sessions run.                                      *)
(***************************************************************************)
EXTENDS Naturals, FiniteSets

CONSTANTS Students,   \* users with the role student
          Sections,   \* sections of one college
          Sessions,   \* ids that class_sessions rows may get
          Requests,   \* the HTTP requests that ever arrive
          SectionOf,  \* the section of each session
          Enrolled,   \* the students enrolled in each section
          NoSession, NoStudent, NoRequest

ASSUME SectionsAssumption ==
  /\ SectionOf \in [Sessions -> Sections]
  /\ Enrolled \in [Sections -> SUBSET Students]

ASSUME StudentsAssumption == IsFiniteSet(Students)

ASSUME NullAssumption ==
  NoSession \notin Sessions /\ NoStudent \notin Students /\ NoRequest \notin Requests

VARIABLES phase,      \* class_sessions: unstarted (no row), active, ended
          status,     \* attendance_records.status, "none" when there is no row
          evidence,   \* attendance_records.verification_attempt_id
          attempts,   \* verification_attempts
          audits,     \* overrides, each with the request that inserted it
          writer,     \* history: the request that wrote each record last
          published,  \* events Kafka has accepted
          pc,         \* next statement of each request, or its reply
          sess,       \* the session a request works on
          stu,        \* the student a request works on
          want,       \* the status the request writes
          todo,       \* EndSession: students still to visit, then to publish
          wrote,      \* students whose record the open transaction has written
          tally       \* EndSession: the three counts of the summary

database == <<phase, status, evidence, attempts, audits, writer>>
inputs   == <<sess, stu, want>>
progress == <<todo, wrote, tally>>
vars     == <<database, published, pc, inputs, progress>>

Phases   == {"unstarted", "active", "ended"}
Overrides == {"overridden_present", "overridden_absent"}
Outcomes == Overrides \cup {"none", "present", "absent"}
Replies  == {"started", "accepted", "rejected", "overridden", "ended",
             "conflict", "not_found", "bad_request", "failed"}
Requested == Overrides \cup {"late"}  \* statuses an override may ask for

StartSteps    == {"start_check", "start_insert", "start_commit"}
CheckinSteps  == {"checkin_resolve", "checkin_limit", "checkin_duplicate",
                  "checkin_evaluate", "checkin_upsert", "checkin_commit"}
OverrideSteps == {"override_verify", "override_upsert", "override_audit",
                  "override_commit"}
EndHolding    == {"end_roster", "end_exists", "end_insert", "end_count_present",
                  "end_count_absent", "end_count_overridden", "end_commit"}
EndSteps      == EndHolding \cup {"end_select", "end_update"}
InTransaction == StartSteps \cup CheckinSteps \cup OverrideSteps \cup EndSteps
AfterCommit   == {"start_code", "start_publish", "checkin_counter",
                  "checkin_publish", "override_publish", "end_publish"}
Steps         == InTransaction \cup AfterCommit \cup {"idle"} \cup Replies

Roster(s) == Enrolled[SectionOf[s]]

Attempt == [by : Requests, sess : Sessions, stu : Students,
            result : {"accepted", "rejected"}]
Audit   == [by : Requests, sess : Sessions, stu : Students]
Event   == [by : Requests, sess : Sessions, stu : Students \cup {NoStudent},
            status : {"started", "ended", "present", "absent"} \cup Overrides]

\* Mutant: a failing path returns without Rollback.
LeaksTransaction(r) == wrote

\* The deferred Rollback drops what the transaction wrote, and its locks.
RolledBack(r) == [wrote EXCEPT ![r] = {}]

\* Mutant: the error of the check-in's Commit is ignored.
CommitErrorIgnored(r) == IF pc[r] = "checkin_commit" THEN "checkin_counter" ELSE "failed"

\* Where a failing statement leads: an error to the caller.
OnError(r) == "failed"

Goto(r, step) == pc' = [pc EXCEPT ![r] = step]

\* The row of attendance_records for (s, u) is not locked by another transaction.
RecordFree(r, s, u) ==
  \A q \in Requests \ {r} : sess[q] = s => u \notin wrote[q]

\* The row of class_sessions for s is not locked by another transaction.
SessionFree(r, s) ==
  \A q \in Requests \ {r} : sess[q] = s => pc[q] \notin EndHolding

\* Kafka accepts the event, or the error is ignored.
Publish(r, s, u, v) ==
  \/ published' = published \cup {[by |-> r, sess |-> s, stu |-> u, status |-> v]}
  \/ UNCHANGED published
-----------------------------------------------------------------------------
(* StartSession *)

StartArrive(r, s) ==
  /\ pc[r] = "idle"
  /\ phase[s] = "unstarted"
  /\ \A q \in Requests \ {r} : pc[q] \in StartSteps => sess[q] # s
  /\ sess' = [sess EXCEPT ![r] = s]
  /\ Goto(r, "start_check")
  /\ UNCHANGED <<database, published, stu, want, progress>>

StartCheck(r) ==
  /\ pc[r] = "start_check"
  /\ \/ Goto(r, "not_found")
     \/ /\ \E s \in Sessions : SectionOf[s] = SectionOf[sess[r]] /\ phase[s] = "active"
        /\ Goto(r, "conflict")
     \/ /\ \A s \in Sessions : SectionOf[s] = SectionOf[sess[r]] => phase[s] # "active"
        /\ Goto(r, "start_insert")
  /\ UNCHANGED <<database, published, inputs, progress>>

\* The row exists, for this transaction only, until the commit.
StartInsert(r) ==
  /\ pc[r] = "start_insert"
  /\ Goto(r, "start_commit")
  /\ UNCHANGED <<database, published, inputs, progress>>

StartCommit(r) ==
  /\ pc[r] = "start_commit"
  /\ phase' = [phase EXCEPT ![sess[r]] = "active"]
  /\ Goto(r, "start_code")
  /\ UNCHANGED <<status, evidence, attempts, audits, writer, published, inputs, progress>>

\* The code goes to Redis; if that fails the teacher gets an error for a
\* session that exists.
StartCode(r) ==
  /\ pc[r] = "start_code"
  /\ Goto(r, "start_publish") \/ Goto(r, "failed")
  /\ UNCHANGED <<database, published, inputs, progress>>

StartPublish(r) ==
  /\ pc[r] = "start_publish"
  /\ Publish(r, sess[r], NoStudent, "started")
  /\ Goto(r, "started")
  /\ UNCHANGED <<database, inputs, progress>>

Start(r) == \/ StartCheck(r) \/ StartInsert(r) \/ StartCommit(r)
            \/ StartCode(r) \/ StartPublish(r)
-----------------------------------------------------------------------------
(* SubmitCheckin *)

CheckinArrive(r, u) ==
  /\ pc[r] = "idle"
  /\ stu' = [stu EXCEPT ![r] = u]
  /\ Goto(r, "checkin_resolve")
  /\ UNCHANGED <<database, published, sess, want, progress>>

\* Some active session of a section the student is enrolled in: LIMIT 1, no order.
CheckinResolve(r) ==
  LET open == {s \in Sessions : phase[s] = "active" /\ stu[r] \in Roster(s)}
  IN /\ pc[r] = "checkin_resolve"
     /\ \/ open = {} /\ Goto(r, "not_found") /\ UNCHANGED sess
        \/ /\ \E s \in open : sess' = [sess EXCEPT ![r] = s]
           /\ Goto(r, "checkin_limit")
     /\ UNCHANGED <<database, published, stu, want, progress>>

CheckinLimit(r) ==
  /\ pc[r] = "checkin_limit"
  /\ Goto(r, "rejected") \/ Goto(r, "checkin_duplicate")
  /\ UNCHANGED <<database, published, inputs, progress>>

CheckinDuplicate(r) ==
  /\ pc[r] = "checkin_duplicate"
  /\ IF status[sess[r]][stu[r]] = "present"
       THEN Goto(r, "rejected") ELSE Goto(r, "checkin_evaluate")
  /\ UNCHANGED <<database, published, inputs, progress>>

\* Evaluates the signals and inserts the verification_attempts row.
CheckinEvaluate(r) ==
  /\ pc[r] = "checkin_evaluate"
  /\ \/ /\ want' = [want EXCEPT ![r] = "present"]
        /\ Goto(r, "checkin_upsert")
     \/ /\ want' = [want EXCEPT ![r] = "none"]
        /\ Goto(r, "checkin_commit")
  /\ UNCHANGED <<database, published, sess, stu, progress>>

CheckinUpsert(r) ==
  /\ pc[r] = "checkin_upsert"
  /\ RecordFree(r, sess[r], stu[r])
  /\ wrote' = [wrote EXCEPT ![r] = {stu[r]}]
  /\ Goto(r, "checkin_commit")
  /\ UNCHANGED <<database, published, inputs, todo, tally>>

\* Mutant: ON CONFLICT sets the status and leaves verification_attempt_id.
EvidenceOfFirstInsert(r) ==
  IF status[sess[r]][stu[r]] = "none"
    THEN [evidence EXCEPT ![sess[r]][stu[r]] = r] ELSE evidence

EvidenceOf(r) == [evidence EXCEPT ![sess[r]][stu[r]] = r]

CheckinCommit(r) ==
  LET accepted == want[r] = "present"
      s == sess[r]
      u == stu[r]
  IN /\ pc[r] = "checkin_commit"
     /\ attempts' = attempts \cup
          {[by |-> r, sess |-> s, stu |-> u,
            result |-> IF accepted THEN "accepted" ELSE "rejected"]}
     /\ status' = IF accepted THEN [status EXCEPT ![s][u] = "present"] ELSE status
     /\ evidence' = IF accepted THEN EvidenceOf(r) ELSE evidence
     /\ writer' = IF accepted THEN [writer EXCEPT ![s][u] = r] ELSE writer
     /\ wrote' = [wrote EXCEPT ![r] = {}]
     /\ Goto(r, "checkin_counter")
     /\ UNCHANGED <<phase, audits, published, inputs, todo, tally>>

\* The counter of failed attempts in Redis: DEL, or INCR and EXPIRE.
CheckinCounter(r) ==
  /\ pc[r] = "checkin_counter"
  /\ Goto(r, IF want[r] = "present" THEN "checkin_publish" ELSE "rejected")
  /\ UNCHANGED <<database, published, inputs, progress>>

CheckinPublish(r) ==
  /\ pc[r] = "checkin_publish"
  /\ Publish(r, sess[r], stu[r], "present")
  /\ Goto(r, "accepted")
  /\ UNCHANGED <<database, inputs, progress>>

Checkin(r) == \/ CheckinResolve(r) \/ CheckinLimit(r) \/ CheckinDuplicate(r)
              \/ CheckinEvaluate(r) \/ CheckinUpsert(r) \/ CheckinCommit(r)
              \/ CheckinCounter(r) \/ CheckinPublish(r)
-----------------------------------------------------------------------------
(* SubmitOverride *)

\* Mutant: the status is not validated.
AnyStatus(v) == TRUE

ValidStatus(v) == v \in Overrides

OverrideArrive(r, s, u, v) ==
  /\ pc[r] = "idle"
  /\ IF ValidStatus(v)
       THEN /\ sess' = [sess EXCEPT ![r] = s]
            /\ stu'  = [stu EXCEPT ![r] = u]
            /\ want' = [want EXCEPT ![r] = v]
            /\ Goto(r, "override_verify")
       ELSE Goto(r, "bad_request") /\ UNCHANGED inputs
  /\ UNCHANGED <<database, published, progress>>

\* The session must exist and be the caller's; it need not be active, and the
\* student need not be enrolled.
OverrideVerify(r) ==
  /\ pc[r] = "override_verify"
  /\ \/ Goto(r, "not_found")
     \/ phase[sess[r]] # "unstarted" /\ Goto(r, "override_upsert")
  /\ UNCHANGED <<database, published, inputs, progress>>

OverrideUpsert(r) ==
  /\ pc[r] = "override_upsert"
  /\ RecordFree(r, sess[r], stu[r])
  /\ wrote' = [wrote EXCEPT ![r] = {stu[r]}]
  /\ Goto(r, "override_audit")
  /\ UNCHANGED <<database, published, inputs, todo, tally>>

OverrideAudit(r) ==
  /\ pc[r] = "override_audit"
  /\ Goto(r, "override_commit")
  /\ UNCHANGED <<database, published, inputs, progress>>

\* Mutant: a record that has been overridden before gets no audit row again.
AuditedOnce(r) ==
  IF status[sess[r]][stu[r]] \in Overrides
    THEN audits ELSE audits \cup {[by |-> r, sess |-> sess[r], stu |-> stu[r]]}

\* A row of overrides names the record, and so its session and student, the
\* teacher and the reason, but not the status.
Audited(r) == audits \cup {[by |-> r, sess |-> sess[r], stu |-> stu[r]]}

\* verification_attempt_id keeps what it was.
OverrideCommit(r) ==
  /\ pc[r] = "override_commit"
  /\ status' = [status EXCEPT ![sess[r]][stu[r]] = want[r]]
  /\ writer' = [writer EXCEPT ![sess[r]][stu[r]] = r]
  /\ audits' = Audited(r)
  /\ wrote' = [wrote EXCEPT ![r] = {}]
  /\ Goto(r, "override_publish")
  /\ UNCHANGED <<phase, evidence, attempts, published, inputs, todo, tally>>

OverridePublish(r) ==
  /\ pc[r] = "override_publish"
  /\ Publish(r, sess[r], stu[r], want[r])
  /\ Goto(r, "overridden")
  /\ UNCHANGED <<database, inputs, progress>>

Override(r) == \/ OverrideVerify(r) \/ OverrideUpsert(r) \/ OverrideAudit(r)
               \/ OverrideCommit(r) \/ OverridePublish(r)
-----------------------------------------------------------------------------
(* EndSession *)

EndArrive(r, s) ==
  /\ pc[r] = "idle"
  /\ sess' = [sess EXCEPT ![r] = s]
  /\ Goto(r, "end_select")
  /\ UNCHANGED <<database, published, stu, want, progress>>

EndSelect(r) ==
  /\ pc[r] = "end_select"
  /\ \/ Goto(r, "not_found")
     \/ phase[sess[r]] = "ended"  /\ Goto(r, "conflict")
     \/ phase[sess[r]] = "active" /\ Goto(r, "end_update")
  /\ UNCHANGED <<database, published, inputs, progress>>

\* Mutant: ended_at is set on the pool instead of the transaction.
EndUpdateAutocommit(r) ==
  /\ pc[r] = "end_update"
  /\ SessionFree(r, sess[r])
  /\ phase' = [phase EXCEPT ![sess[r]] = "ended"]
  /\ Goto(r, "end_roster")
  /\ UNCHANGED <<status, evidence, attempts, audits, writer, published, inputs, progress>>

\* UPDATE ... WHERE id = $2: waits for the row, does not look at ended_at again.
EndUpdate(r) ==
  /\ pc[r] = "end_update"
  /\ SessionFree(r, sess[r])
  /\ Goto(r, "end_roster")
  /\ UNCHANGED <<database, published, inputs, progress>>

EndRoster(r) ==
  /\ pc[r] = "end_roster"
  /\ todo' = [todo EXCEPT ![r] = Roster(sess[r])]
  /\ Goto(r, "end_exists")
  /\ UNCHANGED <<database, published, inputs, wrote, tally>>

HasRecord(r, u) == status[sess[r]][u] # "none"

\* SELECT EXISTS for the next student of the loop, or its end.
EndExists(r) ==
  /\ pc[r] = "end_exists"
  /\ \/ /\ todo[r] = {}
        /\ Goto(r, "end_count_present")
        /\ UNCHANGED <<stu, todo>>
     \/ \E u \in todo[r] :
          /\ stu'  = [stu EXCEPT ![r] = u]
          /\ todo' = [todo EXCEPT ![r] = @ \ {u}]
          /\ Goto(r, IF HasRecord(r, u) THEN "end_exists" ELSE "end_insert")
  /\ UNCHANGED <<database, published, sess, want, wrote, tally>>

\* Mutant: the INSERT becomes an upsert.
NeverConflicts(r) == FALSE

Conflicts(r) == status[sess[r]][stu[r]] # "none"

\* Mutant: the absence is inserted on the pool instead of the transaction.
EndInsertAutocommit(r) ==
  /\ pc[r] = "end_insert"
  /\ RecordFree(r, sess[r], stu[r])
  /\ status' = [status EXCEPT ![sess[r]][stu[r]] = "absent"]
  /\ Goto(r, "end_exists")
  /\ UNCHANGED <<phase, evidence, attempts, audits, writer, published, inputs, progress>>

\* A plain INSERT: it waits for another writer of the row, and the unique
\* constraint aborts the transaction if that writer has committed.
EndInsert(r) ==
  /\ pc[r] = "end_insert"
  /\ RecordFree(r, sess[r], stu[r])
  /\ IF Conflicts(r)
       THEN wrote' = RolledBack(r) /\ Goto(r, "failed")
       ELSE /\ wrote' = [wrote EXCEPT ![r] = @ \cup {stu[r]}]
            /\ Goto(r, "end_exists")
  /\ UNCHANGED <<database, published, inputs, todo, tally>>

\* Mutant: the counts run on the pool and miss the transaction's own rows.
CountedOutside(r, wanted) ==
  Cardinality({u \in Students : status[sess[r]][u] \in wanted})

\* A COUNT(*): the committed rows and the transaction's own.
Counted(r, wanted) ==
  Cardinality({u \in Students : status[sess[r]][u] \in wanted}) +
  IF "absent" \in wanted THEN Cardinality(wrote[r]) ELSE 0

EndCount(r, step, wanted, field, next) ==
  /\ pc[r] = step
  /\ tally' = [tally EXCEPT ![r][field] = Counted(r, wanted)]
  /\ Goto(r, next)
  /\ UNCHANGED <<database, published, inputs, todo, wrote>>

EndCounts(r) ==
  \/ EndCount(r, "end_count_present", {"present"}, "present", "end_count_absent")
  \/ EndCount(r, "end_count_absent", {"absent"}, "absent", "end_count_overridden")
  \/ EndCount(r, "end_count_overridden", Overrides, "overridden", "end_commit")

EndCommit(r) ==
  /\ pc[r] = "end_commit"
  /\ phase'  = [phase EXCEPT ![sess[r]] = "ended"]
  /\ status' = [status EXCEPT ![sess[r]] =
       [u \in Students |-> IF u \in wrote[r] THEN "absent" ELSE @[u]]]
  /\ writer' = [writer EXCEPT ![sess[r]] =
       [u \in Students |-> IF u \in wrote[r] THEN r ELSE @[u]]]
  /\ todo'  = [todo EXCEPT ![r] = wrote[r]]
  /\ wrote' = [wrote EXCEPT ![r] = {}]
  /\ Goto(r, "end_publish")
  /\ UNCHANGED <<evidence, attempts, audits, published, inputs, tally>>

\* One event per student newly marked absent, then session.ended.
EndPublish(r) ==
  /\ pc[r] = "end_publish"
  /\ \/ \E u \in todo[r] :
          /\ Publish(r, sess[r], u, "absent")
          /\ todo' = [todo EXCEPT ![r] = @ \ {u}]
          /\ UNCHANGED pc
     \/ /\ todo[r] = {}
        /\ Publish(r, sess[r], NoStudent, "ended")
        /\ Goto(r, "ended")
        /\ UNCHANGED todo
  /\ UNCHANGED <<database, inputs, wrote, tally>>

End(r) == \/ EndSelect(r) \/ EndUpdate(r) \/ EndRoster(r) \/ EndExists(r)
          \/ EndInsert(r) \/ EndCounts(r) \/ EndCommit(r) \/ EndPublish(r)
-----------------------------------------------------------------------------
\* A statement or the commit fails, the client goes away, or the replica dies.
Abort(r) ==
  /\ pc[r] \in InTransaction
  /\ wrote' = RolledBack(r)
  /\ Goto(r, OnError(r))
  /\ UNCHANGED <<database, published, inputs, todo, tally>>

\* The replica dies after the commit: what was still to do is never done.
Die(r) ==
  /\ pc[r] \in AfterCommit
  /\ Goto(r, "failed")
  /\ UNCHANGED <<database, published, inputs, progress>>

Arrive(r) ==
  \/ \E s \in Sessions : StartArrive(r, s) \/ EndArrive(r, s)
  \/ \E u \in Students : CheckinArrive(r, u)
  \/ \E s \in Sessions, u \in Students, v \in Requested : OverrideArrive(r, s, u, v)

Handle(r) == Start(r) \/ Checkin(r) \/ Override(r) \/ End(r)

AllAnswered == (\A r \in Requests : pc[r] \in Replies) /\ UNCHANGED vars

\* The server comes up over a database where lectures may be under way, at
\* most one in a section, and nobody has checked in yet.
Init ==
  /\ phase \in [Sessions -> {"unstarted", "active"}]
  /\ \A s, t \in Sessions :
       phase[s] = "active" /\ phase[t] = "active" /\ SectionOf[s] = SectionOf[t] => s = t
  /\ status    = [s \in Sessions |-> [u \in Students |-> "none"]]
  /\ evidence  = [s \in Sessions |-> [u \in Students |-> NoRequest]]
  /\ attempts  = {}
  /\ audits    = {}
  /\ writer    = [s \in Sessions |-> [u \in Students |-> NoRequest]]
  /\ published = {}
  /\ pc        = [r \in Requests |-> "idle"]
  /\ sess      = [r \in Requests |-> NoSession]
  /\ stu       = [r \in Requests |-> NoStudent]
  /\ want      = [r \in Requests |-> "none"]
  /\ todo      = [r \in Requests |-> {}]
  /\ wrote     = [r \in Requests |-> {}]
  /\ tally     = [r \in Requests |-> [present |-> 0, absent |-> 0, overridden |-> 0]]

Next ==
  \/ \E r \in Requests : Arrive(r) \/ Handle(r) \/ Abort(r) \/ Die(r)
  \/ AllAnswered

\* Every request that arrived is eventually run to its end: Go schedules the
\* goroutine, PostgreSQL answers or the statement fails.
Spec == Init /\ [][Next]_vars /\ \A r \in Requests : WF_vars(Handle(r))
-----------------------------------------------------------------------------
(* Properties *)

\* Every variable keeps the shape the tables and the handlers' locals give it.
TypeOK ==
  /\ phase \in [Sessions -> Phases]
  /\ status \in [Sessions -> [Students -> Outcomes]]
  /\ evidence \in [Sessions -> [Students -> Requests \cup {NoRequest}]]
  /\ attempts \subseteq Attempt
  /\ audits \subseteq Audit
  /\ writer \in [Sessions -> [Students -> Requests \cup {NoRequest}]]
  /\ published \subseteq Event
  /\ pc \in [Requests -> Steps]
  /\ sess \in [Requests -> Sessions \cup {NoSession}]
  /\ stu \in [Requests -> Students \cup {NoStudent}]
  /\ want \in [Requests -> Outcomes \ {"absent"}]
  /\ todo \in [Requests -> SUBSET Students]
  /\ wrote \in [Requests -> SUBSET Students]
  /\ tally \in [Requests -> [present : Nat, absent : Nat, overridden : Nat]]

\* Once a session has ended every enrolled student has an outcome in it: no
\* interleaving of EndSession with check-ins, overrides, other EndSessions and
\* rollbacks loses the absence of a student who never checked in.
EndedIsComplete ==
  \A s \in Sessions : phase[s] = "ended" =>
    \A u \in Roster(s) : status[s][u] # "none"

\* An automatic absence exists only as part of a committed EndSession, and only
\* for an enrolled student: a rolled back EndSession leaves none behind.
AbsentOnlyByEnding ==
  \A s \in Sessions, u \in Students : status[s][u] = "absent" =>
    phase[s] = "ended" /\ u \in Roster(s)

\* A record that says present is backed by an accepted verification attempt of
\* the same student in the same session, whatever overrides came in between.
PresentIsEarned ==
  \A s \in Sessions, u \in Students : status[s][u] = "present" =>
    \E a \in attempts : /\ a.by = evidence[s][u] /\ a.sess = s /\ a.stu = u
                        /\ a.result = "accepted"

\* Who reads an overridden outcome finds the override behind it: the request
\* that wrote the record last is the teacher's, and its audit row is there, for
\* this record.  SubmitOverride writes both or neither, and a check-in or another
\* override in between replaces both or neither (architecture.md:76).
OverrideIsAudited ==
  \A s \in Sessions, u \in Students : status[s][u] \in Overrides =>
    /\ [by |-> writer[s][u], sess |-> s, stu |-> u] \in audits
    /\ want[writer[s][u]] = status[s][u]

\* What a reply says stays true: a student told "accepted", or one a teacher was
\* told is overridden, is never left without a record or recorded absent by the
\* server, and a session its teacher was told has ended is ended.
RepliesAreTrue ==
  \A r \in Requests :
    /\ pc[r] = "accepted" => status[sess[r]][stu[r]] \notin {"none", "absent"}
    /\ pc[r] = "overridden" => status[sess[r]][stu[r]] \notin {"none", "absent"}
    /\ pc[r] = "ended" => phase[sess[r]] = "ended"

\* Consumers never hear of an outcome that was rolled back: an event on Kafka
\* is about rows that are committed.
EventsFollowCommits ==
  \A e \in published :
    CASE e.status = "started" -> phase[e.sess] # "unstarted"
      [] e.status \in {"ended", "absent"} -> phase[e.sess] = "ended"
      [] e.status = "present" ->
           \E a \in attempts : a.by = e.by /\ a.stu = e.stu /\ a.result = "accepted"
      [] OTHER -> /\ [by |-> e.by, sess |-> e.sess, stu |-> e.stu] \in audits
                  /\ want[e.by] = e.status

\* Nothing that was decided is turned into an automatic absence or erased: the
\* EXISTS of EndSession may be stale when its INSERT runs.
OutcomesStand ==
  [][\A s \in Sessions, u \in Students :
       status[s][u] # "none" /\ status'[s][u] # status[s][u] =>
         status'[s][u] \in {"present"} \cup Overrides]_vars

\* The number of absences the closing teacher is shown is exact, although it is
\* counted before the commit: the rows counted are locked until then.
AbsencesAreExact ==
  \A r \in Requests :
    pc[r] = "end_commit" /\ phase[sess[r]] = "active" =>
      tally[r].absent = Cardinality(
        {u \in Students : status[sess[r]][u] = "absent" \/ u \in wrote[r]})

\* Every request is answered: no set of handlers waits for each other's row
\* locks for ever, and no failing path keeps a lock.
EveryRequestAnswered ==
  \A r \in Requests : pc[r] # "idle" ~> pc[r] \in Replies

\* What the code does not give.  Once a session has ended only a teacher's
\* override changes its outcomes: "session locks" (design.md:17).
LockedAfterEnd ==
  [][\A s \in Sessions, u \in Students :
       phase[s] = "ended" /\ status'[s][u] # status[s][u] =>
         status'[s][u] \in Overrides]_vars

\* What the code does not give.  A section has at most one active session: the
\* check of StartSession, "a session is already active for this section".
OneActiveSession ==
  \A s, t \in Sessions :
    SectionOf[s] = SectionOf[t] /\ phase[s] = "active" /\ phase[t] = "active" => s = t

\* The statement-level handlers implement the register: a second EndSession that
\* slips past the ended_at check sets ended_at again and publishes again, but the
\* outcomes, and that the session has ended, stay what they are.
Register == INSTANCE AttendanceRegister
  WITH phase <- phase, status <- status, Sessions <- Sessions, Sections <- Sections,
       Students <- Students, SectionOf <- SectionOf, Enrolled <- Enrolled
RefinesRegister == Register!RegisterSpec
=============================================================================
