----------------------------- MODULE Aggregates -----------------------------
(***************************************************************************)
(* The percentages of one section, from the records to the screens:        *)
(*                                                                         *)
(*   handlers --attendance.recorded--> consumers --> attendance_aggregates *)
(*                                     consumers --threshold.breached-->   *)
(*                                                                         *)
(*   reporting/consumer.go   the consumer group, one member per replica    *)
(*   reporting/updater.go    UpdateAggregate, statement by statement       *)
(*   attendance/service.go   the screens that read the aggregates          *)
(*                                                                         *)
(* What writes the records is the AttendanceRegister, which the handlers   *)
(* of ClassAttendance implement; here each of its commits owes the events  *)
(* that its handler publishes afterwards.  The writer balances by bytes,   *)
(* not by key, so two events of one student may be handled at once by two  *)
(* members.  Sessions are those of one section.                            *)
(***************************************************************************)
EXTENDS Integers, FiniteSets

CONSTANTS Sessions, Sections, Students, SectionOf, Enrolled,
          Consumers,     \* members of reporting-aggregates-group
          Threshold,     \* courses.attendance_threshold_pct; 0 when it is NULL
          MaxDecisions,  \* bound: check-ins and overrides that ever commit
          MaxFaults,     \* bound: lost or doubled events, failed updates
          NoStudent

ASSUME FiniteAssumption == IsFiniteSet(Sessions) /\ IsFiniteSet(Students)
ASSUME RosterAssumption == /\ SectionOf \in [Sessions -> Sections]
                           /\ Enrolled \in [Sections -> SUBSET Students]
\* NUMERIC(5,2) without a CHECK, and not validated: it need not be a percentage.
ASSUME ThresholdAssumption == Threshold \in Int
ASSUME BoundsAssumption == MaxDecisions \in Nat /\ MaxFaults \in Nat
ASSUME NoStudentAssumption == NoStudent \notin Students

VARIABLES phase, status,  \* the register
          owed,       \* events committed handlers have still to publish
          topic,      \* attendance.recorded: events nobody has read
          aggregate,  \* attendance_aggregates, zeros when there is no row
          warned,     \* students a threshold.breached was published for
          pc,         \* next step of each consumer
          who,        \* the student of the event it works on
          counted,    \* its two counts
          decisions, faults,  \* what the two bounds count
          missed,     \* history: students who ever missed an ended session
          tainted     \* history: students whose last recomputation may be void

register == <<phase, status>>
consumer == <<pc, who, counted>>
vars     == <<register, owed, topic, aggregate, warned, consumer,
              decisions, faults, missed, tainted>>

Register == INSTANCE AttendanceRegister
  WITH phase <- phase, status <- status, Sessions <- Sessions, Sections <- Sections,
       Students <- Students, SectionOf <- SectionOf, Enrolled <- Enrolled

Presents == {"present", "overridden_present"}
Counts   == [present : Nat, total : Nat]
Zeros    == [present |-> 0, total |-> 0]

InTransaction == {"count_ended", "count_present", "upsert", "commit"}
Steps         == InTransaction \cup {"read", "alert"}

Ended           == {s \in Sessions : phase[s] = "ended"}
PresentIn(u)    == {s \in Sessions : status[s][u] \in Presents}
Missed(u)       == \E s \in Ended : status[s][u] \notin Presents
Updating(u)     == {c \in Consumers : pc[c] \in InTransaction /\ who[c] = u}
-----------------------------------------------------------------------------
(* The screens that read the aggregates, each in a read-only transaction. *)

\* GetSectionDashboard, for the student u.
Dashboard(u) == aggregate[u]

\* GetStudentCourses: what the student u sees.
StudentCourses(u) == aggregate[u]

\* The percentage that is stored with the counts; without an ended session, 0.
Percentage(n) == IF n.total = 0 THEN 0 ELSE (n.present * 100) \div n.total
-----------------------------------------------------------------------------
(* The handlers' commits, and what they publish afterwards. *)

Committed ==
  /\ missed' = missed \cup {u \in Students : Missed(u)'}
  /\ UNCHANGED <<topic, aggregate, warned, consumer, faults, tainted>>

OpenSession(s) ==
  /\ Register!Open(s)
  /\ Committed
  /\ UNCHANGED <<owed, decisions>>

\* Mutant: overrides are not published.
CheckinsOnly(v) == IF v = "present" THEN 1 ELSE 0

EventsOf(v) == 1

\* A check-in or an override: one event for its student.
DecideOutcome(s, u, v) ==
  /\ decisions < MaxDecisions
  /\ Register!Decide(s, u, v)
  /\ owed' = [owed EXCEPT ![u] = @ + EventsOf(v)]
  /\ decisions' = decisions + 1
  /\ Committed

\* Mutant: the publishing loop of EndSession is left out.
NoNewlyAbsent(s) == {}

NewlyAbsent(s) == {u \in Register!Roster(s) : status[s][u] = "none"}

\* EndSession: one event for each student it marks absent, none for the others.
CloseSession(s) ==
  /\ Register!Close(s)
  /\ owed' = [u \in Students |-> owed[u] + IF u \in NewlyAbsent(s) THEN 1 ELSE 0]
  /\ Committed
  /\ UNCHANGED decisions

PublishRecorded(u) ==
  /\ owed[u] > 0
  /\ owed'  = [owed EXCEPT ![u] = @ - 1]
  /\ topic' = [topic EXCEPT ![u] = @ + 1]
  /\ UNCHANGED <<register, aggregate, warned, consumer, decisions, faults, missed, tainted>>

\* The publishing handler dies or its error is ignored; or the offset moves
\* past an event that ReadMessage did not return.
Lose(u) ==
  /\ faults < MaxFaults
  /\ faults' = faults + 1
  /\ \/ owed[u] > 0  /\ owed'  = [owed EXCEPT ![u] = @ - 1]  /\ UNCHANGED topic
     \/ topic[u] > 0 /\ topic' = [topic EXCEPT ![u] = @ - 1] /\ UNCHANGED owed
  /\ tainted' = tainted \cup {u}
  /\ UNCHANGED <<register, aggregate, warned, consumer, decisions, missed>>

\* The writer retries a message whose acknowledgement was lost.
Duplicate(u) ==
  /\ faults < MaxFaults
  /\ faults' = faults + 1
  /\ topic[u] > 0
  /\ topic' = [topic EXCEPT ![u] = @ + 1]
  /\ UNCHANGED <<register, owed, aggregate, warned, consumer, decisions, missed, tainted>>
-----------------------------------------------------------------------------
(* A consumer: ReadMessage, which commits the offset, then UpdateAggregate. *)

Goto(c, step) == pc' = [pc EXCEPT ![c] = step]

\* Back to ReadMessage; the locals are gone.
NextMessage(c) ==
  /\ Goto(c, "read")
  /\ who' = [who EXCEPT ![c] = NoStudent]
  /\ counted' = [counted EXCEPT ![c] = Zeros]

\* Mutant: an offset without a message is taken for one.
AnyOffset(u) == TRUE

Unread(u) == topic[u] > 0

\* The recomputation that starts here covers all that happened before, unless
\* another consumer is at work on the same student.
Read(c, u) ==
  /\ pc[c] = "read"
  /\ Unread(u)
  /\ topic' = [topic EXCEPT ![u] = @ - 1]
  /\ who' = [who EXCEPT ![c] = u]
  /\ Goto(c, "count_ended")
  /\ tainted' = IF Updating(u) = {} THEN tainted \ {u} ELSE tainted \cup {u}
  /\ UNCHANGED <<register, owed, aggregate, warned, counted, decisions, faults, missed>>

\* Mutant: the present outcomes are counted first.
PresentFirst(c, step) ==
  IF step = "count_ended"
    THEN [counted[c] EXCEPT !.present = Cardinality(PresentIn(who[c]))]
    ELSE [counted[c] EXCEPT !.total = Cardinality(Ended)]

\* Ended sessions first; present outcomes, also of active sessions, second.
CountOf(c, step) ==
  IF step = "count_ended"
    THEN [counted[c] EXCEPT !.total = Cardinality(Ended)]
    ELSE [counted[c] EXCEPT !.present = Cardinality(PresentIn(who[c]))]

Count(c, step, next) ==
  /\ pc[c] = step
  /\ counted' = [counted EXCEPT ![c] = CountOf(c, step)]
  /\ Goto(c, next)
  /\ UNCHANGED <<register, owed, topic, aggregate, warned, who, decisions, faults, missed, tainted>>

\* INSERT ... ON CONFLICT DO UPDATE: waits for the row, keeps its counts.
Upsert(c) ==
  /\ pc[c] = "upsert"
  /\ \A d \in Consumers \ {c} : ~(pc[d] = "commit" /\ who[d] = who[c])
  /\ Goto(c, "commit")
  /\ UNCHANGED <<register, owed, topic, aggregate, warned, who, counted,
                 decisions, faults, missed, tainted>>

\* Mutant: the aggregate is incremented instead of recomputed.
Incremented(c) == [counted[c] EXCEPT !.present = aggregate[who[c]].present + 1]

Recomputed(c) == counted[c]

\* pct < threshold, and only when sessions have ended.
Breached(n) == n.total > 0 /\ n.present * 100 < Threshold * n.total

Commit(c) ==
  /\ pc[c] = "commit"
  /\ aggregate' = [aggregate EXCEPT ![who[c]] = Recomputed(c)]
  /\ IF Breached(counted[c]) THEN Goto(c, "alert") /\ UNCHANGED <<who, counted>>
                            ELSE NextMessage(c)
  /\ UNCHANGED <<register, owed, topic, warned, decisions, faults, missed, tainted>>

\* Publishes threshold.breached; its error is ignored.
Alert(c) ==
  /\ pc[c] = "alert"
  /\ warned' \in {warned, warned \cup {who[c]}}
  /\ NextMessage(c)
  /\ UNCHANGED <<register, owed, topic, aggregate, decisions, faults, missed, tainted>>

Consume(c) ==
  \/ \E u \in Students : Read(c, u)
  \/ Count(c, "count_ended", "count_present")
  \/ Count(c, "count_present", "upsert")
  \/ Upsert(c) \/ Commit(c) \/ Alert(c)

\* A statement or the commit fails, or the replica dies: the offset is
\* committed, so nobody handles the event again.
Fail(c) ==
  /\ pc[c] # "read"
  /\ faults < MaxFaults
  /\ faults' = faults + 1
  /\ NextMessage(c)
  /\ tainted' = IF pc[c] \in InTransaction THEN tainted \cup {who[c]} ELSE tainted
  /\ UNCHANGED <<register, owed, topic, aggregate, warned, decisions, missed>>
-----------------------------------------------------------------------------
Init ==
  /\ Register!RegisterInit
  /\ owed = [u \in Students |-> 0] /\ topic = [u \in Students |-> 0]
  /\ aggregate = [u \in Students |-> Zeros]
  /\ warned = {} /\ missed = {} /\ tainted = {}
  /\ pc = [c \in Consumers |-> "read"]
  /\ who = [c \in Consumers |-> NoStudent]
  /\ counted = [c \in Consumers |-> Zeros]
  /\ decisions = 0 /\ faults = 0

Next ==
  \/ \E s \in Sessions :
       \/ OpenSession(s) \/ CloseSession(s)
       \/ \E u \in Students, v \in Register!Decided : DecideOutcome(s, u, v)
  \/ \E u \in Students : PublishRecorded(u) \/ Lose(u) \/ Duplicate(u)
  \/ \E c \in Consumers : Consume(c) \/ Fail(c)

\* Handlers reach their Publish and the consumers' loops never stop; nobody
\* has to check in, and no fault has to happen.
Spec ==
  /\ Init /\ [][Next]_vars
  /\ \A u \in Students : WF_vars(PublishRecorded(u))
  /\ \A c \in Consumers : WF_vars(Consume(c))
-----------------------------------------------------------------------------
(* Properties *)

\* The tables, the queue and the consumers' locals keep their shape.
TypeOK ==
  /\ phase \in [Sessions -> Register!Phases]
  /\ status \in [Sessions -> [Students -> Register!Outcomes]]
  /\ owed \in [Students -> Nat] /\ topic \in [Students -> Nat]
  /\ aggregate \in [Students -> Counts]
  /\ warned \subseteq Students /\ missed \subseteq Students /\ tainted \subseteq Students
  /\ pc \in [Consumers -> Steps]
  /\ who \in [Consumers -> Students \cup {NoStudent}]
  /\ \A c \in Consumers : pc[c] # "read" => who[c] \in Students
  /\ counted \in [Consumers -> Counts]
  /\ decisions \in Nat /\ faults \in Nat

Quiet(u) == owed[u] = 0 /\ topic[u] = 0 /\ Updating(u) = {}

\* Once the events of a student are handled, the screens show exactly the
\* outcomes on record, whatever was lost or overwritten before the last event
\* that was handled alone: UpdateAggregate recounts, so it repairs.
QuietIsExact ==
  \A u \in Students : Quiet(u) /\ u \notin tainted =>
    Dashboard(u).present = Cardinality(PresentIn(u))

\* ... and then no automatic absence is missing from the number of sessions:
\* the event of an absence is published after the session has ended.
AbsencesAreCounted ==
  \A u \in Students : Quiet(u) /\ u \notin tainted =>
    Dashboard(u).total >= Cardinality({s \in Sessions : status[s][u] = "absent"})

\* Nobody is warned who was present in every ended session, however updates
\* interleave with check-ins and ends: sessions are counted before the outcomes.
\* A threshold above a hundred is accepted by the code and warns everybody.
NoFalseAlarm == Threshold <= 100 => warned \subseteq missed

\* With a bounded number of decisions the percentages settle: the count of
\* present outcomes becomes right and stays right, or a fault voided it.
PercentagesSettle ==
  \A u \in Students :
    <>[](u \in tainted \/ StudentCourses(u).present = Cardinality(PresentIn(u)))

\* What the code does not give.  A check-in moves the percentage on the home
\* screen: "Attendance percentage for that course updates immediately"
\* (design.md:24, the last step of the check-in).  Not when its event is handled,
\* for a session under way does not count; and not, which is what this asks for,
\* once the session has ended and everything published has been handled.
CheckinMovesPercentage ==
  \A s \in Sessions, u \in Students :
    status[s][u] = "present" /\ phase[s] = "ended" ~>
      Percentage(StudentCourses(u)) > 0 \/ status[s][u] # "present"

\* What the code does not give.  threshold.breached is published when the
\* percentage crosses below the threshold (design.md:28), not for a student whose
\* stored percentage was below it already.
OnlyCrossingsAlert ==
  [][\A c \in Consumers :
       pc[c] = "commit" /\ pc'[c] = "alert" => ~Breached(aggregate[who[c]])]_vars
=============================================================================
