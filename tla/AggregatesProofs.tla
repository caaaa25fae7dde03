-------------------------- MODULE AggregatesProofs --------------------------
(***************************************************************************)
(* Proofs about Aggregates for any students, sessions, consumers and       *)
(* threshold, and any number of decisions, losses and duplicates.          *)
(***************************************************************************)
EXTENDS Aggregates, FiniteSetTheorems, TLAPS

\* The actions that leave the consumers and the aggregates alone.
LEMMA RegisterSteps ==
  ASSUME NEW s \in Sessions,
         \/ OpenSession(s) \/ CloseSession(s)
         \/ \E u \in Students, v \in Register!Decided : DecideOutcome(s, u, v)
  PROVE  /\ Register!RegisterNext
         /\ missed' = missed \cup {u \in Students : Missed(u)'}
         /\ UNCHANGED <<topic, aggregate, warned, pc, who, counted, faults, tainted>>
BY DEF OpenSession, CloseSession, DecideOutcome, Committed, consumer, Register!RegisterNext

\* Sets of sessions can be counted.
LEMMA CountsAreNat ==
  ASSUME NEW S \in SUBSET Sessions
  PROVE  IsFiniteSet(S) /\ Cardinality(S) \in Nat
BY FiniteAssumption, FS_Subset, FS_CardinalityType

LEMMA CountOfType ==
  ASSUME TypeOK, NEW c \in Consumers, NEW step
  PROVE  CountOf(c, step) \in Counts
<1>1. Cardinality(Ended) \in Nat /\ Cardinality(PresentIn(who[c])) \in Nat
  BY CountsAreNat DEF Ended, PresentIn
<1>2. counted[c] \in Counts
  BY DEF TypeOK
<1> QED BY <1>1, <1>2 DEF CountOf, Counts
-----------------------------------------------------------------------------
(* Type correctness *)

LEMMA InitType == Init => TypeOK
<1> SUFFICES ASSUME Init PROVE TypeOK
  OBVIOUS
<1>1. phase \in [Sessions -> Register!Phases] /\ status \in [Sessions -> [Students -> Register!Outcomes]]
  BY DEF Init, Register!RegisterInit, Register!Phases, Register!Outcomes
<1>2. Zeros \in Counts
  BY DEF Zeros, Counts
<1>3. aggregate \in [Students -> Counts] /\ counted \in [Consumers -> Counts]
  BY <1>2 DEF Init
<1> QED BY <1>1, <1>3 DEF Init, TypeOK, Steps

LEMMA RegisterType ==
  ASSUME TypeOK, Register!RegisterNext
  PROVE  /\ phase' \in [Sessions -> Register!Phases]
         /\ status' \in [Sessions -> [Students -> Register!Outcomes]]
<1> USE DEF TypeOK, Register!Phases, Register!Outcomes, Register!Decided
<1>1. ASSUME NEW s \in Sessions, Register!Open(s)
      PROVE  /\ phase' \in [Sessions -> Register!Phases]
             /\ status' \in [Sessions -> [Students -> Register!Outcomes]]
  BY <1>1 DEF Register!Open
<1>2. ASSUME NEW s \in Sessions, Register!Close(s)
      PROVE  /\ phase' \in [Sessions -> Register!Phases]
             /\ status' \in [Sessions -> [Students -> Register!Outcomes]]
  BY <1>2 DEF Register!Close
<1>3. ASSUME NEW s \in Sessions, NEW u \in Students, NEW v \in Register!Decided,
             Register!Decide(s, u, v)
      PROVE  /\ phase' \in [Sessions -> Register!Phases]
             /\ status' \in [Sessions -> [Students -> Register!Outcomes]]
  BY <1>3 DEF Register!Decide
<1> QED BY <1>1, <1>2, <1>3 DEF Register!RegisterNext

LEMMA NextType == TypeOK /\ [Next]_vars => TypeOK'
<1> SUFFICES ASSUME TypeOK, [Next]_vars PROVE TypeOK'
  OBVIOUS
<1> USE DEF TypeOK, register, consumer
<1>1. CASE UNCHANGED vars
  BY <1>1 DEF vars
<1>2. ASSUME NEW s \in Sessions,
             \/ OpenSession(s) \/ CloseSession(s)
             \/ \E u \in Students, v \in Register!Decided : DecideOutcome(s, u, v)
      PROVE  TypeOK'
  <2>1. /\ phase' \in [Sessions -> Register!Phases]
        /\ status' \in [Sessions -> [Students -> Register!Outcomes]]
    BY <1>2, RegisterSteps, RegisterType
  <2>2. missed' \subseteq Students
    BY <1>2, RegisterSteps
  <2>3. owed' \in [Students -> Nat] /\ decisions' \in Nat
    <3>1. CASE OpenSession(s)
      BY <3>1 DEF OpenSession
    <3>2. CASE CloseSession(s)
      BY <3>2 DEF CloseSession
    <3>3. CASE \E u \in Students, v \in Register!Decided : DecideOutcome(s, u, v)
      BY <3>3 DEF DecideOutcome, EventsOf
    <3> QED BY <1>2, <3>1, <3>2, <3>3
  <2>4. UNCHANGED <<topic, aggregate, warned, pc, who, counted, faults, tainted>>
    BY <1>2, RegisterSteps
  <2> QED BY <2>1, <2>2, <2>3, <2>4
<1>3. ASSUME NEW u \in Students, PublishRecorded(u) \/ Lose(u) \/ Duplicate(u)
      PROVE  TypeOK'
  <2>1. CASE PublishRecorded(u)
    BY <2>1 DEF PublishRecorded
  <2>2. CASE Duplicate(u)
    BY <2>2 DEF Duplicate
  <2>3. CASE Lose(u)
    <3>1. owed' \in [Students -> Nat] /\ topic' \in [Students -> Nat]
      BY <2>3 DEF Lose
    <3>2. tainted' \subseteq Students /\ faults' \in Nat
      BY <2>3 DEF Lose
    <3> QED BY <2>3, <3>1, <3>2 DEF Lose
  <2> QED BY <1>3, <2>1, <2>2, <2>3
<1>4. ASSUME NEW c \in Consumers, NextMessage(c)
      PROVE  /\ pc' \in [Consumers -> Steps]
             /\ who' \in [Consumers -> Students \cup {NoStudent}]
             /\ \A d \in Consumers : pc'[d] # "read" => who'[d] \in Students
             /\ counted' \in [Consumers -> Counts]
  BY <1>4 DEF NextMessage, Goto, Steps, Zeros, Counts
<1>5. ASSUME NEW c \in Consumers, NEW u \in Students, Read(c, u) PROVE TypeOK'
  <2>1. topic' \in [Students -> Nat] /\ tainted' \subseteq Students
    BY <1>5 DEF Read, Unread
  <2> QED BY <1>5, <2>1 DEF Read, Goto, Steps, InTransaction
<1>6. ASSUME NEW c \in Consumers, NEW step \in {"count_ended", "count_present"},
             NEW next \in Steps, Count(c, step, next)
      PROVE  TypeOK'
  BY <1>6, CountOfType DEF Count, Goto
<1>7. ASSUME NEW c \in Consumers, Upsert(c) PROVE TypeOK'
  BY <1>7 DEF Upsert, Goto, Steps, InTransaction
<1>8. ASSUME NEW c \in Consumers, Commit(c) PROVE TypeOK'
  <2>1. aggregate' \in [Students -> Counts]
    BY <1>8 DEF Commit, Recomputed
  <2>2. CASE NextMessage(c)
    BY <1>4, <1>8, <2>1, <2>2 DEF Commit
  <2>3. CASE Goto(c, "alert") /\ UNCHANGED <<who, counted>>
    BY <1>8, <2>1, <2>3 DEF Commit, Goto, Steps
  <2> QED BY <1>8, <2>2, <2>3 DEF Commit
<1>9. ASSUME NEW c \in Consumers, Alert(c) PROVE TypeOK'
  <2>1. warned' \subseteq Students
    BY <1>9 DEF Alert
  <2> QED BY <1>4, <1>9, <2>1 DEF Alert
<1>10. ASSUME NEW c \in Consumers, Fail(c) PROVE TypeOK'
  <2>1. tainted' \subseteq Students
    BY <1>10 DEF Fail
  <2> QED BY <1>4, <1>10, <2>1 DEF Fail
<1> QED BY <1>1, <1>2, <1>3, <1>5, <1>6, <1>7, <1>8, <1>9, <1>10
    DEF Next, Consume, Steps, InTransaction

\* The tables, the queue and the consumers' locals keep their shape.
THEOREM TypeCorrect == Spec => []TypeOK
BY InitType, NextType, PTL DEF Spec
-----------------------------------------------------------------------------
(* The register under the counters *)

AbsentIn(u) == {s \in Sessions : status[s][u] = "absent"}

\* Absences belong to sessions that have ended.
RegisterInv ==
  \A s \in Sessions, u \in Students : status[s][u] = "absent" => s \in Ended

\* A step of the handlers, a step of the queue, or a step of one consumer.
LEMMA StepKinds ==
  ASSUME Next
  PROVE  \/ \E s \in Sessions :
              \/ OpenSession(s) \/ CloseSession(s)
              \/ \E u \in Students, v \in Register!Decided : DecideOutcome(s, u, v)
         \/ UNCHANGED <<register, missed>>
BY DEF Next, PublishRecorded, Lose, Duplicate, Consume, Read, Count, Upsert, Commit, Alert,
       Fail, register

LEMMA NextRegister == TypeOK /\ RegisterInv /\ [Next]_vars => RegisterInv'
<1> SUFFICES ASSUME TypeOK, RegisterInv, [Next]_vars PROVE RegisterInv'
  OBVIOUS
<1> USE DEF RegisterInv, Ended
<1>1. CASE UNCHANGED register
  BY <1>1 DEF register
<1>2. ASSUME NEW s \in Sessions, Register!Open(s) PROVE RegisterInv'
  BY <1>2 DEF Register!Open, TypeOK
<1>3. ASSUME NEW s \in Sessions, Register!Close(s) PROVE RegisterInv'
  BY <1>3 DEF Register!Close, TypeOK
<1>4. ASSUME NEW s \in Sessions, NEW u \in Students, NEW v \in Register!Decided,
             Register!Decide(s, u, v)
      PROVE  RegisterInv'
  BY <1>4 DEF Register!Decide, Register!Decided, TypeOK
<1>5. Register!RegisterNext \/ UNCHANGED register
  BY StepKinds, RegisterSteps DEF vars, register
<1> QED BY <1>1, <1>2, <1>3, <1>4, <1>5 DEF Register!RegisterNext

LEMMA InitRegister == Init => RegisterInv
BY DEF Init, Register!RegisterInit, RegisterInv, Ended
-----------------------------------------------------------------------------
(* Warnings *)

\* Sessions are counted before outcomes: while a student has missed nothing, the
\* sessions counted are among those the student is present in.
Unblamed(c) ==
  /\ pc[c] = "count_present" => counted[c].total <= Cardinality(Ended)
  /\ who[c] \notin missed /\ pc[c] \in {"upsert", "commit"} =>
       counted[c].total <= counted[c].present
  /\ pc[c] = "alert" => who[c] \in missed

WarningInv ==
  /\ warned \subseteq missed
  /\ \A u \in Students : u \notin missed => Ended \subseteq PresentIn(u)
  /\ \A c \in Consumers : Unblamed(c)

\* At most a hundred per cent is asked for.
LEMMA NotBreached ==
  ASSUME Threshold <= 100, NEW n \in Counts, n.total <= n.present
  PROVE  ~Breached(n)
<1>1. n.total \in Nat /\ n.present \in Nat /\ Threshold \in Int /\ Threshold <= 100
  BY ThresholdAssumption DEF Counts
<1>2. Threshold * n.total <= 100 * n.total
  <2>1. \A a, b \in Int, k \in Nat : a <= b => a * k <= b * k
    <3> SUFFICES ASSUME NEW a \in Int, NEW b \in Int, NEW k \in Nat, a <= b
                 PROVE  a * k <= b * k
      OBVIOUS
    <3>1. (b - a) * k >= 0
      OBVIOUS
    <3>2. b * k = a * k + (b - a) * k
      OBVIOUS
    <3> QED BY <3>1, <3>2
  <2> QED BY <1>1, <2>1
<1> QED BY <1>1, <1>2 DEF Breached

LEMMA InitWarning == Init => WarningInv
<1>1. Cardinality({}) = 0
  BY FS_EmptySet
<1> QED BY <1>1 DEF Init, WarningInv, Unblamed, Register!RegisterInit, Ended, PresentIn,
                    InTransaction, Zeros

LEMMA NextWarning ==
  ASSUME Threshold <= 100, TypeOK, WarningInv, [Next]_vars
  PROVE  WarningInv'
<1> USE DEF WarningInv, register, consumer
<1>1. ASSUME UNCHANGED <<register, missed, warned>>, \A c \in Consumers : Unblamed(c)'
      PROVE  WarningInv'
  BY <1>1 DEF Ended, PresentIn
<1>2. ASSUME UNCHANGED <<register, missed>>, NEW c \in Consumers,
             UNCHANGED <<pc[c], who[c], counted[c]>>
      PROVE  Unblamed(c)'
  BY <1>2 DEF Unblamed, Ended
<1>3. CASE UNCHANGED vars
  BY <1>1, <1>2, <1>3 DEF vars
<1>4. ASSUME NEW s \in Sessions,
             \/ OpenSession(s) \/ CloseSession(s)
             \/ \E u \in Students, v \in Register!Decided : DecideOutcome(s, u, v)
      PROVE  WarningInv'
  <2>1. /\ missed' = missed \cup {u \in Students : Missed(u)'}
        /\ UNCHANGED <<warned, pc, who, counted>>
    BY <1>4, RegisterSteps
  <2>2. \A u \in Students : u \notin missed' => Ended' \subseteq PresentIn(u)'
    BY <2>1 DEF Missed, Ended, PresentIn
  <2>3. Cardinality(Ended) <= Cardinality(Ended')
    <3>1. Ended \subseteq Ended'
      BY <1>4 DEF OpenSession, CloseSession, DecideOutcome, Register!Open, Register!Close,
                  Register!Decide, Ended, TypeOK
    <3>2. IsFiniteSet(Ended')
      BY FiniteAssumption, FS_Subset DEF Ended
    <3> QED BY <3>1, <3>2, FS_Subset
  <2>4. ASSUME NEW c \in Consumers PROVE Unblamed(c)'
    <3>1. /\ Cardinality(Ended) \in Nat /\ Cardinality(Ended') \in Nat
          /\ counted[c].total \in Nat
      <4>1. Ended \in SUBSET Sessions /\ Ended' \in SUBSET Sessions
        BY DEF Ended
      <4> QED BY <4>1, CountsAreNat DEF TypeOK, Counts
    <3> QED BY <2>1, <2>3, <3>1 DEF Unblamed
  <2> QED BY <2>1, <2>2, <2>4
<1>5. ASSUME NEW u \in Students, PublishRecorded(u) \/ Lose(u) \/ Duplicate(u)
      PROVE  WarningInv'
  <2>1. UNCHANGED <<register, missed, warned, pc, who, counted>>
    BY <1>5 DEF PublishRecorded, Lose, Duplicate
  <2> QED BY <1>1, <1>2, <2>1
\* A consumer's step can disturb only its own locals.
<1>6. ASSUME NEW c \in Consumers, Consume(c) \/ Fail(c), Unblamed(c)',
             warned' \subseteq missed
      PROVE  WarningInv'
  <2>1. UNCHANGED <<register, missed>>
    BY <1>6 DEF Consume, Fail, Read, Count, Upsert, Commit, Alert
  <2>2. \A d \in Consumers \ {c} : UNCHANGED <<pc[d], who[d], counted[d]>>
    BY <1>6 DEF Consume, Fail, Read, Count, Upsert, Commit, Alert, NextMessage, Goto, TypeOK
  <2>3. \A d \in Consumers : Unblamed(d)'
    BY <1>2, <1>6, <2>1, <2>2
  <2> QED BY <1>6, <2>1, <2>3 DEF Ended, PresentIn
<1>7. ASSUME NEW c \in Consumers, NextMessage(c) PROVE Unblamed(c)'
  BY <1>7 DEF NextMessage, Goto, Unblamed, TypeOK, InTransaction
<1>8. ASSUME NEW c \in Consumers, NEW u \in Students, Read(c, u) PROVE WarningInv'
  <2>1. Unblamed(c)' /\ warned' = warned
    BY <1>8 DEF Read, Goto, Unblamed, TypeOK
  <2> QED BY <1>6, <1>8, <2>1 DEF Consume
<1>9. ASSUME NEW c \in Consumers, Count(c, "count_ended", "count_present") PROVE WarningInv'
  <2>1. counted'[c].total = Cardinality(Ended)
    BY <1>9 DEF Count, CountOf, TypeOK, Counts
  <2>2. Cardinality(Ended) \in Nat /\ UNCHANGED Ended
    BY <1>9, CountsAreNat DEF Ended, Count
  <2>3. Unblamed(c)' /\ warned' = warned
    BY <1>9, <2>1, <2>2 DEF Count, Goto, Unblamed, TypeOK
  <2> QED BY <1>6, <1>9, <2>3 DEF Consume
<1>10. ASSUME NEW c \in Consumers, Count(c, "count_present", "upsert") PROVE WarningInv'
  <2>1. /\ counted'[c].present = Cardinality(PresentIn(who[c]))
        /\ counted'[c].total = counted[c].total
    BY <1>10 DEF Count, CountOf, TypeOK, Counts
  <2>2. who[c] \notin missed => counted'[c].total <= counted'[c].present
    <3> SUFFICES ASSUME who[c] \notin missed PROVE counted'[c].total <= counted'[c].present
      OBVIOUS
    <3>1. counted[c].total <= Cardinality(Ended)
      BY <1>10 DEF Count, Unblamed
    <3>2. Ended \subseteq PresentIn(who[c])
      BY <1>10 DEF Count, TypeOK
    <3>3. Cardinality(Ended) <= Cardinality(PresentIn(who[c]))
      BY <3>2, CountsAreNat, FS_Subset DEF PresentIn
    <3>4. /\ Cardinality(Ended) \in Nat /\ Cardinality(PresentIn(who[c])) \in Nat
          /\ counted[c].total \in Nat
      BY CountsAreNat DEF Ended, PresentIn, TypeOK, Counts
    <3> QED BY <2>1, <3>1, <3>3, <3>4
  <2>3. Unblamed(c)' /\ warned' = warned
    BY <1>10, <2>2 DEF Count, Goto, Unblamed, TypeOK
  <2> QED BY <1>6, <1>10, <2>3 DEF Consume
<1>11. ASSUME NEW c \in Consumers, Upsert(c) PROVE WarningInv'
  <2>1. Unblamed(c)' /\ warned' = warned
    BY <1>11 DEF Upsert, Goto, Unblamed, TypeOK
  <2> QED BY <1>6, <1>11, <2>1 DEF Consume
<1>12. ASSUME NEW c \in Consumers, Commit(c) PROVE WarningInv'
  <2>1. CASE NextMessage(c)
    BY <1>6, <1>7, <1>12, <2>1 DEF Commit, Consume
  <2>2. CASE Breached(counted[c]) /\ Goto(c, "alert") /\ UNCHANGED <<who, counted>>
    <3>1. who[c] \in missed
      BY <1>12, <2>2, NotBreached DEF Commit, Unblamed, TypeOK
    <3>2. Unblamed(c)' /\ warned' = warned
      BY <1>12, <2>2, <3>1 DEF Commit, Goto, Unblamed, TypeOK
    <3> QED BY <1>6, <1>12, <3>2 DEF Consume
  <2> QED BY <1>12, <2>1, <2>2 DEF Commit
<1>13. ASSUME NEW c \in Consumers, Alert(c) PROVE WarningInv'
  <2>1. warned' \subseteq missed
    BY <1>13 DEF Alert, Unblamed
  <2> QED BY <1>6, <1>7, <1>13, <2>1 DEF Alert, Consume
<1>14. ASSUME NEW c \in Consumers, Fail(c) PROVE WarningInv'
  BY <1>6, <1>7, <1>14 DEF Fail
<1> QED BY <1>3, <1>4, <1>5, <1>8, <1>9, <1>10, <1>11, <1>12, <1>13, <1>14 DEF Next, Consume

\* Nobody is warned who was present in every ended session, for any threshold that
\* is a percentage and any interleaving of consumers, check-ins and ends.
THEOREM NoAlarmIsFalse == Spec => []NoFalseAlarm
<1>1. CASE Threshold <= 100
  <2>1. TypeOK /\ WarningInv /\ [Next]_vars => WarningInv'
    BY <1>1, NextWarning
  <2>2. WarningInv => NoFalseAlarm
    BY DEF WarningInv, NoFalseAlarm
  <2> QED BY <2>1, <2>2, InitType, NextType, InitWarning, PTL DEF Spec
<1>2. CASE ~(Threshold <= 100)
  <2>1. NoFalseAlarm
    BY <1>2 DEF NoFalseAlarm
  <2> QED BY <2>1, PTL
<1> QED BY <1>1, <1>2

-----------------------------------------------------------------------------
(* The percentages *)

\* What a consumer has counted for the student u is still so.
Halfway(c, u) ==
  /\ pc[c] \in {"upsert", "commit"} =>
       counted[c].present = Cardinality(PresentIn(u))
  /\ pc[c] \in {"count_present", "upsert", "commit"} =>
       counted[c].total >= Cardinality(AbsentIn(u))

Exact(u) ==
  /\ aggregate[u].present = Cardinality(PresentIn(u))
  /\ aggregate[u].total >= Cardinality(AbsentIn(u))

\* For a student no fault has touched, at most one consumer is at work; unless
\* an event is on its way, it counts the outcomes on record, and when nobody is
\* at work the aggregate holds them.
Sound(u) ==
  /\ \A c, d \in Updating(u) : c = d
  /\ owed[u] = 0 /\ topic[u] = 0 =>
       /\ Updating(u) = {} => Exact(u)
       /\ \A c \in Updating(u) : Halfway(c, u)

ExactInv == \A u \in Students : u \notin tainted => Sound(u)

LEMMA InitExact == Init => ExactInv
<1> SUFFICES ASSUME Init, NEW u \in Students PROVE Sound(u)
  BY DEF ExactInv
<1>1. Updating(u) = {}
  BY DEF Init, Updating, InTransaction
<1>2. PresentIn(u) = {} /\ AbsentIn(u) = {}
  BY DEF Init, Register!RegisterInit, PresentIn, AbsentIn, Presents
<1> QED BY <1>1, <1>2, FS_EmptySet DEF Init, Sound, Exact, Zeros

\* A handler's commit leaves the outcomes of a student alone, or it owes an event.
LEMMA CommitsOweEvents ==
  ASSUME TypeOK, NEW s \in Sessions,
         \/ OpenSession(s) \/ CloseSession(s)
         \/ \E w \in Students, v \in Register!Decided : DecideOutcome(s, w, v),
         NEW u \in Students, owed'[u] = 0
  PROVE  /\ owed[u] = 0
         /\ \A t \in Sessions : status'[t][u] = status[t][u]
<1>1. CASE OpenSession(s)
  BY <1>1 DEF OpenSession, Register!Open
<1>2. CASE CloseSession(s)
  <2>1. owed[u] \in Nat /\ owed'[u] = owed[u] + IF u \in NewlyAbsent(s) THEN 1 ELSE 0
    BY <1>2 DEF CloseSession, TypeOK
  <2>2. owed[u] = 0 /\ u \notin NewlyAbsent(s)
    BY <2>1
  <2>3. ~(u \in Register!Roster(s) /\ status[s][u] = "none")
    BY <2>2 DEF NewlyAbsent
  <2>4. Register!Close(s)
    BY <1>2 DEF CloseSession
  <2> QED BY <2>2, <2>3, <2>4 DEF Register!Close, TypeOK
<1>3. ASSUME NEW w \in Students, NEW v \in Register!Decided, DecideOutcome(s, w, v)
      PROVE  /\ owed[u] = 0
             /\ \A t \in Sessions : status'[t][u] = status[t][u]
  <2>1. u # w /\ owed[u] = 0
    BY <1>3 DEF DecideOutcome, EventsOf, TypeOK
  <2> QED BY <1>3, <2>1 DEF DecideOutcome, Register!Decide, TypeOK
<1> QED BY <1>1, <1>2, <1>3

LEMMA NextExact == TypeOK /\ RegisterInv /\ ExactInv /\ [Next]_vars => ExactInv'
<1> SUFFICES ASSUME TypeOK, RegisterInv, ExactInv, [Next]_vars, NEW u \in Students,
                    u \notin tainted'
             PROVE  Sound(u)'
  BY DEF ExactInv
<1> USE DEF register, consumer
\* Nothing about the student has changed.
<1>1. ASSUME u \notin tainted, UNCHANGED <<status, aggregate, owed, topic, pc, who, counted>>
      PROVE  Sound(u)'
  <2>1. /\ Sound(u) /\ Updating(u)' = Updating(u)
        /\ PresentIn(u)' = PresentIn(u) /\ AbsentIn(u)' = AbsentIn(u)
    BY <1>1 DEF ExactInv, Updating, PresentIn, AbsentIn
  <2> QED BY <1>1, <2>1 DEF Sound, Exact, Halfway
<1>2. CASE UNCHANGED vars
  BY <1>1, <1>2 DEF vars
<1>3. ASSUME NEW s \in Sessions,
             \/ OpenSession(s) \/ CloseSession(s)
             \/ \E w \in Students, v \in Register!Decided : DecideOutcome(s, w, v)
      PROVE  Sound(u)'
  <2>1. UNCHANGED <<topic, aggregate, pc, who, counted, tainted>>
    BY <1>3, RegisterSteps
  <2>2. Sound(u) /\ Updating(u)' = Updating(u)
    BY <2>1 DEF ExactInv, Updating
  <2>3. CASE owed'[u] = 0
    <3>1. owed[u] = 0 /\ PresentIn(u)' = PresentIn(u) /\ AbsentIn(u)' = AbsentIn(u)
      BY <1>3, <2>3, CommitsOweEvents DEF PresentIn, AbsentIn
    <3> QED BY <2>1, <2>2, <3>1 DEF Sound, Exact, Halfway
  <2>4. CASE owed'[u] # 0
    BY <2>2, <2>4 DEF Sound
  <2> QED BY <2>3, <2>4
<1>4. ASSUME NEW w \in Students, PublishRecorded(w) \/ Lose(w) \/ Duplicate(w)
      PROVE  Sound(u)'
  <2>1. UNCHANGED <<status, aggregate, pc, who, counted>> /\ u \notin tainted
    BY <1>4 DEF PublishRecorded, Lose, Duplicate
  <2>2. owed'[u] = 0 /\ topic'[u] = 0 => owed[u] = 0 /\ topic[u] = 0
    BY <1>4 DEF PublishRecorded, Lose, Duplicate, TypeOK
  <2>3. /\ Sound(u) /\ Updating(u)' = Updating(u)
        /\ PresentIn(u)' = PresentIn(u) /\ AbsentIn(u)' = AbsentIn(u)
    BY <2>1 DEF ExactInv, Updating, PresentIn, AbsentIn
  <2> QED BY <2>1, <2>2, <2>3 DEF Sound, Exact, Halfway
<1>5. ASSUME NEW c \in Consumers, Consume(c) \/ Fail(c)
      PROVE  /\ UNCHANGED <<status, phase, owed>>
             /\ PresentIn(u)' = PresentIn(u) /\ AbsentIn(u)' = AbsentIn(u)
             /\ \A d \in Consumers \ {c} : UNCHANGED <<pc[d], who[d], counted[d]>>
  <2>1. UNCHANGED <<status, phase, owed>>
    BY <1>5 DEF Consume, Fail, Read, Count, Upsert, Commit, Alert
  <2>2. \A d \in Consumers \ {c} : UNCHANGED <<pc[d], who[d], counted[d]>>
    BY <1>5 DEF Consume, Fail, Read, Count, Upsert, Commit, Alert, NextMessage, Goto, TypeOK
  <2> QED BY <2>1, <2>2 DEF PresentIn, AbsentIn
\* A consumer at work on somebody else, before and after, disturbs nothing.
<1>6. ASSUME NEW c \in Consumers, Consume(c) \/ Fail(c), u \notin tainted,
             c \notin Updating(u), c \notin Updating(u)',
             aggregate'[u] = aggregate[u], topic'[u] = topic[u]
      PROVE  Sound(u)'
  <2>1. Updating(u)' = Updating(u)
    BY <1>5, <1>6 DEF Updating
  <2> QED BY <1>5, <1>6, <2>1 DEF ExactInv, Sound, Exact, Halfway, Updating
\* One that stays at work on this student, for whom no event is on its way, has
\* to keep its counts right.
<1>7. ASSUME NEW c \in Consumers, Consume(c), u \notin tainted, c \in Updating(u),
             c \in Updating(u)', topic' = topic,
             owed[u] = 0 /\ topic[u] = 0 /\ Halfway(c, u) => Halfway(c, u)'
      PROVE  Sound(u)'
  <2>1. Updating(u)' = Updating(u)
    BY <1>5, <1>7 DEF Updating
  <2>2. Sound(u) /\ Updating(u) = {c}
    BY <1>7 DEF ExactInv, Sound
  <2> QED BY <1>5, <1>7, <2>1, <2>2 DEF Sound
<1>8. ASSUME NEW c \in Consumers, NextMessage(c)
      PROVE  pc'[c] = "read" /\ c \notin Updating(u)'
  BY <1>8 DEF NextMessage, Goto, Updating, InTransaction, TypeOK
<1>9. ASSUME NEW c \in Consumers, NEW w \in Students, Read(c, w) PROVE Sound(u)'
  <2>1. /\ pc[c] = "read" /\ pc'[c] = "count_ended" /\ who'[c] = w
        /\ topic' = [topic EXCEPT ![w] = @ - 1] /\ aggregate' = aggregate
    BY <1>9 DEF Read, Goto, TypeOK
  <2>2. CASE w = u
    <3>1. Updating(u) = {}
      BY <1>9, <2>2 DEF Read
    <3>2. Updating(u)' = {c}
      BY <1>5, <1>9, <2>1, <2>2, <3>1 DEF Consume, Updating, InTransaction
    <3> QED BY <2>1, <3>2 DEF Sound, Halfway
  <2>3. CASE w # u
    <3>1. u \notin tainted
      BY <1>9, <2>3 DEF Read
    <3>2. c \notin Updating(u) /\ c \notin Updating(u)' /\ topic'[u] = topic[u]
      BY <2>1, <2>3 DEF Updating, InTransaction, TypeOK
    <3> QED BY <1>6, <1>9, <2>1, <3>1, <3>2 DEF Consume
  <2> QED BY <2>2, <2>3
<1>10. ASSUME NEW c \in Consumers, Count(c, "count_ended", "count_present") PROVE Sound(u)'
  <2>1. /\ UNCHANGED <<topic, aggregate, tainted, who>>
        /\ pc[c] = "count_ended" /\ pc'[c] = "count_present"
        /\ counted'[c].total = Cardinality(Ended)
    BY <1>10 DEF Count, CountOf, Goto, TypeOK, Counts
  <2>2. CASE who[c] = u
    <3>1. c \in Updating(u) /\ c \in Updating(u)'
      BY <2>1, <2>2 DEF Updating, InTransaction
    <3>2. Cardinality(AbsentIn(u)) <= Cardinality(Ended)
      <4>1. AbsentIn(u) \subseteq Ended
        BY DEF AbsentIn, RegisterInv
      <4> QED BY <4>1, CountsAreNat, FS_Subset DEF Ended
    <3>3. Cardinality(AbsentIn(u)) \in Nat /\ Cardinality(Ended) \in Nat
      BY CountsAreNat DEF AbsentIn, Ended
    <3>4. Halfway(c, u)'
      BY <1>5, <1>10, <2>1, <3>2, <3>3 DEF Halfway, Consume
    <3> QED BY <1>7, <1>10, <2>1, <3>1, <3>4 DEF Consume
  <2>3. CASE who[c] # u
    BY <1>6, <1>10, <2>1, <2>3 DEF Consume, Updating
  <2> QED BY <2>2, <2>3
<1>11. ASSUME NEW c \in Consumers, Count(c, "count_present", "upsert") PROVE Sound(u)'
  <2>1. /\ UNCHANGED <<topic, aggregate, tainted, who>>
        /\ pc[c] = "count_present" /\ pc'[c] = "upsert"
        /\ counted'[c].present = Cardinality(PresentIn(who[c]))
        /\ counted'[c].total = counted[c].total
    BY <1>11 DEF Count, CountOf, Goto, TypeOK, Counts
  <2>2. CASE who[c] = u
    <3>1. c \in Updating(u) /\ c \in Updating(u)'
      BY <2>1, <2>2 DEF Updating, InTransaction
    <3>2. Halfway(c, u) => Halfway(c, u)'
      BY <1>5, <1>11, <2>1, <2>2 DEF Halfway, Consume
    <3> QED BY <1>7, <1>11, <2>1, <3>1, <3>2 DEF Consume
  <2>3. CASE who[c] # u
    BY <1>6, <1>11, <2>1, <2>3 DEF Consume, Updating
  <2> QED BY <2>2, <2>3
<1>12. ASSUME NEW c \in Consumers, Upsert(c) PROVE Sound(u)'
  <2>1. /\ UNCHANGED <<topic, aggregate, tainted, who, counted>>
        /\ pc[c] = "upsert" /\ pc'[c] = "commit"
    BY <1>12 DEF Upsert, Goto, TypeOK
  <2>2. CASE who[c] = u
    <3>1. c \in Updating(u) /\ c \in Updating(u)'
      BY <2>1, <2>2 DEF Updating, InTransaction
    <3>2. Halfway(c, u) => Halfway(c, u)'
      BY <1>5, <1>12, <2>1 DEF Halfway, Consume
    <3> QED BY <1>7, <1>12, <2>1, <3>1, <3>2 DEF Consume
  <2>3. CASE who[c] # u
    BY <1>6, <1>12, <2>1, <2>3 DEF Consume, Updating
  <2> QED BY <2>2, <2>3
<1>13. ASSUME NEW c \in Consumers, Commit(c) PROVE Sound(u)'
  <2>1. /\ UNCHANGED <<topic, tainted>> /\ pc[c] = "commit" /\ who[c] \in Students
        /\ aggregate' = [aggregate EXCEPT ![who[c]] = counted[c]]
    BY <1>13 DEF Commit, Recomputed, TypeOK
  <2>2. c \notin Updating(u)'
    <3>1. CASE NextMessage(c)
      BY <1>8, <3>1
    <3>2. CASE Goto(c, "alert")
      BY <3>2 DEF Goto, Updating, InTransaction, TypeOK
    <3> QED BY <1>13, <3>1, <3>2 DEF Commit
  <2>3. CASE who[c] = u
    <3>1. Sound(u) /\ Updating(u) = {c}
      BY <2>1, <2>3 DEF ExactInv, Sound, Updating, InTransaction
    <3>2. Updating(u)' = {}
      BY <1>5, <1>13, <2>2, <3>1 DEF Consume, Updating
    <3>3. aggregate'[u] = counted[c]
      BY <2>1, <2>3 DEF TypeOK
    <3>4. owed[u] = 0 /\ topic[u] = 0 => Exact(u)'
      BY <1>5, <1>13, <2>1, <3>1, <3>3 DEF Consume, Sound, Halfway, Exact
    <3> QED BY <1>5, <1>13, <2>1, <3>2, <3>4 DEF Consume, Sound
  <2>4. CASE who[c] # u
    <3>1. aggregate'[u] = aggregate[u] /\ c \notin Updating(u)
      BY <2>1, <2>4 DEF TypeOK, Updating
    <3> QED BY <1>6, <1>13, <2>1, <2>2, <3>1 DEF Consume
  <2> QED BY <2>3, <2>4
<1>14. ASSUME NEW c \in Consumers, Alert(c) PROVE Sound(u)'
  <2>1. UNCHANGED <<topic, aggregate, tainted>> /\ c \notin Updating(u)
    BY <1>14 DEF Alert, Updating, InTransaction
  <2> QED BY <1>6, <1>8, <1>14, <2>1 DEF Alert, Consume
<1>15. ASSUME NEW c \in Consumers, Fail(c) PROVE Sound(u)'
  <2>1. UNCHANGED <<topic, aggregate>> /\ u \notin tainted /\ c \notin Updating(u)
    BY <1>15 DEF Fail, Updating
  <2> QED BY <1>6, <1>8, <1>15, <2>1 DEF Fail
<1> QED BY <1>2, <1>3, <1>4, <1>9, <1>10, <1>11, <1>12, <1>13, <1>14, <1>15 DEF Next, Consume

\* Once the events of a student are handled the aggregate holds the outcomes on
\* record, whatever faults and overlaps there were before the last event that
\* was handled alone.
THEOREM QuietAggregatesAreExact == Spec => []QuietIsExact
<1>1. ExactInv => QuietIsExact
  BY DEF ExactInv, Sound, Exact, QuietIsExact, Quiet, Dashboard
<1> QED BY <1>1, InitType, NextType, InitRegister, NextRegister, InitExact, NextExact, PTL DEF Spec

\* ... and no automatic absence is missing from its number of sessions.
THEOREM AbsencesCount == Spec => []AbsencesAreCounted
<1>1. ExactInv => AbsencesAreCounted
  BY DEF ExactInv, Sound, Exact, AbsentIn, AbsencesAreCounted, Quiet, Dashboard
<1> QED BY <1>1, InitType, NextType, InitRegister, NextRegister, InitExact, NextExact, PTL DEF Spec
-----------------------------------------------------------------------------
(* The register, and a consumer that works alone *)

\* What writes the records here is the register that the handlers of
\* ClassAttendance implement: consumers and the queue never write an outcome,
\* and a handler's commit is one step of the register.
THEOREM RecordsFollowTheRegister == Spec => Register!RegisterSpec
<1>1. Init => Register!RegisterInit
  BY DEF Init
<1>2. [Next]_vars => [Register!RegisterNext]_(Register!registerVars)
  <2>1. Next => Register!RegisterNext \/ UNCHANGED register
    BY StepKinds, RegisterSteps
  <2> QED BY <2>1 DEF Register!registerVars, vars, register
<1> QED BY <1>1, <1>2, PTL DEF Spec, Register!RegisterSpec

\* Without a fault a recomputation can be void only because two consumers
\* worked on one student: a single one taints nobody.
LoneInv == faults = 0 => tainted = {}

LEMMA NextLone ==
  ASSUME \A c, d \in Consumers : c = d, TypeOK, LoneInv, [Next]_vars
  PROVE  LoneInv'
<1> USE DEF LoneInv
<1>1. CASE UNCHANGED <<faults, tainted>>
  BY <1>1
<1>2. ASSUME NEW u \in Students, Lose(u) \/ Duplicate(u) PROVE LoneInv'
  BY <1>2 DEF Lose, Duplicate, TypeOK
<1>3. ASSUME NEW c \in Consumers, NEW u \in Students, Read(c, u) PROVE LoneInv'
  <2>1. Updating(u) = {}
    BY <1>3 DEF Read, Updating, InTransaction
  <2> QED BY <1>3, <2>1 DEF Read
<1>4. ASSUME NEW c \in Consumers, Fail(c) PROVE LoneInv'
  BY <1>4 DEF Fail, TypeOK
<1>5. ASSUME NEW s \in Sessions,
             \/ OpenSession(s) \/ CloseSession(s)
             \/ \E u \in Students, v \in Register!Decided : DecideOutcome(s, u, v)
      PROVE  LoneInv'
  BY <1>5, RegisterSteps
<1>6. ASSUME NEW c \in Consumers, Consume(c), ~ \E u \in Students : Read(c, u)
      PROVE  UNCHANGED <<faults, tainted>>
  BY <1>6 DEF Consume, Count, Upsert, Commit, Alert
<1> QED BY <1>1, <1>2, <1>3, <1>4, <1>5, <1>6 DEF Next, Consume, PublishRecorded, vars

\* With a single replica, and as long as nothing failed, every percentage whose
\* events are handled is exact: no overlap and no order of the events spoils it.
LoneConsumerIsExact ==
  faults = 0 => \A u \in Students : Quiet(u) => Exact(u)

\* What a course's screens show is spoiled by a fault or by two consumers at once,
\* and by nothing else: with one consumer UpdateAggregate needs no lock.
THEOREM LoneConsumerStaysExact ==
  ASSUME \A c, d \in Consumers : c = d
  PROVE  Spec => []LoneConsumerIsExact
<1>1. Init => LoneInv
  BY DEF Init, LoneInv
<1>2. TypeOK /\ LoneInv /\ [Next]_vars => LoneInv'
  BY NextLone
<1>3. ExactInv /\ LoneInv => LoneConsumerIsExact
  BY DEF ExactInv, LoneInv, Sound, Quiet, LoneConsumerIsExact
<1> QED BY <1>1, <1>2, <1>3, InitType, NextType, InitRegister, NextRegister,
           InitExact, NextExact, PTL DEF Spec
=============================================================================
