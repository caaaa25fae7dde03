# A verification project for AtApp

AtApp takes attendance in university lectures. A teacher starts a session and
shows a code that changes every ten seconds; students submit the code together
with the Wi-Fi access point and the position of their phones; the teacher may
override an outcome; ending the session marks everybody else absent. These
modules model the server that does this, check it with TLC on small instances,
and prove with TLAPS every safety property that the runs check, for all
instances, together with what liveness rests on: that nobody waits in a circle,
and that everybody's distance from their answer shrinks.

## 1. Inventory

The server (`server/`) is one Go process, run in two replicas or more
(`k8s/base`), over PostgreSQL at READ COMMITTED, Redis and Kafka. Each HTTP
request is a goroutine; most run one transaction, then call Redis, then publish
to Kafka. Nothing in the process's memory is shared between requests: they meet
in PostgreSQL's rows, in Redis keys and in Kafka topics.

| Part | State | Operations | Makes it correct |
|---|---|---|---|
| Session service | `class_sessions`; Redis `session:<id>:code`, `:prev` | StartSession, GetOrRotateCode, EndSession | one live session per section; a session ends once and completely; only committed codes circulate, and old ones die |
| Verification service | `verification_attempts`, `attendance_records`; Redis `rate:student:...` | SubmitCheckin, PruneRawVerificationData | present is earned by an accepted attempt; the limit of attempts holds |
| Attendance service | `attendance_records`, `overrides` | SubmitOverride; roster, dashboard, history (reads) | every override is audited |
| Reporting | `attendance_aggregates`; Kafka offset | UpdateAggregate on `attendance.recorded` | the percentage converges to the records |
| Notifications | FCM tokens, Kafka offsets | consumers of `session.started`, `threshold.breached` | a notice per breach; no self-inflicted shortage of connections |
| Event bus | Kafka topics | Publish | events are about committed rows |
| Gateway | Redis `ratelimit:...` | RateLimit, AuthMiddleware, RequireRole | a window ends; the limit holds |
| Auth | `users.password_hash`; signed tokens | Login, Refresh, reset | a refresh yields a usable pair; only a reset token of the account changes its password |
| Tenant, admin | colleges, users, sections, enrolments | provisioning, CSV imports | an import is all or nothing |
| Migrations, pool | `schema_migrations`; 25 connections | RunMigrations at start | each migration once |
| Teacher app | active session, code, roster, two timers | start, poll, end, override | what is on screen belongs to the session |
| Student app | tokens, result of a check-in | submit, refresh | tokens survive concurrent refreshes |
| Admin web | page state only | none on the server | not modelled |

How they interact: the apps call the services over HTTP through the gateway.
SubmitCheckin reads the code that GetOrRotateCode stores. EndSession,
SubmitCheckin and SubmitOverride write the same rows of `attendance_records`.
All three publish `attendance.recorded`, which reporting turns into percentages
and `threshold.breached`, which notifications turn into pushes.

What is hard: statements of several transactions interleave and each sees what
is committed when it runs, so that a check is stale when the write that relies
on it runs; PostgreSQL and Redis are written one after the other, and a crash
falls between them; events are published after the commit and may be lost; keys
expire while requests run. `PROJECT.json` lists these hazards line by line.

## 2. Modules

| Module | What it is |
|---|---|
| `AttendanceRegister` | abstract: one outcome per student and session; opening, deciding, closing |
| `ClassAttendance` | StartSession, SubmitCheckin, SubmitOverride, EndSession, statement by statement; implements the register |
| `SessionCodes` | the code of one session: rotation, end, PostgreSQL row, Redis keys, clock, faults |
| `Aggregates` | from the register through Kafka and the reporting consumers to the percentages on the screens |
| `VerificationPolicy` | how a check-in is judged: defaults, signals, N of 3, reasons |
| `RateLimits` | the two counters of attempts in Redis, with the requests that race on them |
| `Migrations` | RunMigrations of several replicas, RollbackLastMigration of an operator |
| `Notifications` | the goroutines of a replica that share its connections: a handler, the reporting consumer, two notifiers |
| `Server` | the life of the replicas; composes `Migrations` and `Notifications` |
| `Accounts` | tokens, founding of colleges, and the transactions of their administrators |
| `MC...` | values for TLC, one module for each that is run |
| `...Proofs` | theorems, one module for each; those about the replies of `ClassAttendance` have `ClassAttendanceReplyProofs`, those about waiting and progress `ClassAttendanceProgressProofs` |

The modules meet where the program's parts meet. `ClassAttendance` implements
`AttendanceRegister`, and `Aggregates` takes the register's three steps as its
source of records (`RecordsFollowTheRegister` proves that it writes them by no
other step): what is checked and proved of percentages holds of the handlers. `RateLimits`
extends `VerificationPolicy`, whose verdicts decide what is counted. `Server`
instantiates `Migrations` and `Notifications` with its own variables and says
when their steps may happen.

### ClassAttendance

A request is a process; `pc[r]` names its next statement, or its reply. The
variables `phase`, `status`, `evidence`, `attempts` and `audits` are the
committed contents of the tables, and `writer` is history: the request that wrote
each record last, which no action reads; `sess`, `stu`, `want`, `todo`, `wrote` and
`tally` are the handlers' local variables. Each action is one SQL statement or
one call to Redis or Kafka, with the Go code around it; `CheckinEvaluate` stands for the two
reads of Redis, the N-of-3 decision and the INSERT of the attempt. What a transaction has
written and not committed stays in `wrote` and `want`: other requests do not see
it, and wait for it (`RecordFree`, `SessionFree`) exactly where PostgreSQL makes
them wait: an upsert or INSERT of a record that another transaction has written,
an UPDATE of a session that another transaction has updated. The plain INSERT of
EndSession fails on the unique constraint when the other writer has committed
(`Conflicts`); the upserts of check-ins and overrides win. Any statement and any
commit may fail (`Abort`), any replica may die after a commit (`Die`), Kafka may
lose any event (`Publish`).

Abstracted: whether the signals satisfy the policy, whether the attempt counter
is exhausted, and whether the caller owns what it names are free choices, so
every property here holds however those are decided. The inserts of attempts
and overrides take effect at the commit. Foreign keys take no lock that
conflicts with these statements (`FOR KEY SHARE` against an update of
`ended_at`), so there is none in the model. `present`, `absent`, ... are the
values of `attendance_records.status`; "none" is a row that does not exist.

### SessionCodes

One session. `dbCode` and `rowLock` are the row, `codeKey` and `prevKey` the Redis
keys with the ticks they have left, `pc`, `old`, `new` and `initial` the
handlers. A rotation is SELECT, GET, UPDATE, commit, SET, SET. `Tick` is a share
of ten seconds, `RedisDown` and `RedisBack` an outage that may lose the keys,
`Fail` a failing statement or a crash of the replica at any step. What SubmitCheckin
compares a code with is `Acceptable`. The absences that EndSession records are
left to `ClassAttendance`, where they matter. `idleFor` and `issued` are history:
no action reads them, and `MaxIdle` is where the first stops counting the ticks
since a code was live.

### Aggregates

The variables `phase` and `status` are the register. A commit of a check-in, an
override or an end adds to `owed` the events that its handler publishes
afterwards; `PublishRecorded` moves one to the `topic`, `Lose` and `Duplicate`
are the faults of publishing and of the bus, and an event may be taken in any
order, because the writer spreads events over partitions by size and not by
student. A consumer (`pc`, `who`, `counted`) takes an event, whose offset is
then committed, counts the ended sessions, counts the present outcomes, upserts
and commits, and publishes `threshold.breached`, each a step of its own at READ
COMMITTED; the upsert waits for another consumer that holds the student's row.
`Fail` ends an update anywhere. `missed` and `tainted` are history: who was ever
without a present outcome in an ended session, and whose last recomputation may
be void because a fault hit it or another consumer worked on the same student.

One section stands for a course: the percentages of different courses do not
interact. Screens are the operators `Dashboard` and `StudentCourses`, reads of
the aggregates; `Percentage` is what is stored with the counts. `Threshold` is any
integer: neither the schema nor the administrator's handler keeps it to a
percentage.

### VerificationPolicy and RateLimits

`VerificationPolicy` has no state. A policy is any two integers, as the JSON of
a college may hold; the signals are computed from the room, the codes that
Redis still has, and the submission. Positions and networks are names: whether
the distance is within the radius is one comparison of the code, abstracted by
the place.

In `RateLimits` a behaviour follows one key, chosen at the start. `count` and
`expires` are the key; a check-in reads it (`StartCheckin`), is judged, commits,
and then deletes it or increments it and sets its time to live, each command a
step that may fail; a request to a public route increments first and sets the
time to live when it created the key. `KeyExpires` is Redis, `KeyLost` a restart
of Redis, `Die` the end of a handler anywhere. `passed` is history: what got
through in this life of the key. The address's `count` is followed up to one
above the limit, since the code distinguishes no more.

### Migrations, Notifications and Server

A runner of migrations looks outside of any transaction whether a version is
applied, then executes the file and records it in one transaction; another one
that executes the same file waits while the objects are being created (`Held`) and
fails when they exist, also when a rollback has dropped them and not committed.
A rollback creates the table of versions if need be and looks for the newest one
first (`FindLast`). `Notifications` counts who holds a connection: a handler and the
reporting consumer during their transaction, the session reader from its BeginTx
until everybody is told, and each push while it looks up the device; the mutex
of the FCM access token is `mint`. When a transaction fails (`TransactionFails`,
`NameFails`) the session reader tells nobody, and the breach reader goes on
without the name of the course. `Server` starts, migrates, serves, drains and
ends replicas; a crash takes the goroutines along and counts in `lost` the event
of a handler that had committed.

`MaxEvents` bounds what handlers publish, `MaxTroubles` crashes, failures,
SIGTERMs and rollbacks together. Statements of a rollback that fail
(`RollbackFails`) are not counted, since each ends a rollback that is. There is one
operator: nothing in the repository runs rollbacks by itself.

### Accounts

A request that writes is a list of INSERTs (`asked`), of which `rest` is still
to run; its own rows are in `pending` until it commits. An INSERT sees the
committed rows and its own, waits while another transaction holds the same key
(`WaitsFor`), fails on a CHECK, a foreign key or a taken email, or skips the row
where the code says ON CONFLICT DO NOTHING. PostgreSQL breaks a circle of
waiters by failing one of them (`Abort`). Tokens are what somebody holds and
would be accepted; the middleware's checks are the guards of the requests.
Departments are folded into courses, a parent and nothing more. `MaxTokens`,
`Clients` and `Forgetful` bound who logs in and resets; `UserFiles`,
`EnrollmentFiles` and `Persons` are the uploads and forms.

## 3. Runs

| Run | Asks | Instance | Result |
|---|---|---|---|
| `attendance_safety` | do ended sessions, evidence, audits, replies, events and counts stay right, and do the handlers implement the register? | 2 students, 1 section, 2 sessions, 3 requests of any kind | holds; 518,073 states up to symmetry |
| `attendance_answers` | is every request answered? | 2 students, 2 sessions, 2 requests | holds |
| `locked_after_end` | does a session lock when it ends (design.md:17)? | 2 requests | violated: a check-in under way lands after the end |
| `one_active_session` | has a section one active session (openapi.yaml:275)? | 2 requests | violated: two starts pass the check together |
| `session_codes` | do only committed codes circulate, do devices show live ones, does an active session get its code back, and do an ended one's disappear? | 2 codes, 2 devices, 1 end, lifetime 1 tick, 1 fault | holds; 217,195 states |
| `stale_code` | was an accepted code live within the last lifetime (README.md:63)? | lifetime 2 ticks | violated: a late rotation revives the expired code |
| `aggregates` | what is a percentage worth once the events are handled, and is anybody warned who missed nothing? | 1 student, 2 sessions, 2 consumers, threshold 75, 2 decisions, 1 fault | holds; 623,193 states |
| `percentage_stale` | does a check-in move the percentage (design.md:24)? | 1 student, 2 sessions, 1 consumer, 1 decision, no fault | violated: its event is handled before its session counts, and the end publishes nothing for it |
| `breach_repeated` | is a breach told when the percentage crosses the threshold (design.md:28)? | 1 student, 2 sessions, 1 consumer, no decision, no fault | violated: the second absence warns again |
| `rate_limits` | by how much can a limit be exceeded, and is who is at it let in again? | 2 requests, 3 policies, 3 rooms, limit of 2 for addresses, 2 faults | holds; 155,774 states |
| `server` | do replicas that start, stop and crash together keep the schema, the connections and the events? | 2 replicas, 1 migration, 1 student, 2 connections, 2 events, 1 trouble | holds; 343,406 states |
| `accounts` | do administrators' transactions that wait for each other, skip and fail keep the directory sound? | 2 requests, 2 colleges, 3 emails, 1 section, 1 token held at a time | holds; 265,686 states |

What the passing properties say, beyond types:

- `EndedIsComplete`, `AbsentOnlyByEnding`: an EndSession that races check-ins,
  overrides and other EndSessions, or fails half way, leaves a session with an
  outcome for everybody or with no absence at all.
- `PresentIsEarned`, `OverrideIsAudited`: the record and what backs it never
  disagree, in whatever order check-ins and overrides replace each other. Behind
  an overridden record stands the audit row of the very request that wrote it
  last; the row itself holds no status.
- `OutcomesStand`: the stale EXISTS of EndSession never costs a student an outcome.
- `AbsencesAreExact`: the absences in the summary are exact although they are
  counted before the commit. The two other counts are not: an override committed
  between their statements is seen by one and not by the other.
- `RepliesAreTrue`, `EventsFollowCommits`: nothing is told or published that did
  not commit.
- `RefinesRegister`: an EndSession that slips past the `ended_at` check sets
  `ended_at` again and publishes again, but changes no outcome; the register
  closes once.
- `QuietIsExact`, `AbsencesAreCounted`: UpdateAggregate recounts, so whatever was
  lost before, the last undisturbed update repairs the percentage. What
  `tainted` excludes is exactly what may stay wrong: a fault on the last event,
  or two consumers that worked on the student at once. These the code does not
  repair, and the properties do not catch.
- `NoFalseAlarm`: a warning goes only to who missed a session, because ended
  sessions are counted before outcomes; the other order would warn students who
  check in between the two counts. A threshold above 100, which the code
  accepts, warns everybody.
- `PercentagesSettle`: once decisions cease the percentages become right for good.
- `GuessesBounded`: the check before and the increment after the commit let
  through one attempt more per concurrent request and per fault, and no more.
- `WindowHolds`: INCR numbers the requests, so concurrency adds nothing.
- `VerdictsHold`: no policy, however malformed, accepts without the code unless
  it asks for one or two signals; reasons name what the room really has.
- `StudentIsReadmitted`, `AddressIsReadmitted`: a block ends, unless faults took
  what was to end it: as many as the limit for a student, one for an address.
- `SchemaIsSound`, `EveryReplicaServes`: replicas that fail each other's
  migrations at start leave the schema as recorded, and all of them serve in
  the end.
- `PoolNeverWedged`: the session reader holds a connection while each push takes
  another; with two or more the goroutines never all wait.
- `StopLosesNothing`: SIGTERM loses no event of a handler that has committed. A
  breach that the reporting consumer has still to publish may be lost.
- `CodesDieWithSession`: a rotation under way stores its codes after EndSession has
  deleted them, but they expire. `SessionRecovers` and `RequestsAnswered` are
  written as "again and again" and "from some time on": an ended session stays
  ended and a poll starts anew after each answer, so that these say what the
  leads-to formulas would.
- `DirectoryIsSound`, `AnswersHold`, `AccountsStand`: see section 4.

The bounds. Two requests show every pairwise race; the third makes three-way
ones possible (an EndSession that waits for a check-in while an override waits
for it, two EndSessions and a check-in). Two students separate a loop that stops
half way from one that ends; two sessions of one section let a start race an
end. Everybody is enrolled, so students, sessions and requests are interchangeable
and the safety runs use that symmetry. Liveness is checked without symmetry and with two requests; that no more of them
could wait in a circle is the theorem `NobodyWaitsInACircle`.
For the codes a lifetime of one tick lets keys expire between any two steps, two
ticks tell an expiry from a late one, and with two devices an outage or a crash
falls between any two steps of both.

An aggregate belongs to one student, so one is enough; two sessions separate "one
short" from "none", two consumers overlap, two decisions let an outcome change
after it was counted. Threshold 75 makes one missed session of two a breach and
none a pass. A limit of two separates the request that creates a key from the
one that fills it; the three policies are the default, a weak and an impossible
one. Two connections are the least with which the pool does not wedge (with one
the session reader waits for itself). One trouble reaches a crash, a stop or a
rollback at every point, and the theorems of section 4 lift that bound. The two
files of users name the same two people in opposite order, which is the circle; one has a
header and ends with a role that the table refuses, which is the failure in the
middle.

Bounds inside the modules: `MaxFaults`, `MaxDecisions`, `MaxEvents`,
`MaxTroubles`, `MaxTokens`. The safety theorems hold for every value of them.

Fairness. In `ClassAttendance` a request that has arrived keeps running (`WF` of
its handler): Go schedules goroutines, and a statement returns or fails. Nobody
is obliged to send a request, and failures and crashes are never fair. In
`SessionCodes` time passes, Redis comes back, and the device polls again, as the
timer of the teacher's screen does every three seconds while it is open:
`SessionRecovers` is a promise to a teacher who keeps the screen open. The two
UPDATEs have strong fairness because PostgreSQL queues the waiters of a row;
with weak fairness alone a waiter could be overtaken for ever by other rotations.
In `Aggregates` handlers reach their Publish and the consumers' loops never
stop. In `RateLimits` handlers that have begun go on and Redis expires keys that
have a time to live. In `Server` a replica advances by itself and Kubernetes
restarts what ended; the goroutines and a rollback in progress go on. In
`Accounts` the statements of a request have strong fairness: PostgreSQL queues
those that wait for a key, and breaks a deadlock after its timeout.

## 4. Proofs

| Module | Theorem | States |
|---|---|---|
| `ClassAttendanceProofs` | `TypeCorrect` | `TypeOK` |
| | `EndedComplete`, `AbsentByEnding`, `PresentEarned`, `OverrideAudited` | the four invariants of the tables |
| | `OutcomesAreKept` | `OutcomesStand` |
| | `ImplementsRegister` | `RefinesRegister` |
| `ClassAttendanceReplyProofs` | `RepliesTrue`, `EventsAfterCommits`, `AbsencesExact` | `RepliesAreTrue`, `EventsFollowCommits`, `AbsencesAreExact` |
| `ClassAttendanceProgressProofs` | `LocksReturn` | `LocksAreGivenBack`: no row lock outlives its transaction |
| | `NobodyWaitsInACircle` | `NoCircleOfWaiters`: of any group of requests, one waits for none of them |
| | `DistancesBounded`, `AnswersGetNearer` | `DistancesAreBounded`, `AnswersComeNearer`: at most three steps per student and nine more, that nobody can undo |
| `SessionCodesProofs` | `TypeCorrect`, `CodesCommitted`, `ShownLive` | the three invariants of `SessionCodes` |
| | `RowLockBrief`, `AnswersGetNearer` | `RowLockIsBrief`, `AnswersComeNearer`: one holder of the row, about to commit; five statements for a poll, three for an end |
| | `KeysAlwaysExpire`, `OldCodesAreFading` | `KeysExpire`, `OldCodesFade`: after the end nobody joins those that may still store a code, and then the keys only get older |
| `AggregatesProofs` | `TypeCorrect`, `NoAlarmIsFalse`, `QuietAggregatesAreExact`, `AbsencesCount` | the four invariants of `Aggregates` |
| | `RecordsFollowTheRegister` | `Register!RegisterSpec`: the records are written by the register's steps alone |
| | `LoneConsumerStaysExact` | `LoneConsumerIsExact`: with one consumer and no fault, what is quiet is exact |
| `RateLimitsProofs` | `TypeCorrect`, `GuessesAreBounded`, `WindowIsHeld`, `VerdictsAreRight` | the four invariants of `RateLimits` |
| | `NoBlockForGood` | `BlocksEnd`: a counter without a time to live has a handler about to set it, or a fault to blame |
| | `BlocksAreNotRenewed` | `BlockedDrain`: at the limit nobody goes under way, and the counter falls only with its key |
| `ServerProofs` | `TypeCorrect`, `SchemaStaysSound`, `PoolIsNeverWedged`, `NothingIsLostByStopping` | the four invariants of `Server` |
| | `PushesHaveEvents` | `EveryPushHasItsEvent`: no more pushes to a student than events published |
| | `EachMigrationOnce` | `MigrationsInOrder`: the record grows by one migration, after all before it, and shrinks by one that was there |
| | `OnlyTheOvertakenFail` | `FailuresAreRaces`: a start fails only because another was faster |
| | `ServingIsNear`, `ReplicasGetNearer` | `ToGoIsBounded`, `ServingGetsNearer`: a starting replica's steps bring it nearer, and only the progress of all sets it back |
| `AccountsProofs` | `TypeCorrect`, `DirectoryStaysSound` | `TypeOK`, `DirectoryIsSound` |
| | `AnswersAreKept`, `AccountsStayWhatTheyAre` | `AnswersHold`, `AccountsStand` |
| | `TenantsStayApart` | `TenantsApart`: a college gets an account or an enrolment only by its own administrator or founder |
| | `NobodyIsStuck`, `RequestsGetShorter` | `SomebodyGoesOn`, `StatementsGetFewer`: who waits, waits for somebody that runs or for a deadlock that is broken |

The properties whose meaning stands in the table are stated in the module of
their theorem; the others are those of the runs. Each theorem is `Spec => []Inv`,
or `Spec =>` the action property, for all values of the constants under the assumptions that the modules name: finitely many students,
sessions and requests where they are counted, each session with a section and
each section with a roster (`SectionsAssumption`, `RosterAssumption`), null
values that are not members, bounds and thresholds that are numbers (any integer: `NoFalseAlarm` itself speaks of thresholds up to 100), codes and
lifetimes that exist (`CodesAssumption`, `TTLAssumption`), inputs of the right
columns (`PolicyAssumption`, `InputsAssumption`, `FilesAssumption`: an empty
file is refused before anything is written). Three theorems add a hypothesis of
their own: `PoolIsNeverWedged` needs `Pool >= 2` (the code sets 25),
`PushesHaveEvents` finitely many replicas, and `LoneConsumerStaysExact` a single
consumer, which is what one replica runs.

`ClassAttendance`. None of the invariants is inductive: at the
commit of an EndSession nothing about the tables alone says that every student
has a record. `SafetyInv` adds what the handlers' locals mean
(`LocalsMeanWhatTheySay`): in the loop of EndSession every enrolled student has a
committed record, or is still to be visited, or has been written by this
transaction, or is being inserted; and what the transaction has written still
has no committed record. The last part needs `LocksExclusive`: two open
transactions never hold the same record, session or new id, so a commit of one
leaves what the other's locals say alone (`OthersKeepTheirMeaning`,
`CommitsRespectLocks`). The proof has a lemma per handler and per part of the
invariant, and one that only the four commits change the tables. The register
follows step by step: a commit of EndSession is `Close` when the session was
active, and a stutter otherwise, because then everybody has a record.

The replies. `RepliesInv`, on top of `SafetyInv`, says what a request may claim
once it has committed: its attempt or audit is in the table and its student
decided, and since the tables only grow and no EndSession touches a decided
record, the claim stays true. The count of absences is exact because, while the
session is active, its absences are the ones this transaction has written, and
another EndSession that had committed would have ended it.

Waiting. Whoever waits while somebody waits for it is an EndSession that inserts
an absence: check-ins and overrides take their one lock last
(`WaitersThatHold`). Two EndSessions are never both in the loop of one session,
because the UPDATE of `ended_at` comes first; so a chain of waiters ends after
two, and there is no circle. A request's distance (`Left`) counts the statements
it may still make, three for each student that an EndSession has to visit; no
step of another request, failure or crash adds to it.

`SessionCodes`. `CodesInv` follows the codes: those that a
rotation holds from its commit on, and those in the keys, are committed; as long
as nothing failed, Redis is up and what was SET has been live. `OldCodesFade` names
those that may still store a code when the session ends (`MayStore`): rotations
that read it as active, since their UPDATE does not ask again, and the first SET.
Nobody joins them, and once they are through the keys only get older.

`Aggregates`. `QuietIsExact` speaks of a student nobody works on; the inductive
form (`ExactInv`) says the same of a consumer that works alone: what it has
counted is what the tables hold, unless an event that will repeat the count is
still owed or in the topic. `WarningInv` says of a consumer that is about to
warn that the student has missed a session, which follows from the order of its
two counts because ended sessions stay ended and outcomes stay decided. Only faults
and consumers that overlap taint anything, so a lone consumer without faults is
exact (`LoneConsumerStaysExact`).

`RateLimits`. A bound on `passed` is not inductive; a balance is. For a student,
each stored failure is in the counter, or its request has still to count it, or a
fault lost it, and the counter and the requests under way stay below the limit
plus one each. For an address, each request let through, or about to be, has a
number of its own or a fault. As for the end of a block, a student's counter without a
time to live never exceeds those that are about to set it and the faults; an
address's has the request that created it (`Armed`) or a fault.

`Server`. `SchemaStaysSound` needs what a runner knows on its way (`Progress`): all
versions below its own are applied, whoever applied them, unless the operator
has taken one away (`OperatorInv`). That the rows and the objects agree holds at
every step because both change in one commit. `PoolIsNeverWedged`
counts connections: with all in use and nobody in `tx` or `device`, the session
reader holds at most one. `PushesHaveEvents` counts, for a student, pushes done,
notifiers that have still to tell them and unread events; together they never
exceed the events published (`Covered`), and a notifier's present target is
not among those still to tell (`TargetIsNotToDo`). `EachMigrationOnce` rests on
`Exclusive`: no two transactions hold one migration. `ServingGetsNearer` speaks of
steps without new trouble while no rollback is under way, since a crash or a
rollback does set replicas back. A replica that has been overtaken must start
once more, and its distance (`ToGo`) then includes that start; this happens at
most once for the table and each migration, which only a rollback takes away.

`Accounts`. What holds of the committed tables must hold of what each
transaction sees (`View`), because a commit makes the one the other. Two open
transactions never hold accounts of one email (`PendingApart`), which is what the
waiting of an INSERT is for; so the rows of one and the view of another are
sound together (`BothSound`). A college may lack its administrator only in the
view of its own founding, which still has to insert them (`Founded`,
`FoundsWhole`); and what has been executed is in the view (`Executed`), which is
what an answer promises. `TenantInv` says that every row a request has written or
will write is of the college that the request was admitted to, whatever names its
file holds, and that an administrator of that college is behind it.
`NobodyIsStuck` has no bound on the requests: the smallest group in which
everybody waits for a member is a deadlock (`StandstillIsDeadlock`).

Model-checked only: liveness (`EveryRequestAnswered`, `SessionRecovers`,
`CodesDieWithSession`, `RequestsAnswered`, `PercentagesSettle`,
`StudentIsReadmitted`, `AddressIsReadmitted`, `EveryReplicaServes`). `ENABLED`,
and so liveness under fairness, is outside what the prover can do. Of all but two
the part that is safety is proved, for all instances:

| Liveness, by TLC | Its safety, by TLAPS |
|---|---|
| `EveryRequestAnswered` | `NobodyWaitsInACircle`, `LocksReturn`, `DistancesBounded`, `AnswersGetNearer` |
| `RequestsAnswered` of `SessionCodes` | `RowLockBrief`, `AnswersGetNearer` |
| `CodesDieWithSession` | `KeysAlwaysExpire`, `OldCodesAreFading` |
| `StudentIsReadmitted`, `AddressIsReadmitted` | `NoBlockForGood`, `BlocksAreNotRenewed` |
| `EveryReplicaServes` | `ServingIsNear`, `ReplicasGetNearer` |
| `RequestsAnswered` of `Accounts` | `NobodyIsStuck`, `RequestsGetShorter` |

What is left to TLC there is that a step which nothing prevents is taken. For
`SessionRecovers` and `PercentagesSettle` TLC is the only witness. Induction over
data and recursive operators are outside it too; no module here needs them.

## 5. Findings

1. **An ended session is not locked.** A check-in that resolved the session before
   EndSession committed writes `present` over the absence, after the summary.
2. **Two active sessions.** Nothing but a SELECT keeps two concurrent starts
   apart; a unique index on the active sessions of a section would.
3. **A late rotation revives an expired code** for ten more seconds as the
   previous code.
4. **A check-in does not move the percentage.** Its event is handled while the
   session is under way and only ended sessions count; EndSession publishes an
   event for whom it marks absent and for nobody else, so the percentage waits
   for another event of the student. An event for everybody enrolled would
   settle it.
5. **A breach is told again.** Each update below the threshold publishes
   `threshold.breached`, whether the percentage was above it before or not. The
   stored percentage, read before the upsert, would tell.

## 6. Plan

What is left, in this order:

1. `TeacherScreen`: the provider of the teacher's app with its two timers, late
   answers of a poll that belongs to the previous session, and an end that fails
   after the timers were stopped; composed with `SessionCodes`, whose `Pollers`
   are now only clients that poll. Its property is that the code on screen
   belongs to the session on screen.
2. `StudentClient`: two requests that get 401 and refresh at once, one of which
   fails and clears the tokens that the other has just saved; the server's part
   is in `Accounts`.
3. PruneRawVerificationData beside the handlers, should anything come to read
   the columns that it clears.

## 7. Not modelled

- The screens of the three apps, and the administration prototype, which calls
  no server. Two hazards of the teacher's app and one of the student's are
  listed in `PROJECT.json` without a property.
- RegisterDeviceToken and mail: a student has a device or not at every push.
  FCM and SMTP are external, modelled by what the code does with their answers.
- PruneRawVerificationData, which clears columns that nothing modelled reads;
  SignUp, which no route calls; ResetSchemaForTests.
- Enrolment while sessions run: the roster of a section is a constant. In the
  code a student imported after the end has no record of the ended session, and
  the roster screen shows them as pending; so `EndedIsComplete` is true of the
  roster that EndSession read. Sessions that ended before the import count in
  that student's percentage, which may warn them of sessions they could not attend.
- The roster of a session and the history of a section, reads of the tables as
  they are at the time of the request.
- In the imports: files whose rows are all too short, which are skipped and
  answered with success (`csv.Reader` refuses rows of different lengths), and
  the counts of rows in the answers.
- Logging, metrics, tracing, the writing of responses, probes and autoscaling.
- The signatures of tokens and the hashing of passwords: a token that verifies
  was issued.
- Row-level security is the environment: the handlers enter through `WithTenant`
  with the caller's own college, and a transaction sees its tenant's rows.
- More than one operator, and more than one course with the same students: courses
  share nothing but the students' screens.
