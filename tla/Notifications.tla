--------------------------- MODULE Notifications ----------------------------
(***************************************************************************)
(* The goroutines of a replica that share its pool of connections and its  *)
(* FCM access token:                                                       *)
(*                                                                         *)
(*   "handler"    an HTTP request: one transaction, then its event         *)
(*   "reporting"  reporting/consumer.go, UpdateAggregate                   *)
(*   "session"    notification/consumer.go, session.started: pushes to     *)
(*                everybody enrolled, inside its own open transaction      *)
(*   "breach"     notification/consumer.go, threshold.breached: one push   *)
(*                                                                         *)
(* A push (notification/fcm.go) takes a connection of its own for the      *)
(* device token, and the mutex of the access token.  Whether a student has *)
(* a device, and whether the cached access token has more than a minute to *)
(* live, is left open.  What the transactions read and write is in         *)
(* ClassAttendance and Aggregates.                                         *)
(*                                                                         *)
(* Server composes the steps with the life of the replicas.                *)
(***************************************************************************)
EXTENDS Naturals, FiniteSets

CONSTANTS Replicas,
          Students,   \* enrolled in the section
          Pool,       \* SetMaxOpenConns
          MaxEvents   \* bound: events that handlers ever publish

VARIABLES unread,     \* events in each topic that no reader has taken
          published,  \* history: events ever written to each topic
          pc,         \* next step of each goroutine of each replica
          todo,       \* students the session reader has still to tell
          target,     \* the student a push is for
          pushes      \* history: messages sent to each student

vars == <<unread, published, pc, todo, target, pushes>>

Kinds     == {"handler", "reporting", "session", "breach"}
Notifiers == {"session", "breach"}
Topics    == {"session.started", "attendance.recorded", "threshold.breached"}
Steps     == {"idle", "begin", "tx", "publish", "next", "lookup", "device",
              "token", "mint", "send"}
Pushing   == {"lookup", "device", "token", "mint", "send"}
Idle      == [k \in Kinds |-> "idle"]

ReadsFrom(k) ==
  CASE k = "reporting" -> "attendance.recorded"
    [] k = "session"   -> "session.started"
    [] k = "breach"    -> "threshold.breached"

At(p, k, s)   == pc[p][k] = s
Goto(p, k, s) == pc' = [pc EXCEPT ![p][k] = s]
-----------------------------------------------------------------------------
(* The pool: a BeginTx waits until fewer than Pool connections are in use. *)

\* Mutant: the breach reader too keeps its transaction while it sends.
KeptByNotifiers(p) ==
  Cardinality({k \in Kinds : At(p, k, "tx")})
  + Cardinality({k \in Notifiers : pc[p][k] \notin {"idle", "begin", "tx"}})

\* Every goroutine holds one in its transaction; the session reader keeps it
\* until everybody is told (notifyEnrolledStudents' deferred Rollback).
KeptOpen(p) ==
  Cardinality({k \in Kinds : At(p, k, "tx")})
  + IF pc[p]["session"] \in {"idle", "begin", "tx"} THEN 0 ELSE 1

InUse(p) == KeptOpen(p) + Cardinality({k \in Notifiers : At(p, k, "device")})

FreeConnection(p) == InUse(p) < Pool

\* BeginTx.
Acquire(p, k) ==
  /\ At(p, k, "begin")
  /\ FreeConnection(p)
  /\ Goto(p, k, "tx")
  /\ UNCHANGED <<unread, published, todo, target, pushes>>
-----------------------------------------------------------------------------
(* Handlers and readers. *)

Accept(p) ==
  /\ At(p, "handler", "idle")
  /\ published["session.started"] + published["attendance.recorded"] < MaxEvents
  /\ Goto(p, "handler", "begin")
  /\ UNCHANGED <<unread, published, todo, target, pushes>>

\* Commit or Rollback; the connection goes back.
Release(p, k) ==
  /\ k \in {"handler", "reporting"} /\ At(p, k, "tx")
  /\ Goto(p, k, "publish")
  /\ UNCHANGED <<unread, published, todo, target, pushes>>

\* Publish after the commit: StartSession, the outcomes, and the breaches that
\* the reporting consumer finds.
Publish(p, k, topic) ==
  /\ At(p, k, "publish")
  /\ IF k = "handler" THEN topic \in {"session.started", "attendance.recorded"}
                      ELSE k = "reporting" /\ topic = "threshold.breached"
  /\ Goto(p, k, "idle")
  /\ unread' = [unread EXCEPT ![topic] = @ + 1]
  /\ published' = [published EXCEPT ![topic] = @ + 1]
  /\ UNCHANGED <<todo, target, pushes>>

\* A request that only reads, or registers a device token; a student who is
\* above the threshold.
PublishNothing(p, k) ==
  /\ At(p, k, "publish")
  /\ Goto(p, k, "idle")
  /\ UNCHANGED <<unread, published, todo, target, pushes>>

\* ReadMessage: takes the next message and commits its offset at once.
ReadMessage(p, k) ==
  /\ k # "handler" /\ At(p, k, "idle")
  /\ unread[ReadsFrom(k)] > 0
  /\ unread' = [unread EXCEPT ![ReadsFrom(k)] = @ - 1]
  /\ Goto(p, k, "begin")
  /\ UNCHANGED <<published, todo, target, pushes>>

\* The session reader has its list of students, the transaction stays open.
ReadRoster(p) ==
  /\ At(p, "session", "tx")
  /\ todo' = [todo EXCEPT ![p] = Students]
  /\ Goto(p, "session", "next")
  /\ UNCHANGED <<unread, published, target, pushes>>

NextStudent(p, u) ==
  /\ At(p, "session", "next")
  /\ u \in todo[p]
  /\ todo' = [todo EXCEPT ![p] = @ \ {u}]
  /\ target' = [target EXCEPT ![p]["session"] = u]
  /\ Goto(p, "session", "lookup")
  /\ UNCHANGED <<unread, published, pushes>>

AllTold(p) ==
  /\ At(p, "session", "next")
  /\ todo[p] = {}
  /\ Goto(p, "session", "idle")
  /\ UNCHANGED <<unread, published, todo, target, pushes>>

\* The breach reader rolls its transaction back before it sends.
FindCourse(p, u) ==
  /\ At(p, "breach", "tx")
  /\ target' = [target EXCEPT ![p]["breach"] = u]
  /\ Goto(p, "breach", "lookup")
  /\ UNCHANGED <<unread, published, todo, pushes>>
-----------------------------------------------------------------------------
(* SendPushNotification. *)

PushDone(k) == IF k = "session" THEN "next" ELSE "idle"

LookupDevice(p, k) ==
  /\ At(p, k, "lookup")
  /\ FreeConnection(p)
  /\ Goto(p, k, "device")
  /\ UNCHANGED <<unread, published, todo, target, pushes>>

\* Without a registered device the push is a no-op.
FoundDevice(p, k) ==
  /\ At(p, k, "device")
  /\ Goto(p, k, "token") \/ Goto(p, k, PushDone(k))
  /\ UNCHANGED <<unread, published, todo, target, pushes>>

\* accessToken: the cached token, or its mutex is kept while a new one is
\* fetched.
AccessToken(p, k) ==
  /\ At(p, k, "token")
  /\ \A n \in Notifiers : ~At(p, n, "mint")
  /\ Goto(p, k, "send") \/ Goto(p, k, "mint")
  /\ UNCHANGED <<unread, published, todo, target, pushes>>

MintToken(p, k) ==
  /\ At(p, k, "mint")
  /\ Goto(p, k, "send")
  /\ UNCHANGED <<unread, published, todo, target, pushes>>

SendToToken(p, k) ==
  /\ At(p, k, "send")
  /\ pushes' = [pushes EXCEPT ![target[p][k]] = @ + 1]
  /\ Goto(p, k, PushDone(k))
  /\ UNCHANGED <<unread, published, todo, target>>

\* A step of a push fails or times out; its error is ignored.
PushFails(p, k) ==
  /\ k \in Notifiers
  /\ pc[p][k] \in Pushing
  /\ Goto(p, k, PushDone(k))
  /\ UNCHANGED <<unread, published, todo, target, pushes>>

\* BeginTx or a statement of the transaction fails: it is rolled back and the
\* error returned or logged, and nobody is told ...
TransactionFails(p, k) ==
  /\ k # "breach"
  /\ pc[p][k] \in {"begin", "tx"}
  /\ Goto(p, k, "idle")
  /\ UNCHANGED <<unread, published, todo, target, pushes>>

\* ... but the breach reader writes "your course" for the code that it did not
\* find.
NameFails(p, u) ==
  /\ pc[p]["breach"] \in {"begin", "tx"}
  /\ target' = [target EXCEPT ![p]["breach"] = u]
  /\ Goto(p, "breach", "lookup")
  /\ UNCHANGED <<unread, published, todo, pushes>>

\* One error in a goroutine.
Fails(p, k) ==
  \/ PushFails(p, k) \/ TransactionFails(p, k)
  \/ k = "breach" /\ \E u \in Students : NameFails(p, u)

\* One step of a goroutine that has begun.
Work(p, k) ==
  \/ Acquire(p, k) \/ Release(p, k) \/ PublishNothing(p, k)
  \/ \E topic \in Topics : Publish(p, k, topic)
  \/ k = "session" /\ (ReadRoster(p) \/ AllTold(p) \/ \E u \in Students : NextStudent(p, u))
  \/ k = "breach" /\ \E u \in Students : FindCourse(p, u)
  \/ /\ k \in Notifiers
     /\ \/ LookupDevice(p, k) \/ FoundDevice(p, k)
        \/ AccessToken(p, k) \/ MintToken(p, k) \/ SendToToken(p, k)

\* The process ends with all its goroutines.
Die(p) ==
  /\ pc' = [pc EXCEPT ![p] = Idle]
  /\ todo' = [todo EXCEPT ![p] = {}]
  /\ UNCHANGED <<unread, published, target, pushes>>

AnyStudent == CHOOSE u \in Students : TRUE

Init ==
  /\ unread = [t \in Topics |-> 0] /\ published = [t \in Topics |-> 0]
  /\ pc = [p \in Replicas |-> Idle]
  /\ todo = [p \in Replicas |-> {}]
  /\ target = [p \in Replicas |-> [k \in Notifiers |-> AnyStudent]]
  /\ pushes = [u \in Students |-> 0]
=============================================================================
