----------------------------- MODULE RateLimits -----------------------------
(***************************************************************************)
(* The two counters in Redis that limit attempts, and the requests that    *)
(* race on them:                                                           *)
(*                                                                         *)
(*   "student"   failed check-ins of one student in one session:           *)
(*               SubmitCheckin (server/internal/verification/service.go)   *)
(*               reads it first and writes it after its commit             *)
(*   "address"   requests of one client address to the public routes:      *)
(*               RateLimit (server/internal/gateway/ratelimit.go)          *)
(*                                                                         *)
(* Keys do not interact: a behaviour follows one key, of either kind.      *)
(* Redis runs each command atomically; a command may fail, its handler may *)
(* die before it, and Redis may lose the key.  `life` below is the time    *)
(* from a key's first INCR until it expires or is deleted.                 *)
(*                                                                         *)
(* A request that is refused at the first look changes nothing, so it is   *)
(* not an action.                                                          *)
(***************************************************************************)
EXTENDS VerificationPolicy

CONSTANTS Requests,        \* requests in flight at once
          CollegePolicies, \* what colleges.verification_policy may hold
          SessionRooms,    \* sections and session overrides
          MaxLogins,       \* maxAttempts of RateLimit
          MaxFaults        \* bound: failed commands, deaths, lost keys

ASSUME RequestsAssumption == IsFiniteSet(Requests)
ASSUME PolicyAssumption   == CollegePolicies \subseteq Policies /\ SessionRooms \subseteq Rooms
ASSUME LimitAssumption    == MaxLogins \in Nat \ {0} /\ MaxFaults \in Nat

VARIABLES kind, policy, room,  \* fixed: which key, and what judges a check-in
          count,    \* the key; 0 when there is none
          expires,  \* has the key a time to live?
          pc,       \* next step of each request
          signals,  \* what a check-in found, and
          verdict,  \* what it made of it
          present,  \* does the student's record say present?
          passed,   \* history: failed check-ins stored, or requests let
                    \* through, in this life of the key
          faults    \* faults so far

key    == <<count, expires>>
config == <<kind, policy, room>>
locals == <<signals, verdict>>
vars   == <<config, key, pc, locals, present, passed, faults>>

Kinds     == {"student", "address"}
InFlight  == {"evaluate", "commit", "settle"}
Steps     == InFlight \cup {"idle", "expire", "arm"}
NoSignals == [code |-> FALSE, bssid |-> FALSE, geofence |-> FALSE]

Limit == MaxAttempts(policy)

At(r, step)   == pc[r] = step
Goto(r, step) == pc' = [pc EXCEPT ![r] = step]

\* The handler replies; its locals are gone.
Reply(r) ==
  /\ Goto(r, "idle")
  /\ signals' = [signals EXCEPT ![r] = NoSignals]
  /\ verdict' = [verdict EXCEPT ![r] = "none"]

Fault   == faults < MaxFaults /\ faults' = faults + 1
NoFault == UNCHANGED faults

\* Mutant: the counter is set to zero, its time to live kept.
SetToZero == count' = 0 /\ passed' = 0 /\ UNCHANGED expires

KeyGone == count' = 0 /\ expires' = FALSE /\ passed' = 0
-----------------------------------------------------------------------------
(* A check-in, from the reading of its counter to the writing of it. *)

\* Mutant: one more attempt than the policy allows.
OneTooMany == count <= Limit

BelowLimit == count < Limit

\* GET of the counter.  An error of Redis lets the request through.
StartCheckin(r) ==
  /\ kind = "student" /\ At(r, "idle")
  /\ (BelowLimit /\ NoFault) \/ Fault
  /\ Goto(r, "evaluate")
  /\ UNCHANGED <<config, key, locals, present, passed>>

\* A student who is present is refused.
Duplicate(r) ==
  /\ At(r, "evaluate")
  /\ present
  /\ Reply(r)
  /\ UNCHANGED <<config, key, present, passed, faults>>

\* The signals and the verdict.  Each GET of a code finds it, or finds nothing
\* because the code expired or Redis failed.
Evaluate(r) ==
  /\ At(r, "evaluate")
  /\ ~present
  /\ \E live \in SUBSET {"current", "previous"}, sub \in Submissions :
       LET sig == SignalsOf(room, live, sub)
       IN /\ signals' = [signals EXCEPT ![r] = sig]
          /\ verdict' = [verdict EXCEPT ![r] = Verdict(policy, sig)]
  /\ Goto(r, "commit")
  /\ UNCHANGED <<config, key, present, passed, faults>>

\* The attempt, and the record of an accepted one, are committed.
Commit(r) ==
  /\ At(r, "commit")
  /\ Goto(r, "settle")
  /\ present' = (present \/ verdict[r] = "accepted")
  /\ passed' = IF verdict[r] = "accepted" THEN passed ELSE passed + 1
  /\ UNCHANGED <<config, key, locals, faults>>

\* DEL after an accepted check-in.
Clear(r) ==
  /\ At(r, "settle")
  /\ verdict[r] = "accepted"
  /\ KeyGone
  /\ Reply(r)
  /\ UNCHANGED <<config, present, faults>>

\* INCR after a rejected one; it may fail, its error is not looked at.
Record(r) ==
  /\ At(r, "settle")
  /\ verdict[r] # "accepted"
  /\ \/ count' = count + 1 /\ NoFault
     \/ UNCHANGED count /\ Fault
  /\ Goto(r, "expire")
  /\ UNCHANGED <<config, expires, locals, present, passed>>

\* Mutant: the time to live is set for the first failure only.
FirstOnly == count = 1

HasKey == count > 0

\* EXPIRE after every INCR; on a key that is gone it does nothing.
SetExpiry(r) ==
  /\ At(r, "expire")
  /\ \/ expires' = (HasKey \/ expires) /\ NoFault
     \/ UNCHANGED expires /\ Fault
  /\ Reply(r)
  /\ UNCHANGED <<config, count, present, passed>>

Checkin(r) ==
  \/ Duplicate(r) \/ Evaluate(r) \/ Commit(r)
  \/ Clear(r) \/ Record(r) \/ SetExpiry(r)

\* A teacher records the student absent after all.
OverrideAbsent ==
  /\ present
  /\ present' = FALSE
  /\ UNCHANGED <<config, key, pc, locals, passed, faults>>
-----------------------------------------------------------------------------
(* A request to a public route. *)

\* Mutant: one more request than the limit.
AdmitsOneMore(n) == n <= MaxLogins + 1

Admits(n) == n <= MaxLogins

\* Mutant: INCR is taken to answer with the value before.
ArmsOnZero(n) == n = 0

Arms(n) == n = 1

\* INCR; the count is followed up to one above the limit.  The request that
\* created the key goes on to set its time to live.
Arrive(r) ==
  /\ kind = "address" /\ At(r, "idle")
  /\ LET n == count + 1
     IN /\ count' = IF n > MaxLogins THEN MaxLogins + 1 ELSE n
        /\ IF Arms(n) THEN Goto(r, "arm") /\ UNCHANGED passed
           ELSE UNCHANGED pc /\ passed' = passed + IF Admits(n) THEN 1 ELSE 0
  /\ UNCHANGED <<config, expires, locals, present, faults>>

\* EXPIRE of the new key, then the route's handler.
Arm(r) ==
  /\ At(r, "arm")
  /\ \/ expires' = (HasKey \/ expires) /\ NoFault
     \/ UNCHANGED expires /\ Fault
  /\ passed' = passed + 1
  /\ Goto(r, "idle")
  /\ UNCHANGED <<config, count, locals, present>>

\* INCR fails: the request is let through.
FailOpen(r) ==
  /\ kind = "address" /\ At(r, "idle")
  /\ Fault
  /\ passed' = passed + 1
  /\ UNCHANGED <<config, key, pc, locals, present>>
-----------------------------------------------------------------------------
\* The time to live has passed.
KeyExpires ==
  /\ count > 0 /\ expires
  /\ KeyGone
  /\ UNCHANGED <<config, pc, locals, present, faults>>

\* Redis restarts without the key.
KeyLost ==
  /\ count > 0
  /\ Fault
  /\ KeyGone
  /\ UNCHANGED <<config, pc, locals, present>>

\* The replica dies, the client goes away, or a statement or commit fails.
Die(r) ==
  /\ ~At(r, "idle")
  /\ Fault
  /\ Reply(r)
  /\ UNCHANGED <<config, key, present, passed>>

Init ==
  /\ kind \in Kinds /\ policy \in CollegePolicies /\ room \in SessionRooms
  /\ count = 0 /\ expires = FALSE
  /\ pc = [r \in Requests |-> "idle"]
  /\ signals = [r \in Requests |-> NoSignals]
  /\ verdict = [r \in Requests |-> "none"]
  /\ present = FALSE /\ passed = 0 /\ faults = 0

Next ==
  \/ \E r \in Requests :
       \/ StartCheckin(r) \/ Checkin(r)
       \/ Arrive(r) \/ Arm(r) \/ FailOpen(r)
       \/ Die(r)
  \/ OverrideAbsent \/ KeyExpires \/ KeyLost

\* Handlers that have started go on, and Redis expires keys; nobody has to
\* send a request.
Spec ==
  /\ Init /\ [][Next]_vars
  /\ \A r \in Requests : WF_vars(Checkin(r)) /\ WF_vars(Arm(r))
  /\ WF_vars(KeyExpires)
-----------------------------------------------------------------------------
(* Properties *)

\* The key, the requests and their locals keep their shape; only a key that is
\* there has a time to live.
TypeOK ==
  /\ kind \in Kinds /\ policy \in CollegePolicies /\ room \in SessionRooms
  /\ count \in Nat /\ expires \in BOOLEAN
  /\ expires => count > 0
  /\ pc \in [Requests -> Steps]
  /\ signals \in [Requests -> Signals]
  /\ verdict \in [Requests -> Verdicts \cup {"none"}]
  /\ present \in BOOLEAN /\ passed \in Nat /\ faults \in Nat

\* The limit on failed check-ins: SubmitCheckin looks at the counter long before
\* it increments it, so the failures stored in one life of the counter may
\* exceed the policy's limit, but by no more than the requests that ran beside
\* the one at the limit, and one for every fault.
GuessesBounded ==
  kind = "student" => passed <= Limit - 1 + Cardinality(Requests) + faults

\* The limit on public routes: INCR answers every request with a number of its
\* own, so concurrency adds nothing; only faults let more requests through.
WindowHolds ==
  kind = "address" => passed <= MaxLogins + faults

\* What a student is told holds.  A college that leaves n_required out, or sets
\* it to zero, below zero or above two, records nobody present without the code
\* of the session; nobody is sent to a network or a geofence that neither the
\* section nor the session has; only a policy that nobody can meet rejects a
\* student whose signals all match.
VerdictsHold ==
  \A r \in Requests :
    /\ verdict[r] = "accepted" /\ ~signals[r].code => policy.n_required \in 1..2
    /\ verdict[r] = "bssid" => room.bssid # "unset"
    /\ verdict[r] = "geofence" => room.geofence # "unset" \/ room.override = "field"
    /\ verdict[r] = "insufficient" => policy.n_required > 3

\* A student at the limit gets another try: every failure sets the time to live
\* again, so the block outlives its fifteen minutes only when as many faults as
\* failures have hit.
StudentIsReadmitted ==
  (kind = "student" /\ count >= Limit) ~> (count < Limit \/ faults >= Limit)

\* An address that is refused is served again, unless a fault took the one
\* EXPIRE of its window.
AddressIsReadmitted ==
  (kind = "address" /\ count > MaxLogins) ~> (count = 0 \/ faults > 0)
=============================================================================
