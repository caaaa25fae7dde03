-------------------------- MODULE RateLimitsProofs --------------------------
(***************************************************************************)
(* Proofs about RateLimits for any number of requests, any policies, any   *)
(* rooms and any number of faults.                                         *)
(*                                                                         *)
(* What is promised is a bound on `passed`; what is inductive is a balance *)
(* between it, the counter and the requests under way:                     *)
(*                                                                         *)
(*   "student"   a stored failure is in the counter, or its request is     *)
(*               still to count it, or a fault (x of them) lost it; and    *)
(*               the counter and the requests under way stay below the     *)
(*               limit plus one request each                               *)
(*   "address"   a request let through, or about to be, has a number of    *)
(*               its own, or a fault; without a fault only the request     *)
(*               that created the key sets its time to live                *)
(***************************************************************************)
EXTENDS RateLimits, FiniteSetTheorems, TLAPS

Flying == {r \in Requests : pc[r] \in InFlight}
Pend   == {r \in Requests : pc[r] = "settle" /\ verdict[r] # "accepted"}
Armed  == {r \in Requests : pc[r] = "arm"}

\* Which steps belong to which kind of key.
StepsOfKind ==
  /\ kind = "student" => \A r \in Requests : pc[r] # "arm"
  /\ kind = "address" => \A r \in Requests : pc[r] \in {"idle", "arm"}

\* The balance of a student's counter, of whose failures faults have lost x.
StudentBalance(x) ==
  /\ passed <= count + Cardinality(Pend) + x
  /\ count + Cardinality(Flying) + x <= Limit - 1 + Cardinality(Requests) + faults

StudentInv == kind = "student" => \E x \in 0..faults : StudentBalance(x)

\* The balance of an address's counter.
Numbers == IF count > MaxLogins THEN MaxLogins ELSE count
NoTimeYet == IF count > 0 /\ ~expires THEN 1 ELSE 0

AddressInv ==
  kind = "address" =>
    /\ passed + Cardinality(Armed) <= Numbers + faults
    /\ Cardinality(Armed) <= NoTimeYet + faults

\* A verdict is the policy's judgement of signals that the room can give.
VerdictInv ==
  \A r \in Requests : verdict[r] # "none" =>
    /\ verdict[r] = Verdict(policy, signals[r])
    /\ room.bssid = "unset" => signals[r].bssid
    /\ room.geofence = "unset" /\ room.override # "field" => signals[r].geofence

-----------------------------------------------------------------------------
(* The policy *)

\* Whatever the JSON of a college holds, both numbers used are above zero.
LEMMA DefaultsArePositive ==
  ASSUME NEW p \in Policies
  PROVE  /\ NRequired(p) \in Nat \ {0} /\ MaxAttempts(p) \in Nat \ {0}
         /\ NRequired(p) < 3 => p.n_required \in 1..2
         /\ NRequired(p) > 3 => p.n_required > 3
BY DEF Policies, NRequired, MaxAttempts, WithDefault

\* Without the code at most two signals match; with all of them, three.
LEMMA MatchedCounts ==
  ASSUME NEW sig \in Signals
  PROVE  /\ Matched(sig) \in Nat
         /\ ~sig.code => Matched(sig) <= 2
         /\ sig.code /\ sig.bssid /\ sig.geofence => Matched(sig) = 3
<1> DEFINE M == {k \in DOMAIN sig : sig[k]}
<1>1. DOMAIN sig = {"code", "bssid", "geofence"}
  BY DEF Signals
<1>2. IsFiniteSet({"bssid", "geofence"}) /\ Cardinality({"bssid", "geofence"}) = 2
  <2>1. {"bssid", "geofence"} = {"bssid"} \cup {"geofence"}
    OBVIOUS
  <2>2. IsFiniteSet({"bssid"}) /\ Cardinality({"bssid"}) = 1
    BY FS_Singleton
  <2> QED BY <2>1, <2>2, FS_AddElement
<1>3. IsFiniteSet(DOMAIN sig) /\ Cardinality(DOMAIN sig) = 3
  <2>1. DOMAIN sig = {"bssid", "geofence"} \cup {"code"}
    BY <1>1
  <2> QED BY <2>1, <1>2, FS_AddElement
<1>4. M \in SUBSET DOMAIN sig
  OBVIOUS
<1>5. Matched(sig) \in Nat
  BY <1>3, <1>4, FS_Subset, FS_CardinalityType DEF Matched
<1>6. ASSUME ~sig.code PROVE Matched(sig) <= 2
  <2>1. M \in SUBSET {"bssid", "geofence"}
    BY <1>1, <1>6
  <2> QED BY <2>1, <1>2, FS_Subset DEF Matched
<1>7. ASSUME sig.code, sig.bssid, sig.geofence PROVE Matched(sig) = 3
  <2>1. M = DOMAIN sig
    BY <1>1, <1>7
  <2> QED BY <2>1, <1>3 DEF Matched
<1> QED BY <1>5, <1>6, <1>7

\* Signals found in a room match wherever the room asks for nothing.
LEMMA SignalsFit ==
  ASSUME NEW rm \in Rooms, NEW live, NEW sub \in Submissions
  PROVE  /\ SignalsOf(rm, live, sub) \in Signals
         /\ rm.bssid = "unset" => SignalsOf(rm, live, sub).bssid
         /\ rm.geofence = "unset" /\ rm.override # "field" => SignalsOf(rm, live, sub).geofence
<1> DEFINE sig == SignalsOf(rm, live, sub)
<1>1. /\ sig = [code |-> sig.code, bssid |-> sig.bssid, geofence |-> sig.geofence]
      /\ sig.code = (sub.code \in live)
      /\ sig.bssid = (rm.bssid \in {"unset", sub.bssid})
      /\ sig.geofence = (Geofence(rm) \in {"unset", sub.gps})
  BY DEF SignalsOf, BssidMatch, GeofenceMatch
<1>2. sig.code \in BOOLEAN /\ sig.bssid \in BOOLEAN /\ sig.geofence \in BOOLEAN
  BY <1>1
<1>3. sig \in Signals
  BY <1>1, <1>2, Zenon DEF Signals
<1>4. rm.bssid = "unset" => sig.bssid
  BY <1>1
<1>5. rm.geofence = "unset" /\ rm.override # "field" => sig.geofence
  BY <1>1 DEF Geofence
<1> QED BY <1>3, <1>4, <1>5

\* The verdict is one of five.
LEMMA VerdictType ==
  ASSUME NEW p, NEW sig
  PROVE  Verdict(p, sig) \in Verdicts
BY DEF Verdict, Verdicts
-----------------------------------------------------------------------------
(* Type correctness *)

LEMMA InitType == Init => TypeOK
<1> SUFFICES ASSUME Init PROVE TypeOK
  OBVIOUS
<1>1. NoSignals \in Signals
  BY DEF NoSignals, Signals
<1>2. signals \in [Requests -> Signals]
  BY <1>1 DEF Init
<1>3. pc \in [Requests -> Steps]
  BY DEF Init, Steps
<1>4. verdict \in [Requests -> Verdicts \cup {"none"}]
  BY DEF Init
<1> QED BY <1>2, <1>3, <1>4 DEF Init, TypeOK

LEMMA NextType == TypeOK /\ [Next]_vars => TypeOK'
<1> SUFFICES ASSUME TypeOK, [Next]_vars PROVE TypeOK'
  OBVIOUS
<1> USE DEF TypeOK, config, key, locals
<1>1. CASE UNCHANGED vars
  BY <1>1 DEF vars
<1>2. ASSUME NEW r \in Requests, Reply(r)
      PROVE  /\ pc' \in [Requests -> Steps]
             /\ signals' \in [Requests -> Signals]
             /\ verdict' \in [Requests -> Verdicts \cup {"none"}]
  BY <1>2 DEF Reply, Goto, Steps, NoSignals, Signals
<1>3. ASSUME NEW r \in Requests, NEW s \in Steps, Goto(r, s)
      PROVE  pc' \in [Requests -> Steps]
  BY <1>3 DEF Goto
<1>4. Fault \/ NoFault => faults' \in Nat
  BY DEF Fault, NoFault
<1>5. ASSUME NEW r \in Requests, StartCheckin(r) PROVE TypeOK'
  BY <1>3, <1>4, <1>5 DEF StartCheckin, Steps, InFlight
<1>6. ASSUME NEW r \in Requests, Duplicate(r) PROVE TypeOK'
  BY <1>2, <1>6 DEF Duplicate
<1>7. ASSUME NEW r \in Requests, Evaluate(r) PROVE TypeOK'
  <2>1. PICK live \in SUBSET {"current", "previous"}, sub \in Submissions :
          /\ signals' = [signals EXCEPT ![r] = SignalsOf(room, live, sub)]
          /\ verdict' = [verdict EXCEPT ![r] = Verdict(policy, SignalsOf(room, live, sub))]
    BY <1>7 DEF Evaluate
  <2>2. SignalsOf(room, live, sub) \in Signals
    BY SignalsFit, PolicyAssumption
  <2>3. Verdict(policy, SignalsOf(room, live, sub)) \in Verdicts
    BY VerdictType
  <2>4. /\ signals' \in [Requests -> Signals]
        /\ verdict' \in [Requests -> Verdicts \cup {"none"}]
    BY <2>1, <2>2, <2>3
  <2>5. pc' \in [Requests -> Steps]
    BY <1>3, <1>7 DEF Evaluate, Steps, InFlight
  <2> QED BY <1>7, <2>4, <2>5 DEF Evaluate
<1>8. ASSUME NEW r \in Requests, Commit(r) PROVE TypeOK'
  BY <1>3, <1>8 DEF Commit, Steps, InFlight
<1>9. ASSUME NEW r \in Requests, Clear(r) PROVE TypeOK'
  BY <1>2, <1>9 DEF Clear, KeyGone
<1>10. ASSUME NEW r \in Requests, Record(r) PROVE TypeOK'
  BY <1>3, <1>4, <1>10 DEF Record, Steps
<1>11. ASSUME NEW r \in Requests, SetExpiry(r) PROVE TypeOK'
  <2>1. expires' \in BOOLEAN /\ (expires' => HasKey \/ expires)
    <3>1. expires' = (HasKey \/ expires) \/ expires' = expires
      BY <1>11 DEF SetExpiry
    <3>2. expires \in BOOLEAN /\ HasKey \in BOOLEAN
      BY DEF HasKey
    <3> HIDE DEF TypeOK
    <3> QED BY <3>1, <3>2
  <2>2. expires' => count' > 0
    BY <1>11, <2>1 DEF SetExpiry, HasKey
  <2>3. faults' \in Nat
    BY <1>4, <1>11, Zenon DEF SetExpiry
  <2> QED BY <1>2, <1>11, <2>1, <2>2, <2>3 DEF SetExpiry
<1>12. ASSUME NEW r \in Requests, Arrive(r) PROVE TypeOK'
  <2>1. count' \in Nat /\ count' > 0 /\ passed' \in Nat
    BY <1>12, LimitAssumption DEF Arrive
  <2>2. pc' \in [Requests -> Steps]
    BY <1>3, <1>12 DEF Arrive, Steps
  <2> QED BY <1>12, <2>1, <2>2 DEF Arrive
<1>13. ASSUME NEW r \in Requests, Arm(r) PROVE TypeOK'
  <2>1. expires' \in BOOLEAN /\ (expires' => HasKey \/ expires)
    <3>1. expires' = (HasKey \/ expires) \/ expires' = expires
      BY <1>13 DEF Arm
    <3>2. expires \in BOOLEAN /\ HasKey \in BOOLEAN
      BY DEF HasKey
    <3> HIDE DEF TypeOK
    <3> QED BY <3>1, <3>2
  <2>2. expires' => count' > 0
    BY <1>13, <2>1 DEF Arm, HasKey
  <2>3. faults' \in Nat
    BY <1>4, <1>13, Zenon DEF Arm
  <2> QED BY <1>3, <1>13, <2>1, <2>2, <2>3 DEF Arm, Steps
<1>14. ASSUME NEW r \in Requests, FailOpen(r) PROVE TypeOK'
  BY <1>4, <1>14 DEF FailOpen
<1>15. ASSUME NEW r \in Requests, Die(r) PROVE TypeOK'
  BY <1>2, <1>4, <1>15 DEF Die
<1>16. CASE OverrideAbsent
  BY <1>16 DEF OverrideAbsent
<1>17. CASE KeyExpires
  BY <1>17 DEF KeyExpires, KeyGone
<1>18. CASE KeyLost
  BY <1>4, <1>18 DEF KeyLost, KeyGone
<1> QED BY <1>1, <1>5, <1>6, <1>7, <1>8, <1>9, <1>10, <1>11, <1>12, <1>13, <1>14, <1>15, <1>16,
       <1>17, <1>18 DEF Next, Checkin

\* The key, the requests and their locals keep their shape, and only a key that
\* is there has a time to live.
THEOREM TypeCorrect == Spec => []TypeOK
BY InitType, NextType, PTL DEF Spec
-----------------------------------------------------------------------------
(* The verdicts *)

LEMMA NextVerdict == TypeOK /\ VerdictInv /\ [Next]_vars => VerdictInv'
<1> SUFFICES ASSUME TypeOK, VerdictInv, [Next]_vars PROVE VerdictInv'
  OBVIOUS
<1> USE DEF config, key, locals
<1>1. config' = config
  BY DEF vars, Next, Checkin, StartCheckin, Duplicate, Evaluate, Commit, Clear, Record, SetExpiry,
         Arrive, Arm, FailOpen, Die, OverrideAbsent, KeyExpires, KeyLost
<1>2. CASE UNCHANGED locals
  BY <1>1, <1>2 DEF VerdictInv
<1>3. ASSUME NEW r \in Requests, Reply(r) PROVE VerdictInv'
  BY <1>1, <1>3 DEF VerdictInv, Reply, TypeOK
<1>4. ASSUME NEW r \in Requests, Evaluate(r) PROVE VerdictInv'
  <2>1. PICK live \in SUBSET {"current", "previous"}, sub \in Submissions :
          /\ signals' = [signals EXCEPT ![r] = SignalsOf(room, live, sub)]
          /\ verdict' = [verdict EXCEPT ![r] = Verdict(policy, SignalsOf(room, live, sub))]
    BY <1>4 DEF Evaluate
  <2>2. room \in Rooms
    BY PolicyAssumption DEF TypeOK
  <2>3. /\ room.bssid = "unset" => SignalsOf(room, live, sub).bssid
        /\ room.geofence = "unset" /\ room.override # "field" => SignalsOf(room, live, sub).geofence
    BY <2>2, SignalsFit
  <2> QED BY <1>1, <2>1, <2>3 DEF VerdictInv, TypeOK
<1>5. \/ UNCHANGED locals
      \/ \E r \in Requests : Reply(r) \/ Evaluate(r)
  BY DEF vars, Next, Checkin, StartCheckin, Duplicate, Commit, Clear, Record, SetExpiry,
         Arrive, Arm, FailOpen, Die, OverrideAbsent, KeyExpires, KeyLost
<1> QED BY <1>2, <1>3, <1>4, <1>5

LEMMA VerdictsFollow == TypeOK /\ VerdictInv => VerdictsHold
<1> SUFFICES ASSUME TypeOK, VerdictInv, NEW r \in Requests, verdict[r] # "none"
             PROVE  /\ verdict[r] = "accepted" /\ ~signals[r].code => policy.n_required \in 1..2
                    /\ verdict[r] = "bssid" => room.bssid # "unset"
                    /\ verdict[r] = "geofence" => room.geofence # "unset" \/ room.override = "field"
                    /\ verdict[r] = "insufficient" => policy.n_required > 3
  BY DEF VerdictsHold
<1> DEFINE sig == signals[r]
<1>1. policy \in Policies /\ sig \in Signals
  BY PolicyAssumption DEF TypeOK
<1>2. /\ verdict[r] = Verdict(policy, sig)
      /\ room.bssid = "unset" => sig.bssid
      /\ room.geofence = "unset" /\ room.override # "field" => sig.geofence
  BY DEF VerdictInv
<1>3. /\ Matched(sig) \in Nat
      /\ ~sig.code => Matched(sig) <= 2
      /\ sig.code /\ sig.bssid /\ sig.geofence => Matched(sig) = 3
  BY <1>1, MatchedCounts
<1>4. /\ NRequired(policy) \in Nat
      /\ NRequired(policy) < 3 => policy.n_required \in 1..2
      /\ NRequired(policy) > 3 => policy.n_required > 3
  BY <1>1, DefaultsArePositive
<1> HIDE DEF sig
<1>5. verdict[r] = "accepted" => Matched(sig) >= NRequired(policy)
  BY <1>2 DEF Verdict
<1>6. verdict[r] # "accepted" => ~(Matched(sig) >= NRequired(policy))
  BY <1>2 DEF Verdict
<1>7. verdict[r] = "bssid" => ~sig.bssid
  BY <1>2 DEF Verdict
<1>8. verdict[r] = "geofence" => ~sig.geofence
  BY <1>2 DEF Verdict
<1>9. verdict[r] = "insufficient" => sig.code /\ sig.bssid /\ sig.geofence
  BY <1>2 DEF Verdict
<1> QED BY <1>2, <1>3, <1>4, <1>5, <1>6, <1>7, <1>8, <1>9 DEF sig

\* What a student is told holds, for any policy that a college may store and in
\* any room.
THEOREM VerdictsAreRight == Spec => []VerdictsHold
<1>1. Init => VerdictInv
  BY DEF Init, VerdictInv
<1> QED BY <1>1, NextVerdict, VerdictsFollow, InitType, NextType, PTL DEF Spec
-----------------------------------------------------------------------------
(* The kinds *)

LEMMA NextKind == TypeOK /\ StepsOfKind /\ [Next]_vars => StepsOfKind'
<1> SUFFICES ASSUME TypeOK, StepsOfKind, [Next]_vars PROVE StepsOfKind'
  OBVIOUS
<1> USE DEF config, key, locals, StepsOfKind, TypeOK, Kinds
<1>1. kind' = kind
  BY DEF vars, Next, Checkin, StartCheckin, Duplicate, Evaluate, Commit, Clear, Record, SetExpiry,
         Arrive, Arm, FailOpen, Die, OverrideAbsent, KeyExpires, KeyLost
<1>2. CASE UNCHANGED pc
  BY <1>1, <1>2
<1>3. ASSUME NEW r \in Requests, Goto(r, "idle") PROVE StepsOfKind'
  BY <1>1, <1>3 DEF Goto
<1>4. ASSUME NEW r \in Requests, StartCheckin(r) PROVE StepsOfKind'
  BY <1>1, <1>4 DEF StartCheckin, Goto
<1>5. ASSUME NEW r \in Requests, Evaluate(r) \/ Commit(r) \/ Record(r) PROVE StepsOfKind'
  <2>1. kind # "address" /\ \E step \in Steps \ {"arm"} : Goto(r, step)
    BY <1>5 DEF Evaluate, Commit, Record, At, Steps, InFlight
  <2> QED BY <1>1, <2>1 DEF Goto
<1>6. ASSUME NEW r \in Requests, Arrive(r) PROVE StepsOfKind'
  BY <1>1, <1>6 DEF Arrive, Goto
<1>7. \/ UNCHANGED pc
      \/ \E r \in Requests : \/ Goto(r, "idle") \/ StartCheckin(r) \/ Arrive(r)
                             \/ Evaluate(r) \/ Commit(r) \/ Record(r)
  BY DEF vars, Next, Checkin, Duplicate, Clear, SetExpiry, Reply,
         Arm, FailOpen, Die, OverrideAbsent, KeyExpires, KeyLost
<1> QED BY <1>2, <1>3, <1>4, <1>5, <1>6, <1>7
-----------------------------------------------------------------------------
(* Counting requests *)

\* A set of requests is finite, no larger than Requests, and grows and shrinks
\* by one request at a time.
LEMMA Counting ==
  ASSUME NEW S \in SUBSET Requests
  PROVE  /\ Cardinality(S) \in Nat /\ Cardinality(Requests) \in Nat
         /\ Cardinality(S) <= Cardinality(Requests)
         /\ \A T \in SUBSET S : Cardinality(T) <= Cardinality(S)
         /\ \A r \in Requests : r \in S => Cardinality(S \ {r}) = Cardinality(S) - 1
         /\ \A r \in Requests : r \notin S => Cardinality(S \cup {r}) = Cardinality(S) + 1
<1>1. IsFiniteSet(S) /\ Cardinality(S) <= Cardinality(Requests)
  BY RequestsAssumption, FS_Subset
<1>2. Cardinality(S) \in Nat /\ Cardinality(Requests) \in Nat
  BY <1>1, RequestsAssumption, FS_CardinalityType
<1>3. \A T \in SUBSET S : Cardinality(T) <= Cardinality(S)
  BY <1>1, FS_Subset
<1>4. \A r \in Requests : r \in S => Cardinality(S \ {r}) = Cardinality(S) - 1
  BY <1>1, FS_RemoveElement
<1>5. \A r \in Requests : r \notin S => Cardinality(S \cup {r}) = Cardinality(S) + 1
  BY <1>1, FS_AddElement
<1> QED BY <1>1, <1>2, <1>3, <1>4, <1>5
-----------------------------------------------------------------------------
(* The limit on an address *)

LEMMA NextAddress ==
  TypeOK /\ StepsOfKind /\ AddressInv /\ [Next]_vars => AddressInv'
<1> SUFFICES ASSUME TypeOK, StepsOfKind, AddressInv, [Next]_vars PROVE AddressInv'
  OBVIOUS
<1> SUFFICES ASSUME kind = "address"
             PROVE  /\ passed' + Cardinality(Armed') <= Numbers' + faults'
                    /\ Cardinality(Armed') <= NoTimeYet' + faults'
  <2>1. kind' = kind
    BY DEF vars, config, Next, Checkin, StartCheckin, Duplicate, Evaluate, Commit, Clear, Record,
           SetExpiry, Arrive, Arm, FailOpen, Die, OverrideAbsent, KeyExpires, KeyLost
  <2> QED BY <2>1 DEF AddressInv
<1> DEFINE a == Cardinality(Armed)
<1>1. /\ a \in Nat /\ passed \in Nat /\ faults \in Nat /\ count \in Nat
      /\ MaxLogins \in Nat \ {0} /\ (expires => count > 0)
      /\ \A r \in Requests : pc[r] \in {"idle", "arm"}
      /\ passed + a <= Numbers + faults /\ a <= NoTimeYet + faults
  BY Counting, LimitAssumption DEF Armed, TypeOK, StepsOfKind, AddressInv
<1>2. pc \in [Requests -> Steps] /\ expires \in BOOLEAN
  BY DEF TypeOK
<1>3. ASSUME NEW r \in Requests, At(r, "arm"), Goto(r, "idle")
      PROVE  Cardinality(Armed') = a - 1
  <2>1. r \in Armed /\ Armed' = Armed \ {r}
    BY <1>2, <1>3 DEF Armed, At, Goto
  <2> QED BY <2>1, Counting DEF Armed
<1>4. UNCHANGED pc => Cardinality(Armed') = a
  BY DEF Armed
<1> HIDE DEF a
<1> USE DEF Numbers, NoTimeYet, key
<1>5. CASE UNCHANGED vars \/ OverrideAbsent
  BY <1>1, <1>4, <1>5 DEF vars, OverrideAbsent
<1>6. ASSUME NEW r \in Requests, Arrive(r)
      PROVE  /\ passed' + Cardinality(Armed') <= Numbers' + faults'
             /\ Cardinality(Armed') <= NoTimeYet' + faults'
  <2>1. CASE Arms(count + 1)
    <3>1. Cardinality(Armed') = a + 1
      <4>1. r \notin Armed /\ Armed' = Armed \cup {r}
        BY <1>2, <1>6, <2>1 DEF Arrive, Armed, At, Goto
      <4> QED BY <4>1, Counting DEF Armed, a
    <3>2. count = 0 /\ count' = 1 /\ ~expires
      BY <1>1, <1>6, <2>1 DEF Arrive, Arms
    <3> QED BY <1>1, <1>6, <2>1, <3>1, <3>2 DEF Arrive
  <2>2. CASE ~Arms(count + 1)
    <3>1. count > 0 /\ UNCHANGED <<pc, expires, faults>>
      BY <1>1, <1>6, <2>2 DEF Arrive, Arms
    <3>2. Cardinality(Armed') = a
      BY <1>4, <3>1
    <3>3. CASE count < MaxLogins
      <4>1. count' = count + 1 /\ passed' = passed + 1
        BY <1>1, <1>6, <2>2, <3>3 DEF Arrive, Admits
      <4>2. Numbers' = Numbers + 1 /\ NoTimeYet' = NoTimeYet
        BY <1>1, <3>1, <3>3, <4>1
      <4> QED BY <1>1, <3>1, <3>2, <4>1, <4>2
    <3>4. CASE count >= MaxLogins
      <4>1. count' = MaxLogins + 1 /\ passed' = passed
        BY <1>1, <1>6, <2>2, <3>4 DEF Arrive, Admits
      <4>2. Numbers' = Numbers /\ NoTimeYet' = NoTimeYet
        BY <1>1, <3>1, <3>4, <4>1
      <4> QED BY <1>1, <3>1, <3>2, <4>1, <4>2
    <3> QED BY <1>1, <3>3, <3>4
  <2> QED BY <2>1, <2>2
<1>7. ASSUME NEW r \in Requests, Arm(r)
      PROVE  /\ passed' + Cardinality(Armed') <= Numbers' + faults'
             /\ Cardinality(Armed') <= NoTimeYet' + faults'
  <2>1. /\ Cardinality(Armed') = a - 1 /\ passed' = passed + 1
        /\ Numbers' = Numbers
    BY <1>3, <1>7 DEF Arm
  <2>2. CASE NoFault /\ expires' = (HasKey \/ expires)
    <3>1. CASE count > 0
      <4>1. NoTimeYet <= 1 /\ NoTimeYet \in Nat
        BY <1>1
      <4> HIDE DEF Numbers, NoTimeYet
      <4>2. NoTimeYet' = 0 /\ Numbers \in Nat
        BY <1>1, <2>2, <3>1 DEF NoTimeYet, Numbers, HasKey
      <4>3. faults' = faults /\ a <= 1 + faults /\ passed + a <= Numbers + faults
        BY <1>1, <2>2, <4>1 DEF NoFault
      <4>4. a \in Nat /\ passed \in Nat /\ faults \in Nat
        BY <1>1
      <4>5. passed' + Cardinality(Armed') <= Numbers' + faults'
        BY <2>1, <4>2, <4>3, <4>4
      <4>6. Cardinality(Armed') <= NoTimeYet' + faults'
        BY <2>1, <4>2, <4>3, <4>4
      <4> QED BY <4>5, <4>6
    <3>2. CASE count = 0
      <4>1. NoTimeYet = 0 /\ NoTimeYet' = 0 /\ Numbers \in Nat
        BY <1>1, <1>7, <3>2 DEF Arm
      <4> HIDE DEF Numbers, NoTimeYet
      <4> QED BY <1>1, <2>1, <2>2, <4>1 DEF NoFault
    <3> QED BY <1>1, <3>1, <3>2
  <2>3. CASE Fault /\ UNCHANGED expires
    <3>1. NoTimeYet' = NoTimeYet /\ NoTimeYet \in Nat /\ Numbers \in Nat
      BY <1>1, <1>7, <2>3 DEF Arm
    <3> HIDE DEF Numbers, NoTimeYet
    <3> QED BY <1>1, <2>1, <2>3, <3>1 DEF Fault
  <2> QED BY <1>7, <2>2, <2>3 DEF Arm
<1>8. ASSUME NEW r \in Requests, FailOpen(r)
      PROVE  /\ passed' + Cardinality(Armed') <= Numbers' + faults'
             /\ Cardinality(Armed') <= NoTimeYet' + faults'
  BY <1>1, <1>4, <1>8 DEF FailOpen, Fault
<1>9. ASSUME NEW r \in Requests, Die(r)
      PROVE  /\ passed' + Cardinality(Armed') <= Numbers' + faults'
             /\ Cardinality(Armed') <= NoTimeYet' + faults'
  <2>1. Cardinality(Armed') = a - 1
    BY <1>1, <1>3, <1>9 DEF Die, Reply, At
  <2>2. UNCHANGED <<count, expires, passed>> /\ faults' = faults + 1
    BY <1>9 DEF Die, Fault
  <2> QED BY <1>1, <2>1, <2>2
<1>10. CASE KeyExpires
  <2>1. a <= faults /\ passed' = 0 /\ count' = 0 /\ expires' = FALSE /\ faults' = faults
    BY <1>1, <1>10 DEF KeyExpires, KeyGone
  <2>2. UNCHANGED pc
    BY <1>10 DEF KeyExpires
  <2> QED BY <1>1, <1>4, <2>1, <2>2
<1>11. CASE KeyLost
  <2>1. a <= 1 + faults /\ passed' = 0 /\ count' = 0 /\ expires' = FALSE /\ faults' = faults + 1
    BY <1>1, <1>11 DEF KeyLost, KeyGone, Fault
  <2>2. UNCHANGED pc
    BY <1>11 DEF KeyLost
  <2> QED BY <1>1, <1>4, <2>1, <2>2
<1>12. \A r \in Requests : ~StartCheckin(r) /\ ~Checkin(r)
  BY <1>1 DEF StartCheckin, Checkin, Duplicate, Evaluate, Commit, Clear, Record, SetExpiry, At
<1> QED BY <1>5, <1>6, <1>7, <1>8, <1>9, <1>10, <1>11, <1>12 DEF Next

\* However requests of one address interleave, the public routes let through no
\* more than the limit and one for each fault.
THEOREM WindowIsHeld == Spec => []WindowHolds
<1>1. Init => StepsOfKind /\ AddressInv
  <2> SUFFICES ASSUME Init PROVE StepsOfKind /\ AddressInv
    OBVIOUS
  <2>1. Armed = {}
    BY DEF Init, Armed
  <2> QED BY <2>1, FS_EmptySet, LimitAssumption
      DEF Init, StepsOfKind, AddressInv, Numbers, NoTimeYet
<1>2. TypeOK /\ AddressInv => WindowHolds
  <2> SUFFICES ASSUME TypeOK, AddressInv, kind = "address"
               PROVE  passed <= MaxLogins + faults
    BY DEF WindowHolds
  <2>1. /\ Cardinality(Armed) \in Nat /\ passed \in Nat /\ faults \in Nat /\ count \in Nat
        /\ MaxLogins \in Nat
    BY Counting, LimitAssumption DEF Armed, TypeOK
  <2> QED BY <2>1 DEF AddressInv, Numbers
<1> QED BY <1>1, <1>2, NextAddress, NextKind, InitType, NextType, PTL DEF Spec
-----------------------------------------------------------------------------
(* The limit on a student *)

\* What a request that leaves the counter does to the two sets.
LEMMA Landing ==
  ASSUME TypeOK, NEW r \in Requests, pc[r] \in InFlight,
         NEW s \in Steps \ InFlight, Goto(r, s),
         \A q \in Requests \ {r} : verdict'[q] = verdict[q]
  PROVE  /\ Cardinality(Flying') = Cardinality(Flying) - 1
         /\ r \in Pend    => Cardinality(Pend') = Cardinality(Pend) - 1
         /\ r \notin Pend => Cardinality(Pend') = Cardinality(Pend)
<1>1. Flying' = Flying \ {r} /\ r \in Flying
  BY DEF TypeOK, Flying, Goto
<1>2. Pend' = Pend \ {r}
  BY DEF TypeOK, Pend, Goto, InFlight
<1>3. Cardinality(Flying') = Cardinality(Flying) - 1
  BY <1>1, Counting DEF Flying
<1>4. r \in Pend => Cardinality(Pend') = Cardinality(Pend) - 1
  BY <1>2, Counting DEF Pend
<1>5. r \notin Pend => Pend' = Pend
  BY <1>2
<1> QED BY <1>3, <1>4, <1>5

LEMMA NextStudent ==
  TypeOK /\ StepsOfKind /\ StudentInv /\ [Next]_vars => StudentInv'
<1> SUFFICES ASSUME TypeOK, StepsOfKind, StudentInv, [Next]_vars PROVE StudentInv'
  OBVIOUS
<1> SUFFICES ASSUME kind = "student"
             PROVE  \E y \in 0..faults' : StudentBalance(y)'
  <2>1. kind' = kind
    BY DEF vars, config, Next, Checkin, StartCheckin, Duplicate, Evaluate, Commit, Clear, Record,
           SetExpiry, Arrive, Arm, FailOpen, Die, OverrideAbsent, KeyExpires, KeyLost
  <2> QED BY <2>1 DEF StudentInv
<1> PICK x \in 0..faults : StudentBalance(x)
  BY DEF StudentInv
<1> DEFINE f == Cardinality(Flying)
           p == Cardinality(Pend)
           n == Cardinality(Requests)
<1>1. /\ f \in Nat /\ p \in Nat /\ n \in Nat /\ x \in Nat /\ x <= faults /\ f <= n
      /\ passed \in Nat /\ faults \in Nat /\ count \in Nat /\ Limit \in Nat \ {0}
      /\ passed <= count + p + x
      /\ count + f + x <= Limit - 1 + n + faults
  <2>1. policy \in Policies
    BY PolicyAssumption DEF TypeOK
  <2> QED BY <2>1, Counting, DefaultsArePositive DEF Flying, Pend, TypeOK, StudentBalance, Limit
<1>2. Cardinality(Flying') \in Nat /\ Cardinality(Pend') \in Nat /\ Cardinality(Flying') <= n
  <2>1. Flying' \in SUBSET Requests /\ Pend' \in SUBSET Requests
    BY DEF Flying, Pend
  <2> QED BY <2>1, Counting
<1>3. Limit' = Limit
  BY DEF Limit, vars, config, Next, Checkin, StartCheckin, Duplicate, Evaluate, Commit, Clear, Record,
         SetExpiry, Arrive, Arm, FailOpen, Die, OverrideAbsent, KeyExpires, KeyLost
<1>4. ASSUME NEW y \in Nat, y <= faults', faults' \in Nat,
             passed' <= count' + Cardinality(Pend') + y,
             count' + Cardinality(Flying') + y <= Limit - 1 + n + faults'
      PROVE  \E z \in 0..faults' : StudentBalance(z)'
  BY <1>3, <1>4 DEF StudentBalance
<1>5. UNCHANGED <<pc, verdict>> => Cardinality(Flying') = f /\ Cardinality(Pend') = p
  BY DEF Flying, Pend
<1>6. pc \in [Requests -> Steps] /\ verdict \in [Requests -> Verdicts \cup {"none"}]
  BY DEF TypeOK
<1> USE DEF key, locals
\* Without a key nothing has passed, and only the requests count.
<1>7. ASSUME KeyGone, faults' >= faults, faults' \in Nat
      PROVE  \E z \in 0..faults' : StudentBalance(z)'
  BY <1>1, <1>2, <1>4, <1>7 DEF KeyGone
<1>8. CASE UNCHANGED vars \/ OverrideAbsent
  <2>1. UNCHANGED <<pc, verdict, count, passed, faults>>
    BY <1>8 DEF vars, OverrideAbsent
  <2> QED BY <1>1, <1>4, <1>5, <2>1
<1>9. ASSUME NEW r \in Requests, StartCheckin(r)
      PROVE  \E z \in 0..faults' : StudentBalance(z)'
  <2>1. Flying' = Flying \cup {r} /\ r \notin Flying /\ Pend' = Pend
    BY <1>6, <1>9 DEF StartCheckin, Flying, Pend, At, Goto, InFlight
  <2>2. Cardinality(Flying') = f + 1 /\ Cardinality(Pend') = p
    BY <2>1, Counting DEF Flying
  <2>3. count' = count /\ passed' = passed
    BY <1>9 DEF StartCheckin
  <2>4. CASE BelowLimit /\ NoFault
    BY <1>1, <1>2, <1>4, <2>2, <2>3, <2>4 DEF BelowLimit, NoFault
  <2>5. CASE Fault
    BY <1>1, <1>4, <2>2, <2>3, <2>5 DEF Fault
  <2> QED BY <1>9, <2>4, <2>5 DEF StartCheckin
<1>10. ASSUME NEW r \in Requests, Duplicate(r)
       PROVE  \E z \in 0..faults' : StudentBalance(z)'
  <2>1. Cardinality(Flying') = f - 1 /\ Cardinality(Pend') = p
    <3>1. r \notin Pend /\ pc[r] \in InFlight /\ Goto(r, "idle")
      BY <1>10 DEF Duplicate, Reply, At, Pend, InFlight
    <3>2. \A q \in Requests \ {r} : verdict'[q] = verdict[q]
      BY <1>6, <1>10 DEF Duplicate, Reply
    <3> QED BY <3>1, <3>2, Landing DEF Steps, InFlight
  <2>2. UNCHANGED <<count, passed, faults>>
    BY <1>10 DEF Duplicate
  <2> QED BY <1>1, <1>4, <2>1, <2>2
<1>11. ASSUME NEW r \in Requests, Evaluate(r)
       PROVE  \E z \in 0..faults' : StudentBalance(z)'
  <2>1. Flying' = Flying
    BY <1>6, <1>11 DEF Evaluate, Flying, At, Goto, InFlight
  <2>2. Pend' = Pend
    <3>1. \A q \in Requests \ {r} : verdict'[q] = verdict[q]
      BY <1>6, <1>11 DEF Evaluate
    <3> QED BY <1>6, <1>11, <3>1 DEF Evaluate, Pend, At, Goto
  <2>3. UNCHANGED <<count, passed, faults>>
    BY <1>11 DEF Evaluate
  <2> QED BY <1>1, <1>4, <2>1, <2>2, <2>3
<1>12. ASSUME NEW r \in Requests, Commit(r)
       PROVE  \E z \in 0..faults' : StudentBalance(z)'
  <2>1. Flying' = Flying
    BY <1>6, <1>12 DEF Commit, Flying, At, Goto, InFlight
  <2>2. UNCHANGED <<count, faults>>
    BY <1>12 DEF Commit
  <2>3. CASE verdict[r] = "accepted"
    <3>1. Pend' = Pend
      BY <1>6, <1>12, <2>3 DEF Commit, Pend, At, Goto
    <3>2. passed' = passed
      BY <1>12, <2>3 DEF Commit
    <3> QED BY <1>1, <1>4, <2>1, <2>2, <3>1, <3>2
  <2>4. CASE verdict[r] # "accepted"
    <3>1. Pend' = Pend \cup {r} /\ r \notin Pend
      BY <1>6, <1>12, <2>4 DEF Commit, Pend, At, Goto
    <3>2. Cardinality(Pend') = p + 1
      BY <3>1, Counting DEF Pend
    <3>3. passed' = passed + 1
      BY <1>12, <2>4 DEF Commit
    <3> QED BY <1>1, <1>4, <2>1, <2>2, <3>2, <3>3
  <2> QED BY <2>3, <2>4
<1>13. ASSUME NEW r \in Requests, Clear(r)
       PROVE  \E z \in 0..faults' : StudentBalance(z)'
  BY <1>1, <1>7, <1>13 DEF Clear
<1>14. ASSUME NEW r \in Requests, Record(r)
       PROVE  \E z \in 0..faults' : StudentBalance(z)'
  <2>1. Cardinality(Flying') = f - 1 /\ Cardinality(Pend') = p - 1
    <3>1. r \in Pend /\ pc[r] \in InFlight /\ Goto(r, "expire")
      BY <1>14 DEF Record, At, Pend, InFlight
    <3>2. \A q \in Requests \ {r} : verdict'[q] = verdict[q]
      BY <1>14 DEF Record
    <3> QED BY <3>1, <3>2, Landing DEF Steps, InFlight
  <2>2. passed' = passed
    BY <1>14 DEF Record
  <2>3. CASE count' = count + 1 /\ NoFault
    BY <1>1, <1>4, <2>1, <2>2, <2>3 DEF NoFault
  <2>4. CASE UNCHANGED count /\ Fault
    <3>1. x + 1 \in Nat /\ x + 1 <= faults' /\ faults' \in Nat
      BY <1>1, <2>4 DEF Fault
    <3>2. passed' <= count' + Cardinality(Pend') + (x + 1)
      BY <1>1, <2>1, <2>2, <2>4
    <3>3. count' + Cardinality(Flying') + (x + 1) <= Limit - 1 + n + faults'
      BY <1>1, <2>1, <2>4 DEF Fault
    <3> QED BY <1>4, <3>1, <3>2, <3>3
  <2> QED BY <1>14, <2>3, <2>4 DEF Record
<1>15. ASSUME NEW r \in Requests, SetExpiry(r)
       PROVE  \E z \in 0..faults' : StudentBalance(z)'
  <2>1. Flying' = Flying /\ Pend' = Pend
    BY <1>6, <1>15 DEF SetExpiry, Reply, Flying, Pend, At, Goto, InFlight
  <2>2. UNCHANGED <<count, passed>>
    BY <1>15 DEF SetExpiry
  <2>3. faults' \in {faults, faults + 1}
    BY <1>15 DEF SetExpiry, NoFault, Fault
  <2> QED BY <1>1, <1>4, <2>1, <2>2, <2>3
<1>16. ASSUME NEW r \in Requests, Die(r)
       PROVE  \E z \in 0..faults' : StudentBalance(z)'
  <2>1. UNCHANGED <<count, passed>> /\ faults' = faults + 1
    BY <1>16 DEF Die, Fault
  <2>2. Cardinality(Flying') <= f /\ p <= Cardinality(Pend') + 1
    <3>1. \A q \in Requests \ {r} : verdict'[q] = verdict[q]
      BY <1>6, <1>16 DEF Die, Reply
    <3>2. CASE pc[r] \in InFlight
      BY <1>1, <1>16, <3>1, <3>2, Landing DEF Die, Reply, Steps, InFlight
    <3>3. CASE pc[r] \notin InFlight
      <4>1. Flying' = Flying /\ Pend' = Pend
        BY <1>6, <1>16, <3>1, <3>3 DEF Die, Reply, Flying, Pend, Goto, InFlight
      <4> QED BY <1>1, <4>1
    <3> QED BY <3>2, <3>3
  <2>3. passed' <= count' + Cardinality(Pend') + (x + 1)
    BY <1>1, <1>2, <2>1, <2>2
  <2>4. count' + Cardinality(Flying') + (x + 1) <= Limit - 1 + n + faults'
    BY <1>1, <1>2, <2>1, <2>2
  <2>5. x + 1 \in Nat /\ x + 1 <= faults' /\ faults' \in Nat
    BY <1>1, <2>1
  <2> QED BY <1>4, <2>3, <2>4, <2>5
<1>17. CASE KeyExpires \/ KeyLost
  BY <1>1, <1>7, <1>17 DEF KeyExpires, KeyLost, Fault
<1>18. \A r \in Requests : ~Arrive(r) /\ ~Arm(r) /\ ~FailOpen(r)
  BY DEF StepsOfKind, Arrive, Arm, FailOpen, At
<1> QED BY <1>8, <1>9, <1>10, <1>11, <1>12, <1>13, <1>14, <1>15, <1>16, <1>17, <1>18
    DEF Next, Checkin

\* However the check-ins of one student interleave, the failures stored in one
\* life of the counter exceed the policy's limit by no more than the requests
\* beside the last one, and one for each fault.
THEOREM GuessesAreBounded == Spec => []GuessesBounded
<1>1. Init => StepsOfKind /\ StudentInv
  <2> SUFFICES ASSUME Init PROVE StepsOfKind /\ StudentInv
    OBVIOUS
  <2>1. Flying = {} /\ Pend = {}
    BY DEF Init, Flying, Pend, InFlight
  <2>2. Limit \in Nat \ {0}
    <3>1. policy \in Policies
      BY PolicyAssumption DEF Init
    <3> QED BY <3>1, DefaultsArePositive DEF Limit
  <2>3. Cardinality({}) = 0 /\ Cardinality(Requests) \in Nat
    BY FS_EmptySet, RequestsAssumption, FS_CardinalityType
  <2>4. faults = 0 /\ count = 0 /\ passed = 0
    BY DEF Init
  <2>5. StudentBalance(0)
    BY <2>1, <2>2, <2>3, <2>4 DEF StudentBalance
  <2> QED BY <2>4, <2>5 DEF Init, StepsOfKind, StudentInv
<1>2. TypeOK /\ StudentInv => GuessesBounded
  <2> SUFFICES ASSUME TypeOK, StudentInv, kind = "student"
               PROVE  passed <= Limit - 1 + Cardinality(Requests) + faults
    BY DEF GuessesBounded
  <2>1. PICK x \in 0..faults : StudentBalance(x)
    BY DEF StudentInv
  <2>2. Cardinality(Pend) <= Cardinality(Flying)
    <3>1. Pend \in SUBSET Flying /\ Flying \in SUBSET Requests
      BY DEF Pend, Flying, InFlight
    <3> QED BY <3>1, Counting
  <2>3. /\ Cardinality(Pend) \in Nat /\ Cardinality(Flying) \in Nat
        /\ Cardinality(Requests) \in Nat /\ Limit \in Nat
    <3>1. policy \in Policies
      BY PolicyAssumption DEF TypeOK
    <3> QED BY <3>1, Counting, DefaultsArePositive DEF Pend, Flying, Limit
  <2>4. passed \in Nat /\ count \in Nat /\ faults \in Nat
    BY DEF TypeOK
  <2> QED BY <2>1, <2>2, <2>3, <2>4 DEF StudentBalance
<1> QED BY <1>1, <1>2, NextStudent, NextKind, InitType, NextType, PTL DEF Spec
-----------------------------------------------------------------------------
(* The end of a block *)

Expiring == {r \in Requests : pc[r] = "expire"}

\* A counter without a time to live has somebody who is about to set it, or
\* faults to answer for that: one for each failure that a student's counter holds,
\* any at all for an address.
BlocksEnd ==
  count > 0 /\ ~expires =>
    /\ kind = "student" => count <= Cardinality(Expiring) + faults
    /\ kind = "address" => Armed # {} \/ faults > 0

LEMMA NextBlock == TypeOK /\ StepsOfKind /\ BlocksEnd /\ [Next]_vars => BlocksEnd'
<1> SUFFICES ASSUME TypeOK, StepsOfKind, BlocksEnd, [Next]_vars PROVE BlocksEnd'
  OBVIOUS
<1> DEFINE e == Cardinality(Expiring)
<1> USE DEF key, locals
<1>1. /\ kind \in Kinds /\ kind' = kind /\ count \in Nat /\ faults \in Nat /\ expires \in BOOLEAN
      /\ e \in Nat /\ pc \in [Requests -> Steps]
  <2>1. kind' = kind
    BY DEF vars, config, Next, Checkin, StartCheckin, Duplicate, Evaluate, Commit, Clear, Record,
           SetExpiry, Arrive, Arm, FailOpen, Die, OverrideAbsent, KeyExpires, KeyLost
  <2> QED BY <2>1, Counting DEF TypeOK, Expiring
<1>2. ASSUME KeyGone PROVE BlocksEnd'
  BY <1>2 DEF KeyGone, BlocksEnd
\* Steps that leave the key, and those who are about to set its time to live.
<1>3. ASSUME UNCHANGED <<count, expires>>, Expiring' = Expiring, Armed' = Armed,
             faults' \in {faults, faults + 1}
      PROVE  BlocksEnd'
  BY <1>1, <1>3 DEF BlocksEnd
<1>4. ASSUME UNCHANGED <<count, expires, pc>>, faults' \in {faults, faults + 1} PROVE BlocksEnd'
  <2>1. Expiring' = Expiring /\ Armed' = Armed
    BY <1>4 DEF Expiring, Armed
  <2> QED BY <1>3, <1>4, <2>1
<1>5. ASSUME NEW r \in Requests, NEW s \in Steps \ {"expire", "arm"}, Goto(r, s),
             pc[r] \notin {"expire", "arm"}
      PROVE  Expiring' = Expiring /\ Armed' = Armed
  BY <1>1, <1>5 DEF Goto, Expiring, Armed
<1>6. ASSUME NEW r \in Requests,
             StartCheckin(r) \/ Duplicate(r) \/ Evaluate(r) \/ Commit(r)
      PROVE  BlocksEnd'
  <2>1. /\ UNCHANGED <<count, expires>> /\ faults' \in {faults, faults + 1}
        /\ pc[r] \notin {"expire", "arm"}
        /\ \E s \in Steps \ {"expire", "arm"} : Goto(r, s)
    BY <1>6 DEF StartCheckin, Duplicate, Evaluate, Commit, Reply, Fault, NoFault, At, Steps, InFlight
  <2> QED BY <1>3, <1>5, <2>1
<1>7. ASSUME NEW r \in Requests, Record(r) PROVE BlocksEnd'
  <2>1. Expiring' = Expiring \cup {r} /\ r \notin Expiring /\ kind # "address"
    BY <1>1, <1>7 DEF Record, At, Goto, Expiring, StepsOfKind
  <2>2. Cardinality(Expiring') = e + 1
    BY <2>1, Counting DEF Expiring
  <2>3. /\ expires' = expires
        /\ \/ count' = count + 1 /\ faults' = faults
           \/ count' = count /\ faults' = faults + 1
    BY <1>7 DEF Record, NoFault, Fault
  <2> QED BY <1>1, <2>1, <2>2, <2>3 DEF BlocksEnd
<1>8. ASSUME NEW r \in Requests, SetExpiry(r) \/ (pc[r] = "expire" /\ Die(r)) PROVE BlocksEnd'
  <2>1. Expiring' = Expiring \ {r} /\ r \in Expiring /\ kind # "address"
    BY <1>1, <1>8 DEF SetExpiry, Die, Reply, At, Goto, Expiring, StepsOfKind
  <2>2. Cardinality(Expiring') = e - 1
    BY <2>1, Counting DEF Expiring
  <2>3. count' = count
    BY <1>8 DEF SetExpiry, Die
  <2>4. \/ expires' = (HasKey \/ expires)
        \/ expires' = expires /\ faults' = faults + 1
    BY <1>8 DEF SetExpiry, Die, Fault
  <2>5. expires' = (HasKey \/ expires) => BlocksEnd'
    BY <2>3 DEF BlocksEnd, HasKey
  <2>6. expires' = expires /\ faults' = faults + 1 => BlocksEnd'
    BY <1>1, <2>1, <2>2, <2>3 DEF BlocksEnd
  <2> QED BY <2>4, <2>5, <2>6
<1>9. ASSUME NEW r \in Requests, pc[r] # "expire", Die(r) PROVE BlocksEnd'
  <2>1. /\ UNCHANGED <<count, expires>> /\ faults' = faults + 1 /\ Goto(r, "idle")
    BY <1>9 DEF Die, Fault, Reply
  <2>2. Expiring' = Expiring
    BY <1>1, <1>9, <2>1 DEF Goto, Expiring
  <2> QED BY <1>1, <2>1, <2>2 DEF BlocksEnd
<1>10. ASSUME NEW r \in Requests, Arrive(r) PROVE BlocksEnd'
  <2>1. kind = "address" /\ expires' = expires /\ faults' = faults
    BY <1>10 DEF Arrive
  <2>2. CASE count = 0
    <3>1. pc'[r] = "arm"
      BY <1>1, <1>10, <2>2 DEF Arrive, Arms, Goto
    <3> QED BY <1>1, <2>1, <3>1 DEF BlocksEnd, Armed
  <2>3. CASE count > 0
    <3>1. Armed' = Armed
      BY <1>1, <1>10, <2>3 DEF Arrive, Arms, Armed
    <3> QED BY <1>1, <2>1, <2>3, <3>1 DEF BlocksEnd
  <2> QED BY <1>1, <2>2, <2>3
<1>11. ASSUME NEW r \in Requests, Arm(r) PROVE BlocksEnd'
  <2>1. kind # "student" /\ count' = count
    BY <1>1, <1>11 DEF Arm, At, StepsOfKind
  <2>2. expires' = (HasKey \/ expires) => BlocksEnd'
    BY <2>1 DEF BlocksEnd, HasKey
  <2>3. faults' = faults + 1 => BlocksEnd'
    BY <1>1, <2>1 DEF BlocksEnd
  <2> QED BY <1>11, <2>2, <2>3 DEF Arm, Fault
<1>12. CASE UNCHANGED vars \/ OverrideAbsent
  BY <1>4, <1>12 DEF vars, OverrideAbsent
<1>13. ASSUME NEW r \in Requests, FailOpen(r) PROVE BlocksEnd'
  BY <1>4, <1>13 DEF FailOpen, Fault
<1>14. CASE KeyExpires \/ KeyLost \/ \E r \in Requests : Clear(r)
  BY <1>2, <1>14 DEF KeyExpires, KeyLost, Clear
<1> QED BY <1>6, <1>7, <1>8, <1>9, <1>10, <1>11, <1>12, <1>13, <1>14 DEF Next, Checkin

\* Neither a student nor an address is blocked for good by a race: whoever left the
\* counter without a time to live is under way to set it, unless a fault hit it.
\* The part of StudentIsReadmitted and AddressIsReadmitted that fairness
\* turns into liveness.
THEOREM NoBlockForGood == Spec => []BlocksEnd
<1>1. Init => StepsOfKind /\ BlocksEnd
  BY DEF Init, StepsOfKind, BlocksEnd
<1> QED BY <1>1, NextBlock, NextKind, InitType, NextType, PTL DEF Spec

\* At the limit nobody but by a fault starts one more check-in, so that those
\* that set the time to live again come to an end; and the counter leaves the limit
\* only by its key going, by expiry or after an accepted check-in.
Drains ==
  kind = "student" /\ count >= Limit /\ UNCHANGED faults =>
    Flying' \subseteq Flying /\ (count' = 0 \/ count' >= count)

BlockedDrain == [][Drains]_vars

\* A block is not renewed by the requests that it refuses.
THEOREM BlocksAreNotRenewed == Spec => BlockedDrain
<1>1. TypeOK /\ StepsOfKind /\ [Next]_vars => [Drains]_vars
  <2> SUFFICES ASSUME TypeOK, StepsOfKind, Next, kind = "student", count >= Limit, faults' = faults
               PROVE  Flying' \subseteq Flying /\ (count' = 0 \/ count' >= count)
    BY DEF Drains
  <2> USE DEF key, locals
  <2>1. count \in Nat /\ faults \in Nat /\ pc \in [Requests -> Steps] /\ Limit \in Nat
    <3>1. policy \in Policies
      BY PolicyAssumption DEF TypeOK
    <3> QED BY <3>1, DefaultsArePositive DEF TypeOK, Limit
  <2>2. ASSUME NEW r \in Requests, StartCheckin(r) PROVE FALSE
    BY <2>1, <2>2 DEF StartCheckin, BelowLimit, Fault
  <2>3. ASSUME NEW r \in Requests, NEW s \in Steps, Goto(r, s), s \in InFlight => pc[r] \in InFlight
        PROVE  Flying' \subseteq Flying
    BY <2>1, <2>3 DEF Goto, Flying
  <2>4. ASSUME NEW r \in Requests, Checkin(r) \/ Die(r) PROVE Flying' \subseteq Flying
    <3>1. \E s \in Steps : Goto(r, s) /\ (s \in InFlight => pc[r] \in InFlight)
      BY <2>4 DEF Checkin, Die, Duplicate, Evaluate, Commit, Clear, Record, SetExpiry, Reply, At, Steps,
           InFlight
    <3> QED BY <2>3, <3>1
  <2>5. ASSUME NEW r \in Requests, Checkin(r) \/ Die(r) PROVE count' = 0 \/ count' >= count
    BY <2>1, <2>5 DEF Checkin, Die, Duplicate, Evaluate, Commit, Clear, Record, SetExpiry, KeyGone
  <2>6. CASE OverrideAbsent \/ KeyExpires \/ KeyLost
    BY <2>1, <2>6 DEF OverrideAbsent, KeyExpires, KeyLost, KeyGone, Flying
  <2>7. \A r \in Requests : ~Arrive(r) /\ ~Arm(r) /\ ~FailOpen(r)
    BY DEF StepsOfKind, Arrive, Arm, FailOpen, At
  <2> QED BY <2>2, <2>4, <2>5, <2>6, <2>7 DEF Next
<1>2. Init => StepsOfKind
  BY DEF Init, StepsOfKind
<1> QED BY <1>1, <1>2, NextKind, InitType, NextType, PTL DEF Spec, BlockedDrain
=============================================================================
