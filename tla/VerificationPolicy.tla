------------------------- MODULE VerificationPolicy -------------------------
(***************************************************************************)
(* How a check-in is judged (server/internal/verification/service.go,      *)
(* SubmitCheckin): the college's policy with its defaults, the three       *)
(* signals, and the verdict.                                               *)
(*                                                                         *)
(* Codes, networks and places are names.  A room knows its network and its *)
(* geofence, a session may bring a geofence of its own; "unset" stands for *)
(* a column that is NULL (or an empty BSSID), "partial" for an override    *)
(* that lacks one of its three columns.                                    *)
(***************************************************************************)
EXTENDS Integers, FiniteSets

Policies    == [n_required : Int, max_attempts : Int]   \* 0 when the JSON has none
Rooms       == [bssid : {"unset", "room"}, geofence : {"unset", "hall"},
                override : {"unset", "partial", "field"}]
Submissions == [code : {"current", "previous", "other"}, bssid : {"room", "home"},
                gps : {"hall", "field", "home"}]
Signals     == [code : BOOLEAN, bssid : BOOLEAN, geofence : BOOLEAN]
Verdicts    == {"accepted", "code", "bssid", "geofence", "insufficient"}

\* Mutant: only a negative value is replaced, zero asks for nothing.
KeepsZero(value) == IF value < 0 THEN 3 ELSE value

\* A value that is missing, zero or negative becomes 3.
WithDefault(value) == IF value <= 0 THEN 3 ELSE value

NRequired(policy)   == WithDefault(policy.n_required)
MaxAttempts(policy) == WithDefault(policy.max_attempts)

\* A section without a network matches every submission.
BssidMatch(room, sub) == room.bssid \in {"unset", sub.bssid}

\* The session's own geofence counts only when it is complete.
Geofence(room) == IF room.override = "field" THEN "field" ELSE room.geofence

GeofenceMatch(room, sub) == Geofence(room) \in {"unset", sub.gps}

\* The signals of a submission, when Redis answered with the codes `live`.
SignalsOf(room, live, sub) ==
  [code     |-> sub.code \in live,
   bssid    |-> BssidMatch(room, sub),
   geofence |-> GeofenceMatch(room, sub)]

Matched(sig) == Cardinality({k \in DOMAIN sig : sig[k]})

\* A rejection gives the first signal that does not match as its reason.
Verdict(policy, sig) ==
  IF Matched(sig) >= NRequired(policy) THEN "accepted"
  ELSE IF ~sig.code     THEN "code"
  ELSE IF ~sig.bssid    THEN "bssid"
  ELSE IF ~sig.geofence THEN "geofence"
  ELSE "insufficient"
=============================================================================
