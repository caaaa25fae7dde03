---------------------------- MODULE MCRateLimits ----------------------------
(* Small colleges: the default policy, two of three signals, and a policy    *)
(* nobody can meet; a bare room, and one whose override is partial or whole. *)
EXTENDS RateLimits

SmallPolicies ==
  { [n_required |-> 0, max_attempts |-> 0], [n_required |-> 2, max_attempts |-> 2],
    [n_required |-> 4, max_attempts |-> -1] }

SmallRooms ==
  { [bssid |-> "unset", geofence |-> "unset", override |-> "unset"],
    [bssid |-> "room", geofence |-> "unset", override |-> "partial"],
    [bssid |-> "room", geofence |-> "hall", override |-> "field"] }
=============================================================================
