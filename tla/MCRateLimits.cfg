SPECIFICATION Spec
CONSTANTS
  Requests = {r1, r2}
  CollegePolicies <- SmallPolicies
  SessionRooms <- SmallRooms
  MaxLogins = 2
  MaxFaults = 2
INVARIANTS TypeOK GuessesBounded WindowHolds VerdictsHold
PROPERTIES StudentIsReadmitted AddressIsReadmitted
CHECK_DEADLOCK FALSE
