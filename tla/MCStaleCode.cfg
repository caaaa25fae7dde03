SPECIFICATION Spec
CONSTANTS
  Codes = {c1, c2}
  Pollers = {phone, tablet}
  Enders = {e1}
  Starter = starter
  TTL = 2
  MaxFaults = 1
  MaxIdle = 3
  NoCode = NoCode
INVARIANTS AcceptableIsRecent
