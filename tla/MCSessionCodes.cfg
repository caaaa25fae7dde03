SPECIFICATION Spec
CONSTANTS
  Codes = {c1, c2}
  Pollers = {phone, tablet}
  Enders = {e1}
  Starter = starter
  TTL = 1
  MaxFaults = 1
  MaxIdle = 0
  NoCode = NoCode
INVARIANTS TypeOK CodesAreCommitted ShownWasLive
PROPERTIES SessionRecovers CodesDieWithSession RequestsAnswered
