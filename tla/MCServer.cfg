SPECIFICATION Spec
CONSTANTS
  Replicas = {p1, p2}
  Operator = operator
  LastVersion = 1
  Students = {ann}
  Pool = 2
  MaxEvents = 2
  MaxTroubles = 1
INVARIANTS TypeOK SchemaIsSound PoolNeverWedged StopLosesNothing
PROPERTIES EveryReplicaServes
CHECK_DEADLOCK FALSE
