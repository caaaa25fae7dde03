SPECIFICATION Spec
CONSTANTS
  ann = ann  bob = bob  math = math
  Students = {ann}
  Sections = {math}
  Sessions = {mon, tue}
  SectionOf <- OneSection
  Enrolled <- AllEnrolled
  Consumers = {c1, c2}
  Threshold = 75
  MaxDecisions = 2
  MaxFaults = 1
  NoStudent = NoStudent
INVARIANTS TypeOK QuietIsExact AbsencesAreCounted NoFalseAlarm
PROPERTIES PercentagesSettle
CHECK_DEADLOCK FALSE
