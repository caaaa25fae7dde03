SPECIFICATION Spec
CONSTANTS
  ann = ann  bob = bob  math = math
  Students = {ann}
  Sections = {math}
  Sessions = {mon, tue}
  SectionOf <- OneSection
  Enrolled <- AllEnrolled
  Consumers = {c1}
  Threshold = 75
  MaxDecisions = 0
  MaxFaults = 0
  NoStudent = NoStudent
PROPERTIES OnlyCrossingsAlert
CHECK_DEADLOCK FALSE
