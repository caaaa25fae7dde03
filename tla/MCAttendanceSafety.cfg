SPECIFICATION Spec
CONSTANTS
  ann = ann  bob = bob  math = math  mon = mon  tue = tue
  r1 = r1  r2 = r2  r3 = r3
  Students = {ann, bob}
  Sections = {math}
  Sessions = {mon, tue}
  Requests = {r1, r2, r3}
  SectionOf <- OneSection
  Enrolled <- AllEnrolled
  NoSession = NoSession
  NoStudent = NoStudent
  NoRequest = NoRequest
SYMMETRY Symmetry
INVARIANTS TypeOK EndedIsComplete AbsentOnlyByEnding PresentIsEarned OverrideIsAudited RepliesAreTrue EventsFollowCommits AbsencesAreExact
PROPERTIES OutcomesStand RefinesRegister
