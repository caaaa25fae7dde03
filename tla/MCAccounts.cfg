SPECIFICATION Spec
CONSTANTS
  Requests = {r1, r2}
  Colleges = {"north", "south"}
  Emails = {"root", "ann", "bob"}
  Sections = {"algebra"}
  Founders = {"root", "ann"}
  Clients = {"root", "ann"}
  Forgetful = {"bob"}
  MaxTokens = 1
  Persons <- MCPersons
  UserFiles <- MCUserFiles
  EnrollmentFiles <- MCEnrollmentFiles
INVARIANTS TypeOK DirectoryIsSound
PROPERTIES AnswersHold AccountsStand RequestsAnswered
CHECK_DEADLOCK FALSE
