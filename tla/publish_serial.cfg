\* One request at a time, drafts edited meanwhile, no faults.
SPECIFICATION Spec
CONSTANTS
  sys = sys  groups = groups  rules = rules  text = text  broken = broken
  Order <- ThreeTables
  Named = {groups}
  Items = {i1}
  Texts = {text, broken}
  Parse <- ParseTexts
  Accepted <- AcceptedTexts
  Valid <- ValidDocs
  NoText = NoText
  NoDoc = NoDoc
  Absent = Absent
  Down = Down
  Idle = Idle
  Callers = {k1}
  Operations = {"publish", "rollback", "import"}
  MaxEdits = 2
  MaxRequests = 3
  MaxFaults = 0
  MaxCrashes = 0
INVARIANTS LatestSuccessRuns
