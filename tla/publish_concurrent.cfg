\* Two publishes at a time.
SPECIFICATION Spec
CONSTANTS
  sys = sys  groups = groups  rules = rules  text = text  broken = broken
  Order <- ThreeTables
  Named = {groups}
  Items = {i1}
  Texts = {text, broken}
  Parse <- ParseTexts
  Accepted <- AcceptedTexts
  Valid <- ValidDocs
  NoText = NoText
  NoDoc = NoDoc
  Absent = Absent
  Down = Down
  Idle = Idle
  Callers = {k1, k2}
  Operations = {"publish"}
  MaxEdits = 1
  MaxRequests = 2
  MaxFaults = 0
  MaxCrashes = 0
INVARIANTS LatestSuccessRuns
