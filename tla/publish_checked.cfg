\* Two requests at a time.
SPECIFICATION Spec
CONSTANTS
  sys = sys  groups = groups  rules = rules  text = text  broken = broken
  Order <- ThreeTables
  Named = {groups}
  Items = {i1}
  Texts = {text, broken}
  Parse <- ParseTexts
  Accepted <- AcceptedTexts
  Valid <- ValidDocs
  NoText = NoText
  NoDoc = NoDoc
  Absent = Absent
  Down = Down
  Idle = Idle
  Callers = {k1, k2}
  Operations = {"publish", "rollback", "discard", "import"}
  MaxEdits = 1
  MaxRequests = 2
  MaxFaults = 1
  MaxCrashes = 0
INVARIANTS OnlyCheckedIsPublished IInv
