\* One request at a time, with faults, restarts and every operation.
SPECIFICATION Spec
CONSTANTS
  sys = sys  groups = groups  rules = rules  text = text  broken = broken
  Order <- ThreeTables
  Named = {groups}
  Items = {i1}
  Texts = {text, broken}
  Parse <- ParseTexts
  Accepted <- AcceptedTexts
  Valid <- ValidDocs
  NoText = NoText
  NoDoc = NoDoc
  Absent = Absent
  Down = Down
  Idle = Idle
  Callers = {k1}
  Operations = {"publish", "rollback", "discard", "import"}
  MaxEdits = 1
  MaxRequests = 2
  MaxFaults = 2
  MaxCrashes = 1
INVARIANTS SerialInv
PROPERTIES PublishIsAtomic
