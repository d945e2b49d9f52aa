\* A static node beside a provider node, one token, a batch of one; the switch and
\* the inventory change twice.
SPECIFICATION FairSpec
CONSTANTS
  s1 = s1  s2 = s2  p1 = p1  n1 = n1  n2 = n2
  StaticNodes = {s1}
  ProviderNodes = {n1}
  Providers = {p1}
  ProviderOf <- OneProvider
  Configs = {c1}
  NoConfig = NoConfig
  NoRow = NoRow
  Idle = Idle
  Slots = {t1}
  Callers = {}
  Loop = Loop
  Scanners = {Loop}
  BatchLimit = 1
  MaxCool = 1
  MaxEdits = 2
  MaxCrashes = 0
PROPERTIES DueIsProbed
