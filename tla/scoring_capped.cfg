\* Two static proxies in a batch, one probe token; a handler edits, refreshes or scans.
SPECIFICATION FairSpec
CONSTANTS
  s1 = s1  s2 = s2  p1 = p1  n1 = n1  n2 = n2
  StaticNodes = {s1, s2}
  ProviderNodes = {}
  Providers = {}
  ProviderOf <- OneProvider
  Configs = {c1}
  NoConfig = NoConfig
  NoRow = NoRow
  Idle = Idle
  Slots = {t1}
  Callers = {k1}
  Loop = Loop
  Scanners = {Loop, h1}
  BatchLimit = 2
  MaxCool = 1
  MaxEdits = 1
  MaxCrashes = 0
PROPERTY DueIsProbed
