\* One static proxy, two probe tokens; two edits or refreshes and a restart.
SPECIFICATION FairSpec
CONSTANTS
  s1 = s1  s2 = s2  p1 = p1  n1 = n1  n2 = n2
  StaticNodes = {s1}
  ProviderNodes = {}
  Providers = {}
  ProviderOf <- OneProvider
  Configs = {c1, c2}
  NoConfig = NoConfig
  NoRow = NoRow
  Idle = Idle
  Slots = {t1, t2}
  Callers = {k1}
  Loop = Loop
  Scanners = {Loop}
  BatchLimit = 2
  MaxCool = 1
  MaxEdits = 2
  MaxCrashes = 1
INVARIANT OneProbePerNode
PROPERTIES ImplementsLease QueueConverges
