\* One provider node whose subscription is switched, deleted and refreshed; one restart.
SPECIFICATION FairSpec
CONSTANTS
  s1 = s1  s2 = s2  p1 = p1  n1 = n1  n2 = n2
  StaticNodes = {}
  ProviderNodes = {n1}
  Providers = {p1}
  ProviderOf <- OneProvider
  Configs = {c1, c2}
  NoConfig = NoConfig
  NoRow = NoRow
  Idle = Idle
  Slots = {t1}
  Callers = {k1}
  Loop = Loop
  Scanners = {Loop}
  BatchLimit = 1
  MaxCool = 1
  MaxEdits = 2
  MaxCrashes = 1
INVARIANTS IInv TestingIsOwned
PROPERTIES TestingEnds PausedQuiesces QueueConverges ManualIsServed
