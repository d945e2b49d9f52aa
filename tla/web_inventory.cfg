\* The four inventory pages over the server, one mounted at a time.
SPECIFICATION Spec
CONSTANTS
  MaxId <- MCMaxId
  First <- MCFirst
  FirstOrd <- MCFirstOrd
  MaxSends <- MCMaxSends
  MaxCalls <- MCMaxCalls
  Hideable <- MCHideable
  MatchRule = 2
  MaxTests = 1
  MaxLoads = 2
  Inventories <- MCInventories
  Conns = {c1}
  Nodes = {n1}
  Accounts = {a1}
  Quotas = {2}
  Thresholds = {50}
  Reports = {0, 2}
  MaxCycles = 2
  MaxMoved = 2
  MaxClicks = 1
  None = None
INVARIANTS TypeOK ConfirmNamesTarget SpinnerMeansTest
           DragsKeepMatchLast NothingWaitsInVain
           CountedIsKept CountedWasMoved AlertsGoOutOnce NotifiedWasSent
\* The user may stop clicking.
CHECK_DEADLOCK FALSE
