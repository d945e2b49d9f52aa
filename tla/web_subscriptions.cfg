\* The subscriptions page over the server, beside another administrator.
SPECIFICATION Spec
CONSTANTS
  Ids = {s1, s2, s3}
  Initial <- MCInitial
  Names = {np, nq, nx}
  Urls = {u, v}
  Tps = {ta, tb}
  s1 = s1  s2 = s2  np = np  nx = nx
  u = u  ta = ta  q1 = q1  r1 = r1
  Quotas = {None, q1}
  Expiries = {None, e1}
  Resets = {None, r1}
  None = None
  Keep = Keep
  Absent = Absent
  Free = Free
  FetchIds = {f1}
  Budgets <- MCBudgets
INVARIANTS TypeOK OneManager OneTracker TrafficStateIsOwn WaitingMeansWork
PROPERTIES UntouchedSurvive LinksKeepUrls
\* The user may stop clicking.
CHECK_DEADLOCK FALSE
