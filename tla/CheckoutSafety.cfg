SPECIFICATION DomainSpec
CONSTANTS
  d1 = d1
  d2 = d2
  r = r
  Sessions = {d1, r}
  PayPalSessions = {d1}
  PlanSessions = {r}
  DomainSessions = {d1}
  Names = {"name"}
  NameOf <- OneName
  LapsingSessions = {}
  CancelSessions = {d1}
  PayingSessions = {d1, r}
  Refs = {"c1", "payment", "order"}
  RefsOf <- MCRefsOf
  Workers = {w1, w2}
  None = None
SYMMETRY Symmetric
INVARIANTS OneOrderPerSession OrderBackedByCapture
CHECK_DEADLOCK FALSE
