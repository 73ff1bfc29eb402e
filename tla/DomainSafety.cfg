SPECIFICATION DomainSpec
CONSTANTS
  d1 = d1
  d2 = d2
  r = r
  Sessions = {d1, d2}
  PayPalSessions = {d1, d2}
  PlanSessions = {}
  DomainSessions = {d1, d2}
  Names = {"name"}
  NameOf <- OneName
  LapsingSessions = {d1}
  CancelSessions = {d1}
  PayingSessions = {d1, d2}
  Refs = {"c1", "c2"}
  RefsOf <- MCRefsOf
  Workers = {w1, w2}
  None = None
SYMMETRY Symmetric
INVARIANTS RegistrarCalledOnce BoughtOnlyWhenPaid
PROPERTIES ImplementsLedger
CHECK_DEADLOCK FALSE
