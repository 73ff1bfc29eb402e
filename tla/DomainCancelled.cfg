SPECIFICATION LiveDomainSpec
CONSTANTS
  d1 = d1
  d2 = d2
  r = r
  Sessions = {d1}
  PayPalSessions = {d1}
  PlanSessions = {}
  DomainSessions = {d1}
  Names = {"name"}
  NameOf <- OneName
  LapsingSessions = {}
  CancelSessions = {d1}
  PayingSessions = {d1}
  Refs = {"c1", "c2"}
  RefsOf <- MCRefsOf
  Workers = {w1, w2}
  None = None
PROPERTIES PaidDomainResolves
CHECK_DEADLOCK FALSE
