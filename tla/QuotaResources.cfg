SPECIFICATION LiveSpec
CONSTANTS
  Uuids = {a, b}
  Users = {owner, x}
  Founders = {owner}
  RemovableUsers = {x}
  LoginInvitees = {x}
  Limits = {0, 1}
  Unlimited = Unlimited
  ReservationTtl = 2
  None = None
INVARIANTS ResourcesWithinLimit 
PROPERTIES SlotReturns
