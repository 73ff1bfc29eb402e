SPECIFICATION Spec
CONSTANTS
  Uuids = {a, b}
  Users = {owner}
  Founders = {owner}
  RemovableUsers = {}
  LoginInvitees = {}
  Limits = {1}
  Unlimited = Unlimited
  ReservationTtl = 2
  None = None
INVARIANT FinalSlotTakenOnce
