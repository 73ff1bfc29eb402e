SPECIFICATION Spec
CONSTANTS
  a = a
  b = b
  c = c
  None = None
  Calls = {a, b, c}
  KeyOf <- MCKeyOf
  PayloadOf <- MCPayloadOf
  Cost <- MCCost
  Limits = {2, 3}
  Attempts = 2
  LastMonth = 1
  Overrun = 1
INVARIANTS BudgetKept OneProviderCallPerKey LedgerExact
