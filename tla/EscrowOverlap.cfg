CONSTANTS
  Contracts = {c1}
  Payer = a
  Payee = b
  Amount = 1
  Funds = 1
SPECIFICATION Spec
INVARIANT NothingCreated
CHECK_DEADLOCK FALSE
