CONSTANTS
  Replica = {1, 2, 3}
  MaxOps = 3
SPECIFICATION Spec
INVARIANT Convergence
