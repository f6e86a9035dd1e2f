CONSTANTS
  p1 = p1
  p2 = p2
  p3 = p3
  q1 = q1
  q2 = q2
  q3 = q3
  k = k
  Replica = {r1, r2}
  Element = {e}
  MaxOps = 3
SPECIFICATION MCSpec
SYMMETRY Symmetry
INVARIANTS UniqueTags Convergence ObservedRemove RgaConvergence DeltaNothingMissing
INVARIANTS DeadWasAccused MembershipIsTrue
PROPERTIES RgaLocalOrderKept VerdictsAdvance
CHECK_DEADLOCK FALSE
