CONSTANTS
  e1 = e1
  e2 = e2
  Earnings = {e1, e2}
  Batches = {b1, b2}
  Calls = {c1, c2}
  Refs = {r1}
  NoRef = NoRef
  Amount <- Amounts
  Minimum = 1
  LookupErrors = FALSE
SYMMETRY PayoutSymmetry
SPECIFICATION Spec
INVARIANT RejectionReplays
CHECK_DEADLOCK FALSE
