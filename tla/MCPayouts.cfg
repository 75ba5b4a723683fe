CONSTANTS
  e1 = e1
  e2 = e2
  Earnings = {e1, e2}
  Batches = {b1, b2}
  Calls = {c1, c2}
  Refs = {r1, r2}
  NoRef = NoRef
  Amount <- Amounts
  Minimum = 1
  LookupErrors = FALSE
SYMMETRY PayoutSymmetry
SPECIFICATION Spec
INVARIANT PaidOnce
INVARIANT ProjectionsAgree
INVARIANT DebtBalances
INVARIANT ReversalsWaitForSubmitted
PROPERTY FinalityIsKept
CHECK_DEADLOCK FALSE
