CONSTANTS
  r1 = r1
  r2 = r2
  p1 = p1
  p2 = p2
  p3 = p3
  Requests = {r1}
  Positions = {p1, p2, p3}
  at = p1
  MaxLiquidity = 1
  MaxLp = 1
  MaxWeth = 1
SPECIFICATION MCSpec
INVARIANT SwapFundsErrorIsUnsent
CHECK_DEADLOCK FALSE
