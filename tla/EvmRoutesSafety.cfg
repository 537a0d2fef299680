CONSTANTS
  r1 = r1
  r2 = r2
  p1 = p1
  p2 = p2
  p3 = p3
  Requests = {r1, r2}
  Positions = {p1, p2, p3}
  at = p1
  MaxLiquidity = 2
  MaxLp = 2
  MaxWeth = 1
SPECIFICATION MCSpec
SYMMETRY Symmetry
INVARIANTS AnswersAreTrue ToldIsTrue NoBlindRevert
CHECK_DEADLOCK FALSE
