CONSTANTS
  r1 = r1
  r2 = r2
  w1 = w1
  w2 = w2
  Requests = {r1, r2}
  Wallets = {w1, w2}
  owner = w1
  MaxLiquidity = 2
SPECIFICATION Spec
SYMMETRY Symmetry
INVARIANTS AnswersAreTrue ForeignWasReloaded ToldIsTrue FailedWasOvertaken
CHECK_DEADLOCK FALSE
