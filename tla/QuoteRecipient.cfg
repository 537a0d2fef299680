SPECIFICATION MCSpec
CONSTANTS
  q1 = q1
  q2 = q2
  r1 = r1
  r2 = r2
  Quotes = {q1, q2}
  Requests = {r1, r2}
  Connectors = {"uniswap", "pancakeswap", "0x", "jupiter", "titan", "dflow", "okx"}
  RateLimitAttempts = 2
INVARIANT ReceivedByExecutor
SYMMETRY Symmetry
CHECK_DEADLOCK FALSE
