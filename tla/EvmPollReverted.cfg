\* One send, mined and reverted, and one poll of it.
SPECIFICATION PollSpec
CONSTANTS
  Requests = {r1}
  Latest = {}
  Lagging = FALSE
  Failing = FALSE
  MaxPolls = 1
  MaxRetries = 3
INVARIANT ConfirmedHasNotFailed
CHECK_DEADLOCK FALSE
