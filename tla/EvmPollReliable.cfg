\* Two sends that may sign the same nonce, each polled by its client at any
\* time after its broadcast.
SPECIFICATION PollSpec
CONSTANTS
  Requests = {r1, r2}
  Latest = {r1, r2}
  Lagging = FALSE
  Failing = TRUE
  MaxPolls = 1
  MaxRetries = 3
INVARIANTS PollTypeOK PolledIsTrue
PROPERTIES PollAnswers
CHECK_DEADLOCK FALSE
