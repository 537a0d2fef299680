\* Nodes that are reliable, and nodes whose reads lag and whose calls fail; the
\* chain grows past the window of the send.
SPECIFICATION Spec
CONSTANTS
  MaxHeight = 6
  Validity = 2
  ConfirmRetryCount = 2
  MaxPollAttempts = 6
  DataRetries = 2
  FinalRetries = 2
  Monitoring = TRUE
INVARIANTS TypeOK AnswersAreTrue NoLateLanding
PROPERTIES Returns KeepsContract
CHECK_DEADLOCK FALSE
