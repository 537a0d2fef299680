\* Two calls; the server may give an id that is a local one (2) or not (20, 21).
SPECIFICATION Spec
CONSTANTS
  Calls = {c1, c2}
  MaxSockets = 3
  MaxLocalId = 2
  ServerIds = {2, 20, 21}
  Disconnects = TRUE
INVARIANTS AnswerIsOwn WaitingIsRegistered
PROPERTIES IdleSparesWaiting MonitorSettles
CHECK_DEADLOCK FALSE
