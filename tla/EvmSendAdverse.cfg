\* Three sends of one wallet, two of which take the nonce of the latest block
\* and so may sign the same nonce.
SPECIFICATION Spec
CONSTANTS
  Requests = {r1, r2, r3}
  Latest = {r1, r2}
  Lagging = TRUE
  Failing = TRUE
  MaxPolls = 2
INVARIANT NoNonceGap
PROPERTIES KeepsContract Returns
CHECK_DEADLOCK FALSE
