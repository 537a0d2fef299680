\* Three requests of one wallet for one token, over every allowance left before,
\* so that an approval of 1 may come between one of 2 and its repetition; Permit2
\* holds no more than 2, and 3 is what an empty amount asks for.
SPECIFICATION Spec
CONSTANTS
  Requests = {r1, r2, r3}
  Amounts = {1, 2}
  Kinds = {"plain", "universal"}
  Hardware = {TRUE, FALSE}
  MaxUint160 = 2
  MaxUint256 = 3
SYMMETRY Symmetry
INVARIANTS ConfirmedIsDecided OneInFlight
PROPERTY RepeatResumes
CHECK_DEADLOCK FALSE
