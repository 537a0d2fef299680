CONSTANTS
  r1 = r1
  r2 = r2
  Requests = {r1, r2}
  a1 = a1
  a2 = a2
  KeyFiles = {a1, a2}
  Symbols = {"s1", "s2"}
  Addresses = {"x1", "x2"}
  Pairs = {"p1", "p2"}
  TokensOf <- MCTokensOf
  Template <- MCTemplate
  MinFee = 1
  MaxFee = 2
  MaxGas = 2
  ReadRetries = 2
  Accounts = 2
  MaxFaults = 1
SPECIFICATION MCSpec
INVARIANTS TypeOK FilesAsSaved ListsAreKept DefaultIsSound InstancesAreSound WritesOnce DeviceServes
PROPERTIES DispatchedAsAsked FeesAreSound
CHECK_DEADLOCK FALSE
SYMMETRY Symmetry
