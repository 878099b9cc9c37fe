SPECIFICATION HubSpec
CONSTANTS
  a1 = a1
  k1 = k1
  d1 = d1
  r1 = r1
  r2 = r2
  zero = zero
  Address = {a1, k1}
  User = {a1}
  Zero = zero
  Deployer = k1
  InitialSigner = k1
  Data = {d1}
  ChainId = {1}
  HomeChain = 1
  URI = {"ipfs"}
  MaxTokens = 1
  MaxNonce = 1
  MaxTime = 0
  Request = {r1}
  Keeper = k1
  Mishaps = {"cancelled"}
INVARIANTS TriggeredMeansVerified
CHECK_DEADLOCK FALSE
