SPECIFICATION Spec
CONSTANTS
  a1 = a1
  a2 = a2
  d1 = d1
  d2 = d2
  zero = zero
  Address = {a1, a2}
  User = {a1}
  Zero = zero
  Deployer = a2
  InitialSigner = a2
  Data = {d1, d2}
  ChainId = {1, 2}
  HomeChain = 1
  URI = {"ipfs"}
  MaxTokens = 2
  MaxNonce = 2
  MaxTime = 1
INVARIANTS NonceLedger MetadataIsNewest
PROPERTIES AcceptedInForce
CHECK_DEADLOCK FALSE
