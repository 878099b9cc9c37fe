SPECIFICATION Spec
CONSTANTS
  a1 = a1
  a2 = a2
  d1 = d1
  d2 = d2
  zero = zero
  Address = {a1, a2}
  User = {a1, a2}
  Zero = zero
  Deployer = a1
  InitialSigner = a1
  Data = {d1}
  ChainId = {1}
  HomeChain = 1
  URI = {"ipfs"}
  MaxTokens = 3
  MaxNonce = 2
  MaxTime = 0
INVARIANTS TypeOK HoldingsAgree FreshIdsPristine SupplyCountsMints
PROPERTIES Soulbound VerifiedIsOneWay
CHECK_DEADLOCK FALSE
