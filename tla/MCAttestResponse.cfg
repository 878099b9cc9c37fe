\* A signed attestation is the response of the attest route (refuted).
SPECIFICATION SpecFlow
CONSTANTS
    u1 = u1
    u2 = u2
    k = k
    d1 = d1
    d2 = d2
    t1 = t1
    Address = {u1, u2, k}
    User = {u1, u2}
    Zero = zero
    Deployer = u2
    InitialSigner = k
    Data = {d1, d2}
    ChainId = {sepolia, mainnet}
    HomeChain = sepolia
    URI = {uri}
    MaxTokens = 2
    MaxNonce = 2
    MaxTime = 1
    Tab = {t1}
    AddressOf <- MCAddressOf
    Shown <- MCShown
    Attesting = {t1}
    MaxAttempts = 2
    OtherNetwork = mainnet
    ServerKey = k
    NoProfile = none
    TTL = 0
    Result = {d1}
INVARIANTS
    AttestationDelivered

CHECK_DEADLOCK FALSE
