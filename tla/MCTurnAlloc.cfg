\* The allocation check against every server and network behaviour.
CONSTANTS
    Addrs = {a1, a2}
    NoAddr = none
    Nonces <- MCNonces
    MaxNonce = 2
    Strays <- OneStray
SPECIFICATION FairSpec
INVARIANTS
    TypeOK
    PassIsAllocated
    CredentialsBlamedFairly
    CredentialsOnDemand
    ChallengeOnlyIsHarmless
PROPERTIES
    ImplementsContract
    Terminates
