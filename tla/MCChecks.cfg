\* Each check against everything the other side may do.
CONSTANTS
    Addrs = {a1, a2}
    NoAddr = none
    Nonces <- MCNonces
    Ips = {i1, i2, i3}
    MaxAnswers = 4
    Enumerations <- MCEnumerations
SPECIFICATION FairSpec
INVARIANTS
    TypeOK
    ReportsAreTrue
PROPERTIES
    ImplementContracts
    Terminates
    GoodPeersPass
