\* Up to three packets, the task scheduled promptly or at any moment.
CONSTANTS
    Addrs = {a1}
    NoAddr = none
    Nonces <- MCNonces
    MaxCount = 3
    Interval = 1
    RecvTimeout = 2
    Lifetime = 2
    BufferSize = 3
    MaxCopies = 2
    MaxNoise = 1
    MaxTime = 7
SPECIFICATION FairSpec
INVARIANTS
    TypeOK
    PassMeansAllEchoed
    FiguresAreTrue
    TimelyVerdict
    NoFalseLoss
    PermissionStands
PROPERTIES
    ImplementsContract
    Terminates
