\* Every invocation, command line and target, and three clients of --serve.
CONSTANTS
    Parts = {"probe", "command", "target", "serve"}
    Addrs = {a1}
    NoAddr = none
    Nonces <- MCNonces
    MaxLines = 4
    Letters = {"a"}
    Digit <- SomeDigits
    MaxU16 = 15
    MaxText = 6
    Clients = {c1, c2, c3}
SPECIFICATION MainSpec
INVARIANTS
    MainTypeOK
    ShippedPipelinesAreReadable
    OutcomesExplained
    ContextIsThisTargets
    ReportSpeaksForAll
    RunIsAsAsked
    AnnouncedOnce
PROPERTY NobodyWaitsForEver
