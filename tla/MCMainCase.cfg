\* A scheme in capitals.
CONSTANTS
    Parts = {"command"}
    Addrs = {a1}
    NoAddr = none
    Nonces <- MCNonces
    MaxLines = 0
    Letters = {"a"}
    Digit <- SomeDigits
    MaxU16 = 15
    MaxText = 0
    Clients = {c1, c2, c3}
SPECIFICATION MainSpec
INVARIANT CapitalsDoNotMatter
