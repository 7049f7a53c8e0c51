\* Every text of up to six characters, with the port left out.
CONSTANTS
    Parts = {"target"}
    Addrs = {a1}
    NoAddr = none
    Nonces <- MCNonces
    MaxLines = 0
    Letters = {"a"}
    Digit <- SomeDigits
    MaxU16 = 15
    MaxText = 6
    Clients = {c1, c2, c3}
SPECIFICATION MainSpec
INVARIANT DefaultsThePort
