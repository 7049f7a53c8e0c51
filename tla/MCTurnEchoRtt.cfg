\* The reported RTT is not the round trip.
CONSTANTS
    Addrs = {a1}
    NoAddr = none
    Nonces <- MCNonces
    MaxCount = 2
    Interval = 1
    RecvTimeout = 2
    Lifetime = 10
    BufferSize = 3
    MaxCopies = 1
    MaxNoise = 0
    MaxTime = 7
SPECIFICATION Spec
INVARIANT RttIsRoundTrip
