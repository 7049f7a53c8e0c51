\* A response that arrives twice decides the outcome.
CONSTANTS
    Addrs = {a1, a2}
    NoAddr = none
    Nonces <- MCNonces
    MaxNonce = 2
    Strays <- NoStrays
SPECIFICATION Spec
INVARIANT OtherResponsesDoNotDecide
