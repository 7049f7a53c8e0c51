\* The codec, part by part, on every small input.
CONSTANTS
    MaxBuf = 40
    MaxU16 = 24
    Base = 6
    AttrTypes <- TwoTypes
    DATA = 9
    Values <- SomeValues
    PeerValue <- Peer
    Digest <- ShortDigest
    MaxMsgAttrs = 2
    Addrs = {a1, a2}
    Bad = Bad
    Codes <- SomeCodes
    Texts = {t}
    MaxAttrs = 4
    Octets <- SomeOctets
    Cookie <- MagicCookie
    FrameBase = 2
    Messages <- Fitting
    MaxSent = 3
SPECIFICATION WireSpec
INVARIANTS
    TypeOK
    WalkStaysInside
    ReadAsWritten
    ResponsesAreUnderstood
PROPERTIES
    Advances
    ImplementsChannel
    AllArrive
