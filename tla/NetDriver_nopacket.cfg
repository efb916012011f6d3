SPECIFICATION Spec
CONSTANTS
    Kinds = {"good", "bad"}
    FifoSize = 2
INVARIANT NoPacketIgnored
