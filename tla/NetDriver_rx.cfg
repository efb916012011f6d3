SPECIFICATION FairSpec
CONSTANTS
    Kinds = {"good", "bad", "long", "stop"}
    FifoSize = 3
INVARIANTS MaskOwned RaisedIsLatched
PROPERTY EverySignalServed
