SPECIFICATION Spec
CONSTANTS
    TickMod = 6
    OverflowMod = 3
INVARIANTS ShouldDelayRight TimeOutRight
