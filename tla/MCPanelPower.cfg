CONSTANTS
    PinCount = 3
SPECIFICATION Spec
INVARIANTS
    LoopIsDark
    HeldWhileRailOn
    NoBackPower
PROPERTIES
    BrownoutEndsDark
