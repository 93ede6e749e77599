\* Expected violation: file blocks are in Path order, not string order.
CONSTANTS
    Base <- MCBase
    Universe <- MCUniverse
    Sizes <- MCSizes
SPECIFICATION Spec
INVARIANT FileBlocksInSpecOrder
