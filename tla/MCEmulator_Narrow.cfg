SPECIFICATION Spec
CONSTANTS
    ByteBits = 1
    ByteMod = 2
    Regs = {0, 1}
    MEMORY_CAPACITY = 16
    Decode <- NarrowDecode
    Images <- MCImages3
    Tails <- MCTails
INVARIANTS
    TypeOK
    DumpIsFinalState
    NarrowRegisters
    FetchesInMemory
