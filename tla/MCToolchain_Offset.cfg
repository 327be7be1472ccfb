SPECIFICATION Spec
CONSTANTS
    Sources <- MCSources
    Binaries = {}
    Bases = {0, 8}
    ByteBits = 3
    ByteMod = 8
    Regs = {}
    MEMORY_CAPACITY = 12
INVARIANT
    OffsetAsWritten
