SPECIFICATION Spec
CONSTANTS
    ByteBits = 1
    ByteMod = 2
    Regs = {0, 1}
    MEMORY_CAPACITY = 16
    Decode <- ProgramDecode
    Images <- MCPrograms
    Tails <- MCTails
PROPERTIES
    AccessesInBounds
