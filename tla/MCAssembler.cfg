SPECIFICATION FileSpec
CONSTANTS
    HASHMAP_SIZE = 16
    Keys <- MCSymbols
    Symbols <- MCSymbols
    Values <- MCValues
    Words = {"nop", "b", "b.eq", "ldr"}
    AddrMod = 64
    FieldMods = {4, 8}
    Programs <- MCPrograms
    Bases <- MCBases
    Files <- MCFiles
    MAX_LINE_LENGTH = 12
    Branches <- MCBranches
    Operations <- MCOperations
INVARIANTS
    TypeOK
    BufferIsExact
    BranchesReachLabels
    LayoutIsImmaterial
    LinesReadWhole
PROPERTIES
    ImplementsAssembly
