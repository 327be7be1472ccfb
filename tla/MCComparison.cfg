SPECIFICATION Spec
CONSTANTS
    ByteBits = 1
    ByteMod = 2
    Regs = {0, 1}
    Values <- MCValues
    Setters <- MCSetters
    Others <- MCOthers
INVARIANTS
    TypeOK
    BranchesDecideOrder
    GreaterEqualUnlessOverflow
    CarryAndOverflow
    ShiftsAreBitwise
