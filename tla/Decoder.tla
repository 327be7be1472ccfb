------------------------------ MODULE Decoder ------------------------------
(***************************************************************************)
(* The emulator's selection of the group and the fields of a word          *)
(* (emulate_cycle and the execute functions): from words to the decoded    *)
(* instructions that Emulator executes.                                    *)
(***************************************************************************)
EXTENDS InstructionWord

-----------------------------------------------------------------------------
\* emulate.h
OP0 == <<25, 4>>
OP0_TESTS ==
    [DPIMM |-> <<\hE, \h8>>, DPREG |-> <<\h7, \h5>>, LS |-> <<\h5, \h4>>,
     BRANCH |-> <<\hE, \hA>>]
NOP_INSTRUCTION == Halves(\hD503, \h201F)
HALT_INSTRUCTION == Halves(\h8A00, 0)

\* dp_imm.h
IMM ==
    [SF |-> <<31, 1>>, OPC |-> <<29, 2>>, OPI |-> <<23, 3>>, RD |-> <<0, 5>>,
     SH |-> <<22, 1>>, IMM12 |-> <<10, 12>>, RN |-> <<5, 5>>,
     HW |-> <<21, 2>>, IMM16 |-> <<5, 16>>]
IMM_ARITHMETIC_OPI == 2
IMM_WIDE_MOVE_OPI == 5

\* dp_reg.h; SHIFT and N are fields of opr.
REG ==
    [SF |-> <<31, 1>>, OPC |-> <<29, 2>>, M |-> <<28, 1>>, OPR |-> <<21, 4>>,
     RM |-> <<16, 5>>, OPERAND |-> <<10, 6>>, X |-> <<15, 1>>,
     RA |-> <<10, 5>>, RN |-> <<5, 5>>, RD |-> <<0, 5>>]
SHIFT == <<1, 2>>
N == <<0, 1>>
DPREG_TESTS ==
    [ARITHMETIC |-> [M |-> 0, OPR |-> <<\h9, \h8>>],
     BIT_LOGIC  |-> [M |-> 0, OPR |-> <<\h8, \h0>>],
     MULTIPLY   |-> [M |-> 1, OPR |-> <<\hF, \h8>>]]

\* data_trans.h
DT_SF == <<30, 1>>
DT_OPCODE == <<23, 9>>
DT_SIMM19 == <<5, 19>>
DT_RT == <<0, 5>>
SDT ==
    [L |-> <<22, 1>>, XN |-> <<5, 5>>, U |-> <<24, 1>>, OFFSET |-> <<10, 12>>,
     XM |-> <<16, 5>>, SIMM9 |-> <<12, 9>>, I |-> <<11, 1>>]
DT_TESTS == [SDT |-> <<\h17D, \h170>>, LOADLIT |-> <<\h17E, \h30>>]
OFFSET_TESTS ==
    [REG_OFFSET |-> <<\h83F, \h81A>>, PRE_POST |-> <<\h801, \h1>>]

\* branch.h
BRANCH == [SIMM26 |-> <<0, 26>>, REG |-> <<5, 5>>, SIMM19 |-> <<5, 19>>]
BRANCH_TESTS ==
    [UNCON    |-> <<Halves(\hFC00, 0), Halves(\h1400, 0)>>,
     REGISTER |-> <<Halves(\hFFFF, \hFC1F), Halves(\hD61F, 0)>>,
     CON      |-> <<Halves(\hFF00, \h0010), Halves(\h5400, 0)>>]

\* The kinds of instruction.
Op0Is(w, kind) == CheckBits(SelectBits(w, OP0), OP0_TESTS[kind])

IsArithmeticImm(w) == SelectBits(w, IMM.OPI) = IMM_ARITHMETIC_OPI
IsWideMove(w) == SelectBits(w, IMM.OPI) = IMM_WIDE_MOVE_OPI

\* The kinds of register instruction, and the fields of opr.
DPRegIs(w, kind) ==
    /\ SelectBits(w, REG.M) = DPREG_TESTS[kind].M
    /\ CheckBits(SelectBits(w, REG.OPR), DPREG_TESTS[kind].OPR)
OprField(w, field) == SelectBits(Bits(SelectBits(w, REG.OPR)), field)

\* An arithmetic instruction with ror: invalid shift value, exit.
InvalidShift(w) == DPRegIs(w, "ARITHMETIC") /\ OprField(w, SHIFT) = 3

TransferIs(w, kind) == CheckBits(SelectBits(w, DT_OPCODE), DT_TESTS[kind])
UnsignedOffset(w) == SelectBits(w, SDT.U) = 1
OffsetIs(w, kind) ==
    /\ ~UnsignedOffset(w)
    /\ CheckBits(SelectBits(w, SDT.OFFSET), OFFSET_TESTS[kind])

\* None of the forms: invalid single data transfer instruction, exit.
InvalidSdt(w) ==
    /\ TransferIs(w, "SDT") /\ ~UnsignedOffset(w)
    /\ \A kind \in DOMAIN OFFSET_TESTS : ~OffsetIs(w, kind)

BranchIs(w, kind) == CheckWord(w, BRANCH_TESTS[kind])

-----------------------------------------------------------------------------
\* imm12 is shifted by twelve when sh is set.
DecodeDPImm(w) ==
    CASE IsArithmeticImm(w) ->
            [op |-> "arith_imm", sf |-> SelectBits(w, IMM.SF),
             opc |-> SelectBits(w, IMM.OPC), rd |-> SelectBits(w, IMM.RD),
             rn |-> SelectBits(w, IMM.RN),
             imm |-> SelectBits(w, IMM.IMM12) * 4096^SelectBits(w, IMM.SH)]
      [] IsWideMove(w) ->
            [op |-> "wide_move", sf |-> SelectBits(w, IMM.SF),
             opc |-> SelectBits(w, IMM.OPC), rd |-> SelectBits(w, IMM.RD),
             hw |-> SelectBits(w, IMM.HW), imm |-> SelectBits(w, IMM.IMM16)]
      [] OTHER -> [op |-> "unhandled"]

DecodeArithmetic(w) ==
    [op |-> "arith_reg", sf |-> SelectBits(w, REG.SF),
     opc |-> SelectBits(w, REG.OPC), shift |-> OprField(w, SHIFT),
     rm |-> SelectBits(w, REG.RM), amount |-> SelectBits(w, REG.OPERAND),
     rn |-> SelectBits(w, REG.RN), rd |-> SelectBits(w, REG.RD)]

DecodeBitLogic(w) ==
    [op |-> "logic_reg", sf |-> SelectBits(w, REG.SF),
     opc |-> SelectBits(w, REG.OPC), shift |-> OprField(w, SHIFT),
     n |-> OprField(w, N), rm |-> SelectBits(w, REG.RM),
     amount |-> SelectBits(w, REG.OPERAND), rn |-> SelectBits(w, REG.RN),
     rd |-> SelectBits(w, REG.RD)]

DecodeMultiply(w) ==
    [op |-> "multiply_reg", sf |-> SelectBits(w, REG.SF),
     x |-> SelectBits(w, REG.X), rm |-> SelectBits(w, REG.RM),
     ra |-> SelectBits(w, REG.RA), rn |-> SelectBits(w, REG.RN),
     rd |-> SelectBits(w, REG.RD)]

DecodeDPReg(w) ==
    CASE InvalidShift(w) -> [op |-> "illegal"]
      [] DPRegIs(w, "ARITHMETIC") /\ ~InvalidShift(w) -> DecodeArithmetic(w)
      [] DPRegIs(w, "BIT_LOGIC") -> DecodeBitLogic(w)
      [] DPRegIs(w, "MULTIPLY") -> DecodeMultiply(w)
      [] OTHER -> [op |-> "unhandled"]

DecodeSdt(w) ==
    LET sf == SelectBits(w, DT_SF)
        l == SelectBits(w, SDT.L)
        xn == SelectBits(w, SDT.XN)
        rt == SelectBits(w, DT_RT)
    IN  CASE UnsignedOffset(w) ->
                [op |-> "sdt_uimm", sf |-> sf, l |-> l, xn |-> xn, rt |-> rt,
                 offset |-> SelectBits(w, SDT.OFFSET)]
          [] OffsetIs(w, "REG_OFFSET") ->
                [op |-> "sdt_regoffset", sf |-> sf, l |-> l, xn |-> xn,
                 rt |-> rt, xm |-> SelectBits(w, SDT.XM)]
          [] OffsetIs(w, "PRE_POST") ->
                [op |-> IF SelectBits(w, SDT.I) = 1
                        THEN "sdt_preind" ELSE "sdt_postind",
                 sf |-> sf, l |-> l, xn |-> xn, rt |-> rt,
                 simm9 |-> SignExt(SelectBits(w, SDT.SIMM9), 9)]
          [] InvalidSdt(w) -> [op |-> "illegal"]

DecodeTransfer(w) ==
    CASE TransferIs(w, "SDT") -> DecodeSdt(w)
      [] TransferIs(w, "LOADLIT") ->
            [op |-> "load_literal", sf |-> SelectBits(w, DT_SF),
             rt |-> SelectBits(w, DT_RT),
             simm19 |-> SignExt(SelectBits(w, DT_SIMM19), 19)]
      [] OTHER -> [op |-> "unhandled"]

\* The word of a branch, with simm19 as it is selected.
BranchWith(w, simm19) ==
    CASE BranchIs(w, "UNCON") ->
            [op |-> "b", simm26 |-> SignExt(SelectBits(w, BRANCH.SIMM26), 26)]
      [] BranchIs(w, "REGISTER") ->
            [op |-> "br", rn |-> SelectBits(w, BRANCH.REG)]
      [] BranchIs(w, "CON") ->
            [op |-> "b_cond", simm19 |-> simm19,
             cond |-> SelectBits(w, <<0, 4>>)]
      [] OTHER -> [op |-> "illegal"]

\* A fault of branch_instruction: simm19 is used without its sign.
UnsignedConditional(w) == BranchWith(w, SelectBits(w, BRANCH.SIMM19))

DecodeBranch(w) ==
    BranchWith(w, SignExt(SelectBits(w, BRANCH.SIMM19), 19))

Decode(w) ==
    IF w = NOP_INSTRUCTION THEN [op |-> "nop"]
    ELSE IF w = HALT_INSTRUCTION THEN [op |-> "halt"]
    ELSE CASE Op0Is(w, "DPIMM") -> DecodeDPImm(w)
           [] Op0Is(w, "DPREG") -> DecodeDPReg(w)
           [] Op0Is(w, "LS") -> DecodeTransfer(w)
           [] Op0Is(w, "BRANCH") -> DecodeBranch(w)
           [] OTHER -> [op |-> "unallocated"]
=============================================================================
