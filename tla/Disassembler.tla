---------------------------- MODULE Disassembler ----------------------------
(***************************************************************************)
(* What the disassembler prints for one word (disassembler/): the sequence *)
(* of lines, in general one line, by the group of the word as              *)
(* disassemble_cycle finds it.                                             *)
(***************************************************************************)
EXTENDS InstructionText, Sequences

-----------------------------------------------------------------------------
\* disassemble.h
OP0 == <<25, 4>>
OP0_TESTS ==
    [DPIMM |-> <<\hE, \h8>>, DPREG |-> <<\h7, \h5>>, LS |-> <<\h5, \h4>>,
     BRANCH |-> <<\hE, \hA>>]
NOP_INSTRUCTION == Halves(\hD503, \h201F)
HALT_INSTRUCTION == Halves(\h8A00, 0)

\* dp_imm.h
IMM ==
    [SF |-> <<31, 1>>, OPC |-> <<29, 2>>, OPI |-> <<23, 3>>, RD |-> <<0, 5>>,
     SH |-> <<22, 1>>, IMM12 |-> <<10, 12>>, RN |-> <<5, 5>>,
     HW |-> <<21, 2>>, IMM16 |-> <<5, 16>>]
IMM_ARITHMETIC_OPI == 2
IMM_WIDE_MOVE_OPI == 5

\* dp_reg.h; SHIFT and N are fields of opr.
REG ==
    [SF |-> <<31, 1>>, OPC |-> <<29, 2>>, M |-> <<28, 1>>, OPR |-> <<21, 4>>,
     RM |-> <<16, 5>>, OPERAND |-> <<10, 6>>, X |-> <<15, 1>>,
     RA |-> <<10, 5>>, RN |-> <<5, 5>>, RD |-> <<0, 5>>]
SHIFT == <<1, 2>>
N == <<0, 1>>
DPREG_TESTS ==
    [ARITHMETIC |-> [M |-> 0, OPR |-> <<\h9, \h8>>],
     BIT_LOGIC  |-> [M |-> 0, OPR |-> <<\h8, \h0>>],
     MULTIPLY   |-> [M |-> 1, OPR |-> <<\hF, \h8>>]]

\* data_trans.h
DT_SF == <<30, 1>>
DT_OPCODE == <<23, 9>>
DT_SIMM19 == <<5, 19>>
DT_RT == <<0, 5>>
SDT ==
    [L |-> <<22, 1>>, XN |-> <<5, 5>>, U |-> <<24, 1>>, OFFSET |-> <<10, 12>>,
     XM |-> <<16, 5>>, SIMM9 |-> <<12, 9>>, I |-> <<11, 1>>]
DT_TESTS == [SDT |-> <<\h17D, \h170>>, LOADLIT |-> <<\h17E, \h30>>]
OFFSET_TESTS ==
    [REG_OFFSET |-> <<\h83F, \h81A>>, PRE_POST |-> <<\h801, \h1>>]

\* branch.h
BRANCH == [SIMM26 |-> <<0, 26>>, REG |-> <<5, 5>>, SIMM19 |-> <<5, 19>>]
BRANCH_TESTS ==
    [UNCON    |-> <<Halves(\hFC00, 0), Halves(\h1400, 0)>>,
     REGISTER |-> <<Halves(\hFFFF, \hFC1F), Halves(\hD61F, 0)>>,
     CON      |-> <<Halves(\hFF00, \h0010), Halves(\h5400, 0)>>]

\* The kinds of instruction.
Op0Is(w, kind) == CheckBits(SelectBits(w, OP0), OP0_TESTS[kind])

IsArithmeticImm(w) == SelectBits(w, IMM.OPI) = IMM_ARITHMETIC_OPI
IsWideMove(w) == SelectBits(w, IMM.OPI) = IMM_WIDE_MOVE_OPI

\* The kinds of register instruction, and the fields of opr.
DPRegIs(w, kind) ==
    /\ SelectBits(w, REG.M) = DPREG_TESTS[kind].M
    /\ CheckBits(SelectBits(w, REG.OPR), DPREG_TESTS[kind].OPR)
OprField(w, field) == SelectBits(Bits(SelectBits(w, REG.OPR)), field)

\* An arithmetic instruction with ror: invalid shift value, exit.
InvalidShift(w) == DPRegIs(w, "ARITHMETIC") /\ OprField(w, SHIFT) = 3

TransferIs(w, kind) == CheckBits(SelectBits(w, DT_OPCODE), DT_TESTS[kind])
UnsignedOffset(w) == SelectBits(w, SDT.U) = 1
OffsetIs(w, kind) ==
    /\ ~UnsignedOffset(w)
    /\ CheckBits(SelectBits(w, SDT.OFFSET), OFFSET_TESTS[kind])

\* None of the forms: invalid single data transfer instruction, exit.
InvalidSdt(w) ==
    /\ TransferIs(w, "SDT") /\ ~UnsignedOffset(w)
    /\ \A kind \in DOMAIN OFFSET_TESTS : ~OffsetIs(w, kind)

BranchIs(w, kind) == CheckWord(w, BRANCH_TESTS[kind])

-----------------------------------------------------------------------------
\* Registers are printed with the letter of the width, 31 as a number.
Reg(sf, n) == [sf |-> sf, n |-> n]

OpcodeOf(values, opcodes, value) ==
    CHOOSE opcode \in opcodes : values[opcode] = value

-----------------------------------------------------------------------------
(* dp_imm.c *)

arithmetic_str == <<"add", "adds", "sub", "subs">>

\* op_str when no case of the switch copies an opcode to it: what the stack
\* holds, one of the opcodes printed before or anything else.
wide_move_str(opc) ==
    CASE opc = 0 -> {"movn"}
      [] opc = 2 -> {"movz"}
      [] opc = 3 -> {"movk"}
      [] opc = 1 -> {"movn", "movz", "movk", "garbage"}

handle_imm_arithmetic(w) ==
    LET sf == SelectBits(w, IMM.SF)
    IN  TwoOp(arithmetic_str[SelectBits(w, IMM.OPC) + 1],
              Reg(sf, SelectBits(w, IMM.RD)), Reg(sf, SelectBits(w, IMM.RN)),
              Imm(SelectBits(w, IMM.IMM12)),
              Shift("lsl", 12 * SelectBits(w, IMM.SH)))

handle_mov(w, op_str) ==
    IF op_str = "garbage"
    THEN Garbage
    ELSE SingleOp(op_str,
                  Reg(SelectBits(w, IMM.SF), SelectBits(w, IMM.RD)),
                  Imm(SelectBits(w, IMM.IMM16)),
                  Shift("lsl", 16 * SelectBits(w, IMM.HW)))

\* Nothing is printed for the other values of opi.
disassemble_dpimm_instruction(w) ==
    CASE IsArithmeticImm(w) -> {<<handle_imm_arithmetic(w)>>}
      [] IsWideMove(w) ->
            {<<handle_mov(w, op_str)>> :
                op_str \in wide_move_str(SelectBits(w, IMM.OPC))}
      [] OTHER -> {<<>>}

-----------------------------------------------------------------------------
(* dp_reg.c *)

shift_str == <<"lsl", "lsr", "asr", "ror">>
bit_logic_str ==
    <<<<"and", "orr", "eor", "ands">>, <<"bic", "orn", "eon", "bics">>>>
multiply_str == <<"madd", "msub">>

PrintTwoOp(w, op_str) ==
    LET sf == SelectBits(w, REG.SF)
    IN  TwoOp(op_str,
              Reg(sf, SelectBits(w, REG.RD)), Reg(sf, SelectBits(w, REG.RN)),
              Reg(sf, SelectBits(w, REG.RM)),
              Shift(shift_str[OprField(w, SHIFT) + 1],
                    SelectBits(w, REG.OPERAND)))

handle_reg_arithmetic(w) ==
    PrintTwoOp(w, arithmetic_str[SelectBits(w, REG.OPC) + 1])

\* A fault of the bit-logic switch: N is not looked at.
NeverNegated(w) ==
    PrintTwoOp(w, bit_logic_str[1][SelectBits(w, REG.OPC) + 1])

handle_bit_logic(w) ==
    PrintTwoOp(w, bit_logic_str[OprField(w, N) + 1]
                               [SelectBits(w, REG.OPC) + 1])

\* mul and mneg are printed as madd and msub.
PrintMultiply(w) ==
    LET sf == SelectBits(w, REG.SF)
    IN  Multiply(multiply_str[SelectBits(w, REG.X) + 1],
                 Reg(sf, SelectBits(w, REG.RD)),
                 Reg(sf, SelectBits(w, REG.RN)),
                 Reg(sf, SelectBits(w, REG.RM)),
                 Reg(sf, SelectBits(w, REG.RA)))

disassemble_dpreg_instruction(w) ==
    CASE DPRegIs(w, "ARITHMETIC") -> {<<handle_reg_arithmetic(w)>>}
      [] DPRegIs(w, "BIT_LOGIC")  -> {<<handle_bit_logic(w)>>}
      [] DPRegIs(w, "MULTIPLY")   -> {<<PrintMultiply(w)>>}
      [] OTHER -> {<<>>}

-----------------------------------------------------------------------------
(* data_trans.c *)

\* The unsigned offset is printed eight times the field for w registers too.
PrintSdt(w, simm9) ==
    LET print(mode, offset) ==
            Transfer(IF SelectBits(w, SDT.L) = 1 THEN "ldr" ELSE "str",
                     Reg(SelectBits(w, DT_SF), SelectBits(w, DT_RT)),
                     mode, X(SelectBits(w, SDT.XN)), offset)
    IN  CASE UnsignedOffset(w) ->
                print("unsigned", Imm(SelectBits(w, SDT.OFFSET) * 8))
          [] OffsetIs(w, "REG_OFFSET") ->
                print("register", X(SelectBits(w, SDT.XM)))
          [] OffsetIs(w, "PRE_POST") ->
                print(IF SelectBits(w, SDT.I) = 1 THEN "pre" ELSE "post",
                      Imm(simm9))

\* A fault of execute_sdt: simm9 is printed without its sign.
UnsignedIndex(w) == PrintSdt(w, SelectBits(w, SDT.SIMM9))

execute_sdt(w) == PrintSdt(w, SignExt(SelectBits(w, SDT.SIMM9), 9))

\* A fault of execute_load_literal: the distance is printed.
RelativeLiteral(w, pc) ==
    Literal(Reg(SelectBits(w, DT_SF), SelectBits(w, DT_RT)),
            SignExt(SelectBits(w, DT_SIMM19), 19) * 4)

\* The address is printed as a signed number.
execute_load_literal(w, pc) ==
    Literal(Reg(SelectBits(w, DT_SF), SelectBits(w, DT_RT)),
            pc + SignExt(SelectBits(w, DT_SIMM19), 19) * 4)

-----------------------------------------------------------------------------
(* branch.c *)

cond_str ==
    [eq |-> 0, ne |-> 1, ge |-> 10, lt |-> 11, gt |-> 12, le |-> 13,
     al |-> 14]
CondOf(w) == SelectBits(w, <<0, 4>>)

\* The switch names a case for the condition.
CondIn(w, conds) ==
    BranchIs(w, "CON") /\ \E cond \in conds : cond_str[cond] = CondOf(w)

\* A fault of the condition switch: al has no case.
AlwaysForgotten(w) ==
    /\ ~BranchIs(w, "UNCON") /\ ~BranchIs(w, "REGISTER")
    /\ ~CondIn(w, DOMAIN cond_str \ {"al"})

\* No branch, or a condition the switch does not name: exit.
InvalidBranch(w) ==
    /\ ~BranchIs(w, "UNCON") /\ ~BranchIs(w, "REGISTER")
    /\ ~CondIn(w, DOMAIN cond_str)

\* The target is printed as an unsigned hexadecimal number.
branch_instruction(w, pc) ==
    CASE BranchIs(w, "UNCON") ->
            Branch(strtoll(pc + SignExt(SelectBits(w, BRANCH.SIMM26), 26) * 4))
      [] BranchIs(w, "REGISTER") -> BranchReg(X(SelectBits(w, BRANCH.REG)))
      [] BranchIs(w, "CON") ->
            BranchCond(OpcodeOf(cond_str, DOMAIN cond_str, CondOf(w)),
                strtoll(pc + SignExt(SelectBits(w, BRANCH.SIMM19), 19) * 4))

-----------------------------------------------------------------------------
(* disassemble_cycle *)

IsSpecial(w) == w \in {NOP_INSTRUCTION, HALT_INSTRUCTION}

\* The words at which the disassembler exits.
Unprintable(w) ==
    /\ ~IsSpecial(w)
    /\ \/ Op0Is(w, "DPREG") /\ InvalidShift(w)
       \/ Op0Is(w, "LS") /\ InvalidSdt(w)
       \/ Op0Is(w, "BRANCH") /\ InvalidBranch(w)

HaltText == TwoOp("and", X(0), X(0), X(0), NoShift)

\* A transfer word of neither kind prints nothing.
disassemble_transfer(w, pc) ==
    CASE TransferIs(w, "SDT") -> {<<execute_sdt(w)>>}
      [] TransferIs(w, "LOADLIT") -> {<<execute_load_literal(w, pc)>>}
      [] OTHER -> {<<>>}

\* The outcomes for any other word, each the sequence of lines printed: none
\* for a data-processing or transfer word no function handles.
disassemble_cycle(w, pc) ==
    CASE w = NOP_INSTRUCTION -> {<<Nop>>}
      [] w = HALT_INSTRUCTION -> {<<HaltText>>}
      [] Op0Is(w, "DPIMM") -> disassemble_dpimm_instruction(w)
      [] Op0Is(w, "DPREG") /\ ~IsSpecial(w) ->
            disassemble_dpreg_instruction(w)
      [] Op0Is(w, "LS") -> disassemble_transfer(w, pc)
      [] Op0Is(w, "BRANCH") /\ w # NOP_INSTRUCTION ->
            {<<branch_instruction(w, pc)>>}
      [] OTHER -> {<<IntDirective(w)>>}
=============================================================================
