--------------------------- MODULE DataProcessing ---------------------------
(***************************************************************************)
(* The data-processing instructions of the emulator: dp_imm.c (arithmetic  *)
(* with an immediate, wide moves) and dp_reg.c (arithmetic, bit logic and  *)
(* multiplication of registers).  Each operator takes the processor state  *)
(* and returns the state the C function of the same name leaves in it.     *)
(***************************************************************************)
EXTENDS CpuState

\* Bitwise operators: a word is read as the set of its one bits.
BitsOf == [v \in Word64 |-> {i \in 0 .. XBits - 1 : (v \div 2^i) % 2 = 1}]
WordOf ==
    [S \in SUBSET (0 .. XBits - 1) |-> CHOOSE v \in Word64 : BitsOf[v] = S]

\* Every set of bit positions is the set of one bits of some word.
ASSUME BitsAssumption ==
    \A S \in SUBSET (0 .. XBits - 1) : \E v \in Word64 : BitsOf[v] = S

BitAnd(a, b) == WordOf[BitsOf[a] \cap BitsOf[b]]
BitOr(a, b) == WordOf[BitsOf[a] \cup BitsOf[b]]
BitXor(a, b) ==
    WordOf[(BitsOf[a] \ BitsOf[b]) \cup (BitsOf[b] \ BitsOf[a])]
BitNot(a) == XMod - 1 - a

-----------------------------------------------------------------------------
(* dp_imm.c *)

ADD_OPC == 0
ADDS_OPC == 1
SUB_OPC == 2
SUBS_OPC == 3

add_imm(cpu, dest, src1, imm, sf) ==
    set_register_value(cpu, dest, get_register_value(cpu, src1, sf) + imm, sf)

sub_imm(cpu, dest, src1, imm, sf) ==
    set_register_value(cpu, dest, get_register_value(cpu, src1, sf) - imm, sf)

\* The flags of an addition: C when the truncated result is below the first
\* operand, V when the operands agree in sign and the result does not.
adds_flags(cpu, reg_value, imm, sf) ==
    LET result == (reg_value + imm) % Width(sf)
        flagged == set_NZ_flags(cpu, result, sf)
    IN  [flagged EXCEPT
            !.PSTATE.C = result < reg_value,
            !.PSTATE.V = /\ SignBit(reg_value, sf) = SignBit(imm, sf)
                         /\ SignBit(result, sf) # SignBit(imm, sf)]

\* A fault of subs_imm: the carry is clear when the operands are equal.
StrictCarry(cpu, reg_value, imm, sf) ==
    LET result == (reg_value - imm) % Width(sf)
        flagged == set_NZ_flags(cpu, result, sf)
    IN  [flagged EXCEPT
            !.PSTATE.C = result < reg_value,
            !.PSTATE.V = /\ SignBit(reg_value, sf) # SignBit(imm, sf)
                         /\ SignBit(result, sf) = SignBit(imm, sf)]

subs_flags(cpu, reg_value, imm, sf) ==
    LET result == (reg_value - imm) % Width(sf)
        flagged == set_NZ_flags(cpu, result, sf)
    IN  [flagged EXCEPT
            !.PSTATE.C = ~(result > reg_value),
            !.PSTATE.V = /\ SignBit(reg_value, sf) # SignBit(imm, sf)
                         /\ SignBit(result, sf) = SignBit(imm, sf)]

\* The first operand is read before the destination is written.
adds_imm(cpu, dest, src1, imm, sf) ==
    adds_flags(add_imm(cpu, dest, src1, imm, sf),
               get_register_value(cpu, src1, sf), imm, sf)

subs_imm(cpu, dest, src1, imm, sf) ==
    subs_flags(sub_imm(cpu, dest, src1, imm, sf),
               get_register_value(cpu, src1, sf), imm, sf)

arithmetic(cpu, opc, dest, src1, op2, sf) ==
    CASE opc = ADD_OPC  -> add_imm(cpu, dest, src1, op2, sf)
      [] opc = ADDS_OPC -> adds_imm(cpu, dest, src1, op2, sf)
      [] opc = SUB_OPC  -> sub_imm(cpu, dest, src1, op2, sf)
      [] opc = SUBS_OPC -> subs_imm(cpu, dest, src1, op2, sf)

\* The weight of half-word hw: 1 << (16 * hw).
HalfMod == ByteMod * ByteMod
HalfWeight(hw) ==
    CASE hw = 0 -> 1
      [] hw = 1 -> HalfMod
      [] hw = 2 -> WMod
      [] hw = 3 -> HalfMod * WMod

MOVN_OPC == 0
MOVZ_OPC == 2
MOVK_OPC == 3

movn_imm(cpu, dest, imm, sf) == set_register_value(cpu, dest, BitNot(imm), sf)

movz_imm(cpu, dest, imm, sf) == set_register_value(cpu, dest, imm, sf)

\* (reg & ~mask) | (imm << shift): half-word hw is replaced.
movk_imm(cpu, dest, hw, imm, sf) ==
    LET reg_value == get_register_value(cpu, dest, sf)
        old == (reg_value \div HalfWeight(hw)) % HalfMod
    IN  set_register_value(cpu, dest,
                           reg_value + (imm - old) * HalfWeight(hw), sf)

\* The opcodes the switch does not name (opc 1) do nothing.
wide_move(cpu, opc, rd, hw, imm16, sf) ==
    CASE opc = MOVN_OPC -> movn_imm(cpu, rd, imm16 * HalfWeight(hw), sf)
      [] opc = MOVZ_OPC -> movz_imm(cpu, rd, imm16 * HalfWeight(hw), sf)
      [] opc = MOVK_OPC -> movk_imm(cpu, rd, hw, imm16, sf)
      [] OTHER          -> cpu

-----------------------------------------------------------------------------
(* dp_reg.c *)

LSL_VALUE == 0
LSR_VALUE == 1
ASR_VALUE == 2
ROR_VALUE == 3

\* The shifts return a uint64_t: the result of a 32-bit shift may have bits
\* above the register's width.
lsl(cpu, operand_reg, shift_amount, sf) ==
    (get_register_value(cpu, operand_reg, sf) * 2^shift_amount) % XMod

lsr(cpu, operand_reg, shift_amount, sf) ==
    get_register_value(cpu, operand_reg, sf) \div 2^shift_amount

\* A fault of asr: the sign of a W register is not extended.
SignNotExtended(cpu, operand_reg, shift_amount, sf) ==
    (Signed(get_register_value(cpu, operand_reg, sf), SF64) \div 2^shift_amount)
        % XMod

asr(cpu, operand_reg, shift_amount, sf) ==
    (Signed(get_register_value(cpu, operand_reg, sf), sf) \div 2^shift_amount)
        % XMod

\* The shift of the lower bits is a shift instruction's, modulo 64: amount 0
\* on an X register, or above 32 on a W register, is undefined in C.
ror(cpu, operand_reg, shift_amount, sf) ==
    LET num_bits == NumBits(sf)
        operand == get_register_value(cpu, operand_reg, sf)
        lower_bits == SELECT_BITS(operand, 0, shift_amount)
        upper_bits == SELECT_BITS(operand, shift_amount,
                                  num_bits - shift_amount)
    IN  BitOr(upper_bits,
              (lower_bits * 2^((num_bits - shift_amount) % XBits)) % XMod)

shifted(cpu, shift, rm, operand, sf) ==
    CASE shift = LSL_VALUE -> lsl(cpu, rm, operand, sf)
      [] shift = LSR_VALUE -> lsr(cpu, rm, operand, sf)
      [] shift = ASR_VALUE -> asr(cpu, rm, operand, sf)
      [] shift = ROR_VALUE -> ror(cpu, rm, operand, sf)

AND_OPC == 0
ORR_OPC == 1
EON_OPC == 2
ANDS_OPC == 3

\* The result of and, orr, eor, ands, and with N set of bic, orn, eon, bics.
logic_result(opc, n, a, op2) ==
    LET b == IF n = 1 THEN BitNot(op2) ELSE op2
    IN  CASE opc = AND_OPC  -> BitAnd(a, b)
          [] opc = ORR_OPC  -> BitOr(a, b)
          [] opc = EON_OPC  -> BitXor(a, b)
          [] opc = ANDS_OPC -> BitAnd(a, b)

\* ands and bics set the flags too and clear C and V.
bit_logic(cpu, opc, n, rd, rn, op2, sf) ==
    LET result == logic_result(opc, n, get_register_value(cpu, rn, sf), op2)
        written == set_register_value(cpu, rd, result, sf)
    IN  IF opc = ANDS_OPC
        THEN [set_NZ_flags(written, result, sf) EXCEPT
                 !.PSTATE.C = FALSE, !.PSTATE.V = FALSE]
        ELSE written

MADD_X == 0
MSUB_X == 1

madd(cpu, dest, src, rn, rm, sf) ==
    set_register_value(cpu, dest,
        get_register_value(cpu, src, sf)
          + get_register_value(cpu, rn, sf) * get_register_value(cpu, rm, sf),
        sf)

msub(cpu, dest, src, rn, rm, sf) ==
    set_register_value(cpu, dest,
        get_register_value(cpu, src, sf)
          - get_register_value(cpu, rn, sf) * get_register_value(cpu, rm, sf),
        sf)

-----------------------------------------------------------------------------
(* The decoded instructions and the two execute functions.                 *)

\* An instruction is a record of the fields the execute functions select.
\* The immediate of arith_imm is imm12 with its shift by 12 applied.
ArithImm ==
    [op : {"arith_imm"}, sf : Sizes, opc : 0 .. 3, rd : RegNums,
     rn : RegNums, imm : Word64]
WideMove ==
    [op : {"wide_move"}, sf : Sizes, opc : 0 .. 3, rd : RegNums,
     hw : 0 .. 3, imm : 0 .. HalfMod - 1]
ArithReg ==
    [op : {"arith_reg"}, sf : Sizes, opc : 0 .. 3, shift : 0 .. 3,
     rm : RegNums, amount : 0 .. XBits - 1, rn : RegNums, rd : RegNums]
LogicReg ==
    [op : {"logic_reg"}, sf : Sizes, opc : 0 .. 3, shift : 0 .. 3,
     n : 0 .. 1, rm : RegNums, amount : 0 .. XBits - 1, rn : RegNums,
     rd : RegNums]
MultiplyReg ==
    [op : {"multiply_reg"}, sf : Sizes, x : 0 .. 1, rm : RegNums,
     ra : RegNums, rn : RegNums, rd : RegNums]

\* An arithmetic instruction with shift type ror: the switch exits.
IllegalShift(i) == i.op = "arith_reg" /\ i.shift = ROR_VALUE

execute_dpimm_instruction(cpu, i) ==
    IF i.op = "arith_imm"
    THEN arithmetic(cpu, i.opc, i.rd, i.rn, i.imm, i.sf)
    ELSE wide_move(cpu, i.opc, i.rd, i.hw, i.imm, i.sf)

execute_arithmetic_instruction(cpu, i) ==
    arithmetic(cpu, i.opc, i.rd, i.rn,
               shifted(cpu, i.shift, i.rm, i.amount, i.sf), i.sf)

execute_bit_logic_instruction(cpu, i) ==
    bit_logic(cpu, i.opc, i.n, i.rd, i.rn,
              shifted(cpu, i.shift, i.rm, i.amount, i.sf), i.sf)

execute_multiply_instruction(cpu, i) ==
    IF i.x = MADD_X
    THEN madd(cpu, i.rd, i.ra, i.rn, i.rm, i.sf)
    ELSE msub(cpu, i.rd, i.ra, i.rn, i.rm, i.sf)

execute_dpreg_instruction(cpu, i) ==
    CASE i.op = "arith_reg"    -> execute_arithmetic_instruction(cpu, i)
      [] i.op = "logic_reg"    -> execute_bit_logic_instruction(cpu, i)
      [] i.op = "multiply_reg" -> execute_multiply_instruction(cpu, i)
=============================================================================
