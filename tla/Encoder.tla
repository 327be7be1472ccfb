------------------------------ MODULE Encoder ------------------------------
(***************************************************************************)
(* The assembler's encoding of one instruction: assemble_dp.c,             *)
(* assemble_dt.c, assemble_branch.c and assemble_special_instruction of    *)
(* assemble.c.  For every kind of line, when it is accepted (a line that   *)
(* is not ends the assembler, with a message or an assertion) and the word *)
(* written.                                                                *)
(***************************************************************************)
EXTENDS InstructionText

-----------------------------------------------------------------------------
\* The fields of utils.h.
NOP_INSTRUCTION == Halves(\hD503, \h201F)
HALT_INSTRUCTION == Halves(\h8A00, 0)

DT_SF == <<30, 1>>
DT_SIMM19 == <<5, 19>>
DT_RT == <<0, 5>>
SDT ==
    [L |-> <<22, 1>>, XN |-> <<5, 5>>, U |-> <<24, 1>>, OFFSET |-> <<10, 12>>,
     XM |-> <<16, 5>>, SIMM9 |-> <<12, 9>>, I |-> <<11, 1>>]

BRANCH ==
    [SIMM26 |-> <<0, 26>>, REG |-> <<5, 5>>, SIMM19 |-> <<5, 19>>,
     COND |-> <<0, 4>>]

REG ==
    [SF |-> <<31, 1>>, OPC |-> <<29, 2>>, OPR |-> <<21, 4>>, RM |-> <<16, 5>>,
     OPERAND |-> <<10, 6>>, X |-> <<15, 1>>, RA |-> <<10, 5>>, RN |-> <<5, 5>>,
     RD |-> <<0, 5>>]
REG_SHIFT == <<22, 2>>
REG_N == <<21, 1>>
ARITHMETIC_OPR == 8

IMM ==
    [OPI |-> <<23, 3>>, SH |-> <<22, 1>>, IMM12 |-> <<10, 12>>,
     HW |-> <<21, 2>>, IMM16 |-> <<5, 16>>]
IMM_ARITHMETIC_OPI == 2
IMM_WIDE_MOVE_OPI == 5

-----------------------------------------------------------------------------
\* get_register: atoi to a uint8_t, refused above 31.
IsRegister(r) == r.n % 256 <= 31
get_register(r) == r.n % 256

multiply_opcodes == {"madd", "msub"}
arithmetic_opcodes == {"add", "adds", "sub", "subs"}
bit_logic_opcodes ==
    {"and", "ands", "bic", "bics", "eor", "orr", "eon", "orn"}
single_op_alias_opcodes == {"mov", "mul", "mneg", "neg", "negs", "mvn"}
wide_move_opcodes == {"movk", "movn", "movz"}
no_dest_opcodes == {"cmp", "cmn", "tst"}
load_store_opcodes == {"str", "ldr"}

is_two_op_opcode(opcode) ==
    opcode \in arithmetic_opcodes \cup bit_logic_opcodes
is_single_op_opcode(opcode) ==
    opcode \in single_op_alias_opcodes \cup wide_move_opcodes

arithmetic_opc == [add |-> 0, adds |-> 1, sub |-> 2, subs |-> 3]
bit_logic_opc ==
    [and |-> 0, bic |-> 0, orr |-> 1, orn |-> 1, eor |-> 2, eon |-> 2,
     ands |-> 3, bics |-> 3]
bit_logic_N ==
    [and |-> 0, bic |-> 1, orr |-> 0, orn |-> 1, eor |-> 0, eon |-> 1,
     ands |-> 0, bics |-> 1]
wide_move_opc == [movn |-> 0, movz |-> 2, movk |-> 3]
shift_value == [lsl |-> 0, lsr |-> 1, asr |-> 2, ror |-> 3]

\* The width and one register field.
WithRegister(word, sf_field, reg_field, r) ==
    SetBits(SetBits(word, sf_field, r.sf), reg_field, get_register(r))

-----------------------------------------------------------------------------
(* assemble_dp.c.  The operators below take the word composed so far.      *)

ShiftAccepted(shift) == shift.type \in {"none"} \cup DOMAIN shift_value

\* The amount is a uint8_t of which the field keeps six bits.
handle_reg_shift(word, shift) ==
    IF shift = NoShift
    THEN word
    ELSE SetBits(SetBits(word, REG_SHIFT, shift_value[shift.type]),
                 REG.OPERAND, shift.amount % 256)

ImmShiftAccepted(shift) ==
    \/ shift = NoShift
    \/ shift.type = "lsl" /\ shift.amount % 256 \in {0, 12}

handle_imm_shift(word, shift) ==
    IF shift = NoShift
    THEN word
    ELSE SetBits(word, IMM.SH, (shift.amount % 256) \div 12)

TwoOpAccepted(opcode, operand, shift) ==
    IF is_immediate(operand)
    THEN opcode \in arithmetic_opcodes /\ ImmShiftAccepted(shift)
    ELSE IsRegister(operand) /\ ShiftAccepted(shift)

\* The immediate is cut to twelve bits.
handle_two_op_imm(word, opcode, operand, shift) ==
    LET encoded == SetBits(word \cup Halves(\h1000, 0),
                           IMM.IMM12, operand.imm)
        typed == SetBits(encoded, IMM.OPI, IMM_ARITHMETIC_OPI)
    IN  handle_imm_shift(SetBits(typed, REG.OPC, arithmetic_opc[opcode]),
                         shift)

handle_two_op_reg(word, opcode, rm, shift) ==
    LET encoded == SetBits(word \cup Halves(\h0A00, 0),
                           REG.RM, get_register(rm))
        typed ==
            IF opcode \in arithmetic_opcodes
            THEN SetBits(SetBits(encoded, REG.OPR, ARITHMETIC_OPR),
                         REG.OPC, arithmetic_opc[opcode])
            ELSE SetBits(SetBits(encoded, REG.OPC, bit_logic_opc[opcode]),
                         REG_N, bit_logic_N[opcode])
    IN  handle_reg_shift(typed, shift)

handle_two_op(word, opcode, operand, shift) ==
    IF is_immediate(operand)
    THEN handle_two_op_imm(word, opcode, operand, shift)
    ELSE handle_two_op_reg(word, opcode, operand, shift)

\* rd and rn must agree in width, rm is not compared.
assemble_two_op(l) ==
    handle_two_op(WithRegister(SetBits({}, REG.RN, get_register(l.rn)),
                               REG.SF, REG.RD, l.rd),
                  l.opcode, l.operand, l.shift)

\* The immediate is cut to sixteen bits, the half-word to two.
handle_wide_move(word, l) ==
    LET encoded == SetBits(word \cup Halves(\h1000, 0),
                           IMM.OPI, IMM_WIDE_MOVE_OPI)
        typed == SetBits(SetBits(encoded, IMM.IMM16, l.operand.imm),
                         REG.OPC, wide_move_opc[l.opcode])
    IN  IF l.shift = NoShift
        THEN typed
        ELSE SetBits(typed, IMM.HW, (l.shift.amount % 256) \div 16)

WideMoveAccepted(l) ==
    /\ is_immediate(l.operand)
    /\ \/ l.shift = NoShift
       \/ l.shift.type = "lsl" /\ (l.shift.amount % 256) % 16 = 0

alias_opcode == [mov |-> "orr", mvn |-> "orn", neg |-> "sub", negs |-> "subs"]

\* The shift of an alias is parsed twice and the second strtok finds
\* nothing, so only the absent one is accepted; mov and mvn of an immediate
\* fail an assertion.
AliasAccepted(l) ==
    /\ l.shift = NoShift
    /\ TwoOpAccepted(alias_opcode[l.opcode], l.operand, NoShift)

\* With a register rn is the zero register; with an immediate the field
\* stays zero.
handle_alias(word, l) ==
    IF is_immediate(l.operand)
    THEN handle_two_op_imm(word, alias_opcode[l.opcode], l.operand, NoShift)
    ELSE handle_two_op_reg(SetBits(word, REG.RN, ZR_REG),
                           alias_opcode[l.opcode], l.operand, NoShift)

assemble_single_op(l) ==
    LET word == WithRegister({}, REG.SF, REG.RD, l.rd)
    IN  IF l.opcode \in wide_move_opcodes
        THEN handle_wide_move(word, l)
        ELSE handle_alias(word, l)

SingleOpAccepted(l) ==
    /\ IsRegister(l.rd)
    /\ IF l.opcode \in wide_move_opcodes
       THEN WideMoveAccepted(l)
       ELSE AliasAccepted(l)

no_dest_opcode == [cmp |-> "subs", cmn |-> "adds", tst |-> "ands"]

assemble_no_dest(l) ==
    handle_two_op(SetBits(WithRegister({}, REG.SF, REG.RN, l.rn),
                          REG.RD, ZR_REG),
                  no_dest_opcode[l.opcode], l.operand, l.shift)

\* rn and rm must agree in width, rd and ra are not compared.
handle_multiply(word, x, rn, rm) ==
    LET encoded == SetBits(word \cup Halves(\h1B00, 0),
                           REG.RN, get_register(rn))
    IN  SetBits(SetBits(encoded, REG.RM, get_register(rm)), REG.X, x)

multiply_x == [madd |-> 0, msub |-> 1, mul |-> 0, mneg |-> 1]

assemble_multiply(l) ==
    handle_multiply(SetBits(WithRegister({}, REG.SF, REG.RD, l.rd),
                            REG.RA, get_register(l.ra)),
                    multiply_x[l.opcode], l.rn, l.rm)

\* With an immediate for rn no handler is called: the word has only sf and
\* rd.
assemble_product(l) ==
    LET word == WithRegister({}, REG.SF, REG.RD, l.rd)
    IN  IF is_immediate(l.rn)
        THEN word
        ELSE handle_multiply(SetBits(word, REG.RA, ZR_REG),
                             multiply_x[l.opcode], l.rn, l.rm)

-----------------------------------------------------------------------------
(* assemble_dt.c and assemble_branch.c; here is the address of the line.   *)

\* The 64-bit difference divided by four, of which a field keeps the low
\* bits; the division of a wrapped difference agrees with that of the
\* signed one there.
WordOffset(target, here) == (target - here) \div 4

assemble_load_literal(l, here) ==
    SetBits(WithRegister(Halves(\h1800, 0), DT_SF, DT_RT, l.rt),
            DT_SIMM19, WordOffset(l.address, here))

\* A base or offset register must be an x register.
IsXRegister(r) == r.sf = SF64 /\ IsRegister(r)
IsSimm9(n) == -256 <= n /\ n <= 255

Scale(rt) == IF rt.sf = SF64 THEN 8 ELSE 4

\* offset is a uint64_t: a negative one is huge.
IsUimm12(n, scale) ==
    n >= 0 /\ n % scale = 0 /\ n \div scale <= 4095

TransferAccepted(l) ==
    /\ IsRegister(l.rt)
    /\ CASE l.mode = "unsigned" ->
               IsXRegister(l.xn) /\ IsUimm12(l.offset.imm, Scale(l.rt))
         [] l.mode \in {"pre", "post"} ->
               IsXRegister(l.xn) /\ IsSimm9(l.offset.imm)
         [] l.mode = "register" ->
               IsXRegister(l.xn) /\ IsXRegister(l.offset)
         [] l.mode = "other" -> TRUE

IndexWord(word, l, i) ==
    SetBits(SetBits(word \cup Halves(\hB800, \h0400), SDT.I, i),
            SDT.SIMM9, l.offset.imm)

\* Of an operand of no known form the word has only rt, sf and l: no
\* encoding is set.
AddressingMode(word, l) ==
    CASE l.mode = "unsigned" ->
            SetBits(SetBits(word \cup Halves(\hB800, 0), SDT.U, 1),
                    SDT.OFFSET, l.offset.imm \div Scale(l.rt))
      [] l.mode = "pre"  -> IndexWord(word, l, 1)
      [] l.mode = "post" -> IndexWord(word, l, 0)
      [] l.mode = "register" ->
            SetBits(word \cup Halves(\hB820, \h6800),
                    SDT.XM, get_register(l.offset))

assemble_load_store(l) ==
    LET word == SetBits(WithRegister({}, DT_SF, DT_RT, l.rt),
                        SDT.L, IF l.opcode = "ldr" THEN 1 ELSE 0)
    IN  IF l.mode = "other"
        THEN word
        ELSE AddressingMode(SetBits(word, SDT.XN, get_register(l.xn)), l)

cond_value ==
    [eq |-> 0, ne |-> 1, ge |-> 10, lt |-> 11, gt |-> 12, le |-> 13,
     al |-> 14]

assemble_branch(l, here) ==
    CASE l.form = "b" ->
            SetBits(Halves(\h1400, 0), BRANCH.SIMM26,
                    WordOffset(l.target, here))
      [] l.form = "br" ->
            SetBits(Halves(\hD61F, 0), BRANCH.REG, get_register(l.xn))
      [] l.form = "b." ->
            SetBits(SetBits(Halves(\h5400, 0), BRANCH.SIMM19,
                            WordOffset(l.target, here)),
                    BRANCH.COND, cond_value[l.cond])

-----------------------------------------------------------------------------
\* The dispatch on the opcode: a line of a form has one of these.  The
\* products are among the single-operand aliases.
Dispatched(l) ==
    CASE l.form = "two_op" -> is_two_op_opcode(l.opcode)
      [] l.form = "single_op" -> is_single_op_opcode(l.opcode)
      [] l.form = "product" ->
            is_single_op_opcode(l.opcode) /\ l.opcode \in {"mul", "mneg"}
      [] l.form = "no_dest" -> l.opcode \in no_dest_opcodes
      [] l.form = "multiply" -> l.opcode \in multiply_opcodes
      [] l.form \in {"transfer", "literal"} -> l.opcode \in load_store_opcodes
      [] l.form = "b." -> l.cond \in DOMAIN cond_value
      [] l.form \in {"b", "br", "nop", ".int"} -> TRUE
      [] l.form = "garbage" -> FALSE

\* Whether the function dispatched to accepts the line.
OperandsAccepted(l) ==
    CASE l.form = "two_op" ->
            /\ IsRegister(l.rd) /\ IsRegister(l.rn) /\ l.rd.sf = l.rn.sf
            /\ TwoOpAccepted(l.opcode, l.operand, l.shift)
      [] l.form = "single_op" -> SingleOpAccepted(l)
      [] l.form = "no_dest" ->
            /\ IsRegister(l.rn)
            /\ TwoOpAccepted(no_dest_opcode[l.opcode], l.operand, l.shift)
      [] l.form = "multiply" ->
            /\ \A r \in {l.rd, l.rn, l.rm, l.ra} : IsRegister(r)
            /\ l.rn.sf = l.rm.sf
      [] l.form = "product" ->
            /\ IsRegister(l.rd)
            /\ \/ is_immediate(l.rn)
               \/ /\ ~is_immediate(l.rn)
                  /\ IsRegister(l.rn) /\ IsRegister(l.rm)
                  /\ l.rn.sf = l.rm.sf
      [] l.form = "transfer" -> TransferAccepted(l)
      [] l.form = "literal" -> IsRegister(l.rt)
      [] l.form \in {"b", "b."} -> l.target % 4 = 0
      [] l.form = "br" -> IsXRegister(l.xn)
      [] l.form \in {"nop", ".int"} -> TRUE

\* Whether build_memory accepts the line, and the word it writes for it.
Accepted(l) == Dispatched(l) /\ OperandsAccepted(l)

Assembled(l, here) ==
    CASE l.form = "two_op" -> assemble_two_op(l)
      [] l.form = "single_op" -> assemble_single_op(l)
      [] l.form = "no_dest" -> assemble_no_dest(l)
      [] l.form = "multiply" -> assemble_multiply(l)
      [] l.form = "product" -> assemble_product(l)
      [] l.form = "transfer" -> assemble_load_store(l)
      [] l.form = "literal" -> assemble_load_literal(l, here)
      [] l.form \in {"b", "br", "b."} -> assemble_branch(l, here)
      [] l.form = "nop" -> NOP_INSTRUCTION
      [] l.form = ".int" -> l.word
=============================================================================
