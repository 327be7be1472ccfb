----------------------------- MODULE Comparison -----------------------------
(***************************************************************************)
(* What the condition flags mean to a later conditional branch: subs and   *)
(* adds of dp_imm.c with a second operand shifted by dp_reg.c set the      *)
(* flags, instructions that do not set flags may follow and overwrite the  *)
(* operands, and conditional_branch of branch.c reads the flags.           *)
(*                                                                         *)
(* The history variable last remembers the operands of the last            *)
(* flag-setting instruction, so that the flags can be related to them.     *)
(***************************************************************************)
EXTENDS DataProcessing, Branch, Sequences

CONSTANTS
    Values,     \* initial values of the registers
    Setters,    \* adds and subs instructions, of two registers
    Others      \* instructions that leave the flags alone

SetsFlags(i) == i.op = "arith_reg" /\ i.opc \in {ADDS_OPC, SUBS_OPC}
KeepsFlags(i) ==
    \/ i.op \in {"wide_move", "multiply_reg"}
    \/ i.op \in {"arith_imm", "arith_reg"} /\ i.opc \in {ADD_OPC, SUB_OPC}
    \/ i.op = "logic_reg" /\ i.opc # ANDS_OPC

DPInstruction ==
    ArithImm \cup WideMove \cup ArithReg \cup LogicReg \cup MultiplyReg

ASSUME ComparisonAssumption ==
    /\ Values \subseteq Word64
    /\ \A i \in Setters :
          i \in ArithReg /\ SetsFlags(i) /\ ~IllegalShift(i)
    /\ \A i \in Others :
          i \in DPInstruction /\ KeepsFlags(i) /\ ~IllegalShift(i)

VARIABLES cpu_state, last

vars == <<cpu_state, last>>

\* The last flag-setting instruction: its operation, size and operands, the
\* second one as the size of the instruction sees it.
Setting ==
    [opc : {ADDS_OPC, SUBS_OPC}, sf : Sizes, x : Word64, y : Word64]

TypeOK ==
    /\ cpu_state \in State
    /\ last \in Seq(Setting)
    /\ \A n \in DOMAIN last :
          last[n].x < Width(last[n].sf) /\ last[n].y < Width(last[n].sf)

Init ==
    /\ cpu_state \in {[setup EXCEPT !.R = f] : f \in [Regs -> Values]}
    /\ last = <<>>

SetFlags(i) ==
    /\ cpu_state' = execute_arithmetic_instruction(cpu_state, i)
    /\ last' = << [opc |-> i.opc, sf |-> i.sf,
                   x |-> get_register_value(cpu_state, i.rn, i.sf),
                   y |-> shifted(cpu_state, i.shift, i.rm, i.amount, i.sf)
                             % Width(i.sf)] >>

KeepFlags(i) ==
    /\ cpu_state' = IF i.op \in {"arith_imm", "wide_move"}
                    THEN execute_dpimm_instruction(cpu_state, i)
                    ELSE execute_dpreg_instruction(cpu_state, i)
    /\ UNCHANGED last

Next ==
    \/ \E i \in Setters : SetFlags(i)
    \/ \E i \in Others : KeepFlags(i)

Spec == Init /\ [][Next]_vars

-----------------------------------------------------------------------------
\* The operands read as signed numbers, and the exact result.
SignedX(s) == Signed(s.x, s.sf)
SignedY(s) == Signed(s.y, s.sf)
SignedResult(s) ==
    IF s.opc = SUBS_OPC THEN SignedX(s) - SignedY(s) ELSE SignedX(s) + SignedY(s)

Representable(v, sf) ==
    v >= -(Width(sf) \div 2) /\ v < Width(sf) \div 2

Taken(cond) == Jumps(cpu_state.PSTATE, cond)

\* After a comparison of x with y, however many other instructions later,
\* b.eq, b.ne, b.gt and b.le (branch.c:42) decide x = y, x # y, x > y and
\* x <= y of signed numbers, on overflow too.
BranchesDecideOrder ==
    \A n \in DOMAIN last : last[n].opc = SUBS_OPC =>
        /\ Taken(COND_EQ) <=> last[n].x = last[n].y
        /\ Taken(COND_NE) <=> last[n].x # last[n].y
        /\ Taken(COND_GT) <=> SignedX(last[n]) > SignedY(last[n])
        /\ Taken(COND_LE) <=> SignedX(last[n]) <= SignedY(last[n])

\* b.ge and b.lt (branch.c:48) look at N alone: they decide x >= y and
\* x < y exactly when the difference does not overflow.
GreaterEqualUnlessOverflow ==
    \A n \in DOMAIN last : last[n].opc = SUBS_OPC =>
        LET fits == Representable(SignedResult(last[n]), last[n].sf)
        IN  /\ (Taken(COND_GE) <=> SignedX(last[n]) >= SignedY(last[n]))
                  <=> fits
            /\ (Taken(COND_LT) <=> SignedX(last[n]) < SignedY(last[n]))
                  <=> fits

\* C is the carry of an addition and the absence of a borrow of a
\* subtraction, V the overflow of the signed operation (dp_imm.c:22,39),
\* although both are computed from a second operand that may have bits
\* beyond the size of the instruction.
CarryAndOverflow ==
    \A n \in DOMAIN last :
        /\ cpu_state.PSTATE.C <=>
              IF last[n].opc = SUBS_OPC
              THEN last[n].x >= last[n].y
              ELSE last[n].x + last[n].y >= Width(last[n].sf)
        /\ cpu_state.PSTATE.V <=>
              ~Representable(SignedResult(last[n]), last[n].sf)

\* The bits of a word of n bits after a shift.
ShiftedBits(shift, bits, amount, n) ==
    LET down == {i - amount : i \in bits} \cap 0 .. n - 1
    IN  CASE shift = LSL_VALUE -> {i + amount : i \in bits} \cap 0 .. n - 1
          [] shift = LSR_VALUE -> down
          [] shift = ASR_VALUE ->
                down \cup {i \in 0 .. n - 1 : n - 1 \in bits /\ i >= n - amount}
          [] shift = ROR_VALUE -> {(i - amount) % n : i \in bits}

\* The amounts for which the macros of ror shift by the width of a word or by
\* a negative number (dp_reg.c:91): none on an X register, more than 32 on a
\* W register.
RotationUndefined(amount, sf) ==
    IF sf = SF64 THEN amount = 0 ELSE amount > WBits

\* Register r, holding v, is shifted as a word of bits; a rotation by an
\* undefined amount loses the word.
ShiftIsBitwise(r, v, sf, shift, amount) ==
    LET result == shifted([setup EXCEPT !.R[r] = v], shift, r, amount, sf)
    IN  IF shift = ROR_VALUE /\ RotationUndefined(amount, sf)
        THEN result % Width(sf) = 0
        ELSE BitsOf[result % Width(sf)] =
                 ShiftedBits(shift, BitsOf[v % Width(sf)], amount, NumBits(sf))

WellShifted(r) ==
    {v \in Word64 : \A sf \in Sizes, shift \in 0 .. 3, amount \in 0 .. XBits - 1 :
        ShiftIsBitwise(r, v, sf, shift, amount)}
ShiftedAsBits == [r \in Regs |-> WellShifted(r)]

\* The shifts of dp_reg.c, computed on 64 bits by masks and signs, move the
\* bits of what a register may hold in either size (dp_reg.c:71), by every
\* amount the field holds, but for a rotation by an undefined amount.
ShiftsAreBitwise == \A r \in Regs : cpu_state.R[r] \in ShiftedAsBits[r]
=============================================================================
