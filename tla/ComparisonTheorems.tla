------------------------- MODULE ComparisonTheorems -------------------------
(***************************************************************************)
(* For registers of every width: the flags subs and adds leave mean what   *)
(* the conditional branches take them to mean.  The invariant behind the   *)
(* theorems, FlagsInv, says each flag as a fact about the operands; the    *)
(* properties of Comparison follow from it by linear arithmetic.  And the  *)
(* shifts, which the code computes by masks and signs in 64 bits, move     *)
(* bits: by arithmetic on powers of two, up to their induction.            *)
(***************************************************************************)
EXTENDS Comparison, CpuTheorems, WellFoundedInduction

\* The truncated result of the last flag-setting instruction.
Result(s) ==
    IF s.opc = SUBS_OPC
    THEN IF s.x >= s.y THEN s.x - s.y ELSE s.x - s.y + Width(s.sf)
    ELSE IF s.x + s.y < Width(s.sf) THEN s.x + s.y
                                    ELSE s.x + s.y - Width(s.sf)

Negative(v, sf) == v >= Half(sf)

FlagsMean(p, s) ==
    /\ p.N = Negative(Result(s), s.sf)
    /\ p.Z = (Result(s) = 0)
    /\ s.opc = SUBS_OPC =>
          /\ p.C = (s.x >= s.y)
          /\ p.V = /\ Negative(s.x, s.sf) # Negative(s.y, s.sf)
                   /\ Negative(Result(s), s.sf) = Negative(s.y, s.sf)
    /\ s.opc = ADDS_OPC =>
          /\ p.C = (s.x + s.y >= Width(s.sf))
          /\ p.V = /\ Negative(s.x, s.sf) = Negative(s.y, s.sf)
                   /\ Negative(Result(s), s.sf) # Negative(s.y, s.sf)

FlagsInv ==
    /\ TypeOK
    /\ \A n \in DOMAIN last : FlagsMean(cpu_state.PSTATE, last[n])

-----------------------------------------------------------------------------
\* The sign bit of a word of a size, and of a wider operand.
LEMMA SignBits ==
    ASSUME NEW sf \in Sizes
    PROVE  /\ \A v \in 0 .. Width(sf) - 1 :
                 SignBit(v, sf) = IF Negative(v, sf) THEN 1 ELSE 0
           /\ \A v \in Word64 :
                 SignBit(v, sf) = IF Negative(v % Width(sf), sf) THEN 1 ELSE 0
<1> DEFINE h == Half(sf)
           w == Width(sf)
<1>1. h \in Nat \ {0} /\ w \in Nat \ {0} /\ w = 2 * h
    BY Widths
<1>2. \A v : SignBit(v, sf) = (v \div h) % 2
    BY DEF SignBit, Half
<1>3. \A v : Negative(v, sf) <=> v >= h
    BY DEF Negative
<1> HIDE DEF h, w
<1>4. ASSUME NEW v \in 0 .. w - 1
      PROVE  (v \div h) % 2 = IF v >= h THEN 1 ELSE 0
    BY <1>1, TopBit
<1>5. ASSUME NEW v \in Word64
      PROVE  (v \div h) % 2 = IF v % w >= h THEN 1 ELSE 0
  <2>1. v \in Nat /\ v \in Int
    BY Widths DEF Word64
  <2>2. (v \div h) % 2 = ((v % w) \div h) % 2
    BY <1>1, <2>1, TopBitMod
  <2>3. v % w \in 0 .. w - 1
    BY <1>1, <2>1, DivisionParts
  <2>4. QED
    BY <1>4, <2>2, <2>3
<1>6. QED
    BY <1>2, <1>3, <1>4, <1>5 DEF w

\* The flags of subs_flags and adds_flags, the operand op2 any 64-bit word.
LEMMA FlagValues ==
    ASSUME NEW cpu \in State, NEW sf \in Sizes,
           NEW x \in 0 .. Width(sf) - 1, NEW op2 \in Word64,
           NEW opc \in {ADDS_OPC, SUBS_OPC}
    PROVE  LET c == IF opc = SUBS_OPC THEN subs_flags(cpu, x, op2, sf)
                                      ELSE adds_flags(cpu, x, op2, sf)
               s == [opc |-> opc, sf |-> sf, x |-> x, y |-> op2 % Width(sf)]
           IN  FlagsMean(c.PSTATE, s)
<1> DEFINE w == Width(sf)
           y == op2 % w
           d == (x - op2) % w
           e == (x + op2) % w
<1>1. w \in Nat \ {0} /\ op2 \in Int /\ x \in Int
    BY Widths DEF Word64
<1>2. y \in 0 .. w - 1
    BY <1>1, DivisionParts
<1>3. d = IF x >= y THEN x - y ELSE x - y + w
  <2>1. d = (x - y) % w
    BY <1>1, OperandMod
  <2> HIDE DEF y, d
  <2>2. QED
    BY <1>1, <1>2, <2>1, DifferenceMod
<1>4. e = IF x + y < w THEN x + y ELSE x + y - w
  <2>1. e = (x + y) % w
    BY <1>1, OperandMod
  <2> HIDE DEF y, e
  <2>2. QED
    BY <1>1, <1>2, <2>1, SumMod
<1>5. d \in 0 .. w - 1 /\ e \in 0 .. w - 1
  <2> HIDE DEF y, d, e
  <2>1. QED
    BY <1>1, <1>2, <1>3, <1>4
<1>6. /\ SignBit(x, sf) = IF Negative(x, sf) THEN 1 ELSE 0
      /\ SignBit(op2, sf) = IF Negative(y, sf) THEN 1 ELSE 0
      /\ SignBit(d, sf) = IF Negative(d, sf) THEN 1 ELSE 0
      /\ SignBit(e, sf) = IF Negative(e, sf) THEN 1 ELSE 0
    BY <1>5, SignBits
<1>7. d % w = d /\ e % w = e
    BY <1>1, <1>5, SMT
<1> DEFINE s == [opc |-> opc, sf |-> sf, x |-> x, y |-> y]
<1>8. CASE opc = SUBS_OPC
  <2> DEFINE nz == set_NZ_flags(cpu, d, sf)
             cf == ~(d > x)
             vf == /\ SignBit(x, sf) # SignBit(op2, sf)
                   /\ SignBit(d, sf) = SignBit(op2, sf)
             c == [nz EXCEPT !.PSTATE.C = cf, !.PSTATE.V = vf]
  <2>1. subs_flags(cpu, x, op2, sf) = c
    BY DEF subs_flags
  <2>2. /\ nz \in State
        /\ nz.PSTATE.N = Negative(d, sf)
        /\ nz.PSTATE.Z = (d = 0)
    <3> HIDE DEF d
    <3>1. /\ nz \in State
          /\ nz.PSTATE.N = (SignBit(d, sf) = 1)
          /\ nz.PSTATE.Z = (d % Width(sf) = 0)
      BY SetNZ
    <3>2. (SignBit(d, sf) = 1) = Negative(d, sf)
      BY <1>6 DEF Negative
    <3> HIDE DEF nz
    <3>3. QED
      BY <3>1, <3>2, <1>7
  <2>3. cf = (x >= y)
    <3> HIDE DEF d, y
    <3>1. QED
      BY <1>1, <1>2, <1>3
  <2>4. vf = /\ Negative(x, sf) # Negative(y, sf)
             /\ Negative(d, sf) = Negative(y, sf)
    <3> HIDE DEF d, y
    <3>1. QED
      BY <1>6 DEF Negative
  <2>5. cf \in BOOLEAN /\ vf \in BOOLEAN
    OBVIOUS
  <2> HIDE DEF nz, cf, vf
  <2>6. /\ c.PSTATE.N = nz.PSTATE.N /\ c.PSTATE.Z = nz.PSTATE.Z
        /\ c.PSTATE.C = cf /\ c.PSTATE.V = vf
    BY <2>2, <2>5 DEF State, PState
  <2>7. Result(s) = d
    BY <1>3, <1>8 DEF Result
  <2>8. s.opc = SUBS_OPC /\ s.opc # ADDS_OPC /\ s.sf = sf /\ s.x = x /\ s.y = y
    BY <1>8 DEF SUBS_OPC, ADDS_OPC
  <2> HIDE DEF s, c, y, d
  <2>9. FlagsMean(c.PSTATE, s)
    BY <2>2, <2>3, <2>4, <2>6, <2>7, <2>8 DEF FlagsMean
  <2>10. QED
    BY <1>8, <2>1, <2>9 DEF s, y
<1>9. CASE opc = ADDS_OPC
  <2> DEFINE nz == set_NZ_flags(cpu, e, sf)
             cf == e < x
             vf == /\ SignBit(x, sf) = SignBit(op2, sf)
                   /\ SignBit(e, sf) # SignBit(op2, sf)
             c == [nz EXCEPT !.PSTATE.C = cf, !.PSTATE.V = vf]
  <2>1. adds_flags(cpu, x, op2, sf) = c
    BY DEF adds_flags
  <2>2. /\ nz \in State
        /\ nz.PSTATE.N = Negative(e, sf)
        /\ nz.PSTATE.Z = (e = 0)
    <3> HIDE DEF e
    <3>1. /\ nz \in State
          /\ nz.PSTATE.N = (SignBit(e, sf) = 1)
          /\ nz.PSTATE.Z = (e % Width(sf) = 0)
      BY SetNZ
    <3>2. (SignBit(e, sf) = 1) = Negative(e, sf)
      BY <1>6 DEF Negative
    <3> HIDE DEF nz
    <3>3. QED
      BY <3>1, <3>2, <1>7
  <2>3. cf = (x + y >= w)
    <3> HIDE DEF e, y
    <3>1. QED
      BY <1>1, <1>2, <1>4
  <2>4. vf = /\ Negative(x, sf) = Negative(y, sf)
             /\ Negative(e, sf) # Negative(y, sf)
    <3> HIDE DEF e, y
    <3>1. QED
      BY <1>6 DEF Negative
  <2>5. cf \in BOOLEAN /\ vf \in BOOLEAN
    OBVIOUS
  <2> HIDE DEF nz, cf, vf
  <2>6. /\ c.PSTATE.N = nz.PSTATE.N /\ c.PSTATE.Z = nz.PSTATE.Z
        /\ c.PSTATE.C = cf /\ c.PSTATE.V = vf
    BY <2>2, <2>5 DEF State, PState
  <2>7. Result(s) = e
    BY <1>4, <1>9 DEF Result, SUBS_OPC, ADDS_OPC
  <2>8. s.opc # SUBS_OPC /\ s.opc = ADDS_OPC /\ s.sf = sf /\ s.x = x /\ s.y = y
    BY <1>9 DEF SUBS_OPC, ADDS_OPC
  <2> HIDE DEF s, c, y, e
  <2>9. FlagsMean(c.PSTATE, s)
    BY <2>2, <2>3, <2>4, <2>6, <2>7, <2>8 DEF FlagsMean
  <2>10. QED
    BY <1>9, <2>1, <2>9 DEF s, y, SUBS_OPC, ADDS_OPC
<1>10. QED
    BY <1>8, <1>9

-----------------------------------------------------------------------------
LEMMA SetupIsState == setup \in State
BY Widths DEF setup, State, PState, Word64

LEMMA InitFlags == Init => FlagsInv
<1> SUFFICES ASSUME Init PROVE FlagsInv
    OBVIOUS
<1>1. PICK f \in [Regs -> Values] : cpu_state = [setup EXCEPT !.R = f]
    BY DEF Init
<1>2. f \in [Regs -> Word64]
    BY ComparisonAssumption
<1>3. cpu_state \in State
    BY <1>1, <1>2, SetupIsState DEF State
<1>4. last \in Seq(Setting) /\ DOMAIN last = {}
    BY DEF Init
<1>5. QED
    BY <1>3, <1>4 DEF FlagsInv, TypeOK

LEMMA SetFlagsKeeps ==
    ASSUME FlagsInv, NEW i \in Setters, SetFlags(i)
    PROVE  FlagsInv'
<1> DEFINE sf == i.sf
           x == get_register_value(cpu_state, i.rn, sf)
           op2 == shifted(cpu_state, i.shift, i.rm, i.amount, sf)
           opc == i.opc
           s == [opc |-> opc, sf |-> sf, x |-> x, y |-> op2 % Width(sf)]
           base == IF opc = SUBS_OPC
                   THEN sub_imm(cpu_state, i.rd, i.rn, op2, sf)
                   ELSE add_imm(cpu_state, i.rd, i.rn, op2, sf)
<1>1. cpu_state \in State
    BY DEF FlagsInv, TypeOK
<1>2. /\ i.sf \in Sizes /\ i.opc \in {ADDS_OPC, SUBS_OPC} /\ i.rd \in RegNums
      /\ i.rn \in RegNums /\ i.rm \in RegNums /\ i.shift \in 0 .. 3
      /\ i.amount \in 0 .. XBits - 1 /\ i.op = "arith_reg" /\ i \in ArithReg
    BY ComparisonAssumption DEF ArithReg, SetsFlags
<1>3. op2 \in Word64
    BY <1>1, <1>2, ShiftIsWord
<1>4. x \in 0 .. Width(sf) - 1 /\ x \in Word64
    BY <1>1, <1>2, GetRegister
<1>5. execute_dpreg_instruction(cpu_state, i)
          = execute_arithmetic_instruction(cpu_state, i)
    BY <1>2 DEF execute_dpreg_instruction
<1>6. cpu_state' \in State
    BY <1>1, <1>2, <1>5, DPRegKeeps DEF SetFlags, Kept
<1>7. base \in State
  <2>1. x + op2 \in Int /\ x - op2 \in Int
    BY <1>3, <1>4 DEF Word64
  <2>2. QED
    BY <1>1, <1>2, <2>1, SetRegister DEF sub_imm, add_imm
<1>8. cpu_state' = IF opc = SUBS_OPC THEN subs_flags(base, x, op2, sf)
                                     ELSE adds_flags(base, x, op2, sf)
    BY <1>2 DEF SetFlags, execute_arithmetic_instruction, arithmetic, adds_imm,
                subs_imm, ADD_OPC, ADDS_OPC, SUB_OPC, SUBS_OPC
<1>9. last' = <<s>>
    BY DEF SetFlags
<1>10. s \in Setting /\ s.x < Width(s.sf) /\ s.y < Width(s.sf)
  <2>1. Width(sf) \in Nat \ {0} /\ Width(sf) <= XMod /\ XMod \in Nat /\ op2 \in Int
    BY <1>2, <1>3, Widths DEF Word64
  <2>2. op2 % Width(sf) \in 0 .. Width(sf) - 1
    BY <2>1, DivisionParts
  <2> DEFINE y == op2 % Width(sf)
  <2> HIDE DEF x, op2, y
  <2>3. y \in Word64 /\ y < Width(sf) /\ x < Width(sf)
    BY <1>4, <2>1, <2>2 DEF Word64, y
  <2>4. QED
    BY <1>2, <1>4, <2>3 DEF Setting, y
<1> HIDE DEF sf, x, op2, opc, base
<1>11. sf \in Sizes /\ opc \in {ADDS_OPC, SUBS_OPC}
    BY <1>2 DEF sf, opc
<1>12. FlagsMean(cpu_state'.PSTATE, s)
    BY <1>3, <1>4, <1>7, <1>8, <1>11, FlagValues
<1> HIDE DEF s
<1>13. last' \in Seq(Setting) /\ \A n \in DOMAIN last' : last'[n] = s
    BY <1>9, <1>10
<1>14. QED
    BY <1>6, <1>10, <1>12, <1>13 DEF FlagsInv, TypeOK

LEMMA KeepFlagsKeeps ==
    ASSUME FlagsInv, NEW i \in Others, KeepFlags(i)
    PROVE  FlagsInv'
<1>1. cpu_state \in State
    BY DEF FlagsInv, TypeOK
<1>2. i \in DPInstruction /\ KeepsFlags(i) /\ ~IllegalShift(i)
    BY ComparisonAssumption
<1>3. cpu_state' \in State /\ cpu_state'.PSTATE = cpu_state.PSTATE
  <2>1. CASE i \in ArithImm \cup WideMove
    <3>1. i.op \in {"arith_imm", "wide_move"}
      BY <2>1 DEF ArithImm, WideMove
    <3>2. QED
      BY <1>1, <1>2, <2>1, <3>1, DPImmKeeps DEF KeepFlags, KeepsFlags, Kept
  <2>2. CASE i \in ArithReg \cup LogicReg \cup MultiplyReg
    <3>1. i.op \in {"arith_reg", "logic_reg", "multiply_reg"}
      BY <2>2 DEF ArithReg, LogicReg, MultiplyReg
    <3>2. QED
      BY <1>1, <1>2, <2>2, <3>1, DPRegKeeps DEF KeepFlags, KeepsFlags, Kept
  <2>3. QED
    BY <1>2, <2>1, <2>2 DEF DPInstruction
<1>4. last' = last
    BY DEF KeepFlags
<1>5. QED
    BY <1>3, <1>4 DEF FlagsInv, TypeOK

\* FlagsInv holds in every reachable state.
THEOREM FlagsInvariant == Spec => []FlagsInv
<1>1. FlagsInv /\ [Next]_vars => FlagsInv'
  <2> SUFFICES ASSUME FlagsInv, [Next]_vars PROVE FlagsInv'
    OBVIOUS
  <2>1. CASE Next
    BY <2>1, SetFlagsKeeps, KeepFlagsKeeps DEF Next
  <2>2. CASE UNCHANGED vars
    BY <2>2 DEF vars, FlagsInv, TypeOK
  <2>3. QED
    BY <2>1, <2>2
<1>2. QED
    BY <1>1, InitFlags, PTL DEF Spec

\* Type correctness.
THEOREM TypeCorrect == Spec => []TypeOK
BY FlagsInvariant, PTL DEF FlagsInv

-----------------------------------------------------------------------------
\* Signed numbers by their halves.
LEMMA SignedValue ==
    ASSUME NEW sf \in Sizes, NEW v \in 0 .. Width(sf) - 1
    PROVE  Signed(v, sf) = IF Negative(v, sf) THEN v - Width(sf) ELSE v
BY SignBits DEF Signed

\* The facts of arithmetic about one setting that the properties need.
LEMMA SettingFacts ==
    ASSUME FlagsInv, NEW n \in DOMAIN last
    PROVE  LET s == last[n]
               w == Width(s.sf)
               h == Half(s.sf)
           IN  /\ s.sf \in Sizes /\ h \in Nat \ {0} /\ w = 2 * h
               /\ s.x \in 0 .. w - 1 /\ s.y \in 0 .. w - 1
               /\ s.opc \in {ADDS_OPC, SUBS_OPC}
               /\ SignedX(s) = IF s.x >= h THEN s.x - w ELSE s.x
               /\ SignedY(s) = IF s.y >= h THEN s.y - w ELSE s.y
               /\ FlagsMean(cpu_state.PSTATE, s)
               /\ cpu_state.PSTATE \in PState
<1> DEFINE s == last[n]
<1>1. s \in Setting /\ s.x < Width(s.sf) /\ s.y < Width(s.sf)
    BY DEF FlagsInv, TypeOK
<1>2. FlagsMean(cpu_state.PSTATE, s) /\ cpu_state.PSTATE \in PState
    BY DEF FlagsInv, TypeOK, State
<1> HIDE DEF s
<1>3. /\ s.sf \in Sizes /\ s.opc \in {ADDS_OPC, SUBS_OPC}
      /\ s.x \in Word64 /\ s.y \in Word64
    BY <1>1 DEF Setting
<1>4. /\ Half(s.sf) \in Nat \ {0} /\ Width(s.sf) = 2 * Half(s.sf)
      /\ Width(s.sf) \in Nat
    BY <1>3, Widths
<1>5. s.x \in 0 .. Width(s.sf) - 1 /\ s.y \in 0 .. Width(s.sf) - 1
    BY <1>1, <1>3, <1>4 DEF Word64
<1>6. /\ SignedX(s) = IF s.x >= Half(s.sf) THEN s.x - Width(s.sf) ELSE s.x
      /\ SignedY(s) = IF s.y >= Half(s.sf) THEN s.y - Width(s.sf) ELSE s.y
    BY <1>3, <1>5, SignedValue DEF SignedX, SignedY, Negative
<1>7. QED
    BY <1>2, <1>3, <1>4, <1>5, <1>6 DEF s

\* The decisions as conditions on the flags.
LEMMA TakenFlags ==
    LET p == cpu_state.PSTATE
    IN  /\ Taken(COND_EQ) <=> p.Z
        /\ Taken(COND_NE) <=> ~p.Z
        /\ Taken(COND_GE) <=> ~p.N
        /\ Taken(COND_LT) <=> p.N
        /\ Taken(COND_GT) <=> (~p.Z /\ p.N = p.V)
        /\ Taken(COND_LE) <=> ~(~p.Z /\ p.N = p.V)
<1> DEFINE p == cpu_state.PSTATE
<1>1. Jumps(p, 0) <=> p.Z
    BY DEF Jumps, COND_EQ, COND_NE, COND_GE, COND_LT, COND_GT, COND_LE, COND_AL
<1>2. Jumps(p, 1) <=> ~p.Z
    BY DEF Jumps, COND_EQ, COND_NE, COND_GE, COND_LT, COND_GT, COND_LE, COND_AL
<1>3. Jumps(p, 10) <=> ~p.N
    BY DEF Jumps, COND_EQ, COND_NE, COND_GE, COND_LT, COND_GT, COND_LE, COND_AL
<1>4. Jumps(p, 11) <=> p.N
    BY DEF Jumps, COND_EQ, COND_NE, COND_GE, COND_LT, COND_GT, COND_LE, COND_AL
<1>5. Jumps(p, 12) <=> (~p.Z /\ p.N = p.V)
    BY DEF Jumps, COND_EQ, COND_NE, COND_GE, COND_LT, COND_GT, COND_LE, COND_AL
<1>6. Jumps(p, 13) <=> ~(~p.Z /\ p.N = p.V)
    BY DEF Jumps, COND_EQ, COND_NE, COND_GE, COND_LT, COND_GT, COND_LE, COND_AL
<1>7. QED
    BY <1>1, <1>2, <1>3, <1>4, <1>5, <1>6
       DEF Taken, COND_EQ, COND_NE, COND_GE, COND_LT, COND_GT, COND_LE

\* b.eq, b.ne, b.gt and b.le decide the order of the operands compared.
THEOREM BranchesDecideOrderHolds == Spec => []BranchesDecideOrder
<1>1. FlagsInv => BranchesDecideOrder
  <2> SUFFICES ASSUME FlagsInv, NEW n \in DOMAIN last, last[n].opc = SUBS_OPC
               PROVE  /\ Taken(COND_EQ) <=> last[n].x = last[n].y
                      /\ Taken(COND_NE) <=> last[n].x # last[n].y
                      /\ Taken(COND_GT) <=> SignedX(last[n]) > SignedY(last[n])
                      /\ Taken(COND_LE) <=> SignedX(last[n]) <= SignedY(last[n])
    BY DEF BranchesDecideOrder
  <2> DEFINE s == last[n]
             p == cpu_state.PSTATE
             w == Width(s.sf)
             h == Half(s.sf)
             x == s.x
             y == s.y
             sx == SignedX(s)
             sy == SignedY(s)
             d == Result(s)
  <2>1. /\ h \in Nat \ {0} /\ w = 2 * h
        /\ x \in 0 .. w - 1 /\ y \in 0 .. w - 1
        /\ sx = (IF x >= h THEN x - w ELSE x)
        /\ sy = (IF y >= h THEN y - w ELSE y)
        /\ d = (IF x >= y THEN x - y ELSE x - y + w)
    BY SettingFacts DEF Result
  <2>2. /\ p.N <=> d >= h
        /\ p.Z <=> d = 0
        /\ p.V <=> /\ ~((x >= h) <=> (y >= h))
                   /\ (d >= h) <=> (y >= h)
    <3>1. /\ p.N = (d >= h) /\ p.Z = (d = 0)
          /\ p.V = /\ (x >= h) # (y >= h)
                   /\ (d >= h) = (y >= h)
      BY SettingFacts DEF FlagsMean, Negative
    <3> DEFINE a == x >= h
               b == y >= h
               c == d >= h
               z == d = 0
    <3> HIDE DEF x, y, d, h, p
    <3>2. p.N = c /\ p.Z = z /\ p.V = (a # b /\ c = b)
      BY <3>1, Zenon
    <3>3. a \in BOOLEAN /\ b \in BOOLEAN /\ c \in BOOLEAN /\ z \in BOOLEAN
      OBVIOUS
    <3> HIDE DEF a, b, c, z
    <3>4. (p.N <=> c) /\ (p.Z <=> z) /\ (p.V <=> ~(a <=> b) /\ (c <=> b))
      BY <3>2, <3>3, Zenon
    <3>5. QED
      BY <3>4, Zenon DEF a, b, c, z
  <2>3. (p.N = p.V) <=> (p.N <=> p.V)
    BY SettingFacts DEF PState
  <2> HIDE DEF x, y, d, h, w, p, sx, sy, s
  <2>4. p.Z <=> x = y
    BY <2>1, <2>2
  <2>5. (~p.Z /\ (p.N <=> p.V)) <=> sx > sy
    BY <2>1, <2>2
  <2>6. sx \in Int /\ sy \in Int
    BY <2>1
  <2>7. sx <= sy <=> ~(sx > sy)
    BY <2>6
  <2>8. QED
    BY <2>3, <2>4, <2>5, <2>7, TakenFlags DEF x, y, sx, sy, s, p
<1>2. QED
    BY <1>1, FlagsInvariant, PTL

\* b.ge and b.lt decide it exactly when the difference does not overflow.
THEOREM GreaterEqualUnlessOverflowHolds ==
    Spec => []GreaterEqualUnlessOverflow
<1>1. FlagsInv => GreaterEqualUnlessOverflow
  <2> SUFFICES ASSUME FlagsInv, NEW n \in DOMAIN last, last[n].opc = SUBS_OPC
               PROVE  LET fits == Representable(SignedResult(last[n]), last[n].sf)
                      IN  /\ (Taken(COND_GE) <=> SignedX(last[n]) >= SignedY(last[n])) <=> fits
                          /\ (Taken(COND_LT) <=> SignedX(last[n]) < SignedY(last[n])) <=> fits
    BY DEF GreaterEqualUnlessOverflow
  <2> DEFINE s == last[n]
             p == cpu_state.PSTATE
             w == Width(s.sf)
             h == Half(s.sf)
             x == s.x
             y == s.y
             sx == SignedX(s)
             sy == SignedY(s)
             d == Result(s)
             fits == sx - sy >= -h /\ sx - sy < h
  <2>1. /\ h \in Nat \ {0} /\ w = 2 * h
        /\ x \in 0 .. w - 1 /\ y \in 0 .. w - 1
        /\ sx = (IF x >= h THEN x - w ELSE x)
        /\ sy = (IF y >= h THEN y - w ELSE y)
        /\ d = (IF x >= y THEN x - y ELSE x - y + w)
    BY SettingFacts DEF Result
  <2>2. p.N <=> d >= h
    BY SettingFacts DEF FlagsMean, Negative
  <2>4. Representable(SignedResult(s), s.sf) = fits
    BY DEF Representable, SignedResult, Half
  <2> HIDE DEF x, y, d, h, w, p, sx, sy, s
  <2>5. (~p.N <=> sx >= sy) <=> fits
    BY <2>1, <2>2
  <2>6. (p.N <=> sx < sy) <=> fits
    BY <2>1, <2>2
  <2>7. QED
    BY <2>4, <2>5, <2>6, TakenFlags DEF sx, sy, s, p
<1>2. QED
    BY <1>1, FlagsInvariant, PTL

\* C is the carry or the absence of a borrow, V the signed overflow.
THEOREM CarryAndOverflowHolds == Spec => []CarryAndOverflow
<1>1. FlagsInv => CarryAndOverflow
  <2> SUFFICES ASSUME FlagsInv, NEW n \in DOMAIN last
               PROVE  /\ cpu_state.PSTATE.C <=>
                            IF last[n].opc = SUBS_OPC
                            THEN last[n].x >= last[n].y
                            ELSE last[n].x + last[n].y >= Width(last[n].sf)
                      /\ cpu_state.PSTATE.V <=>
                            ~Representable(SignedResult(last[n]), last[n].sf)
    BY DEF CarryAndOverflow
  <2> DEFINE s == last[n]
             p == cpu_state.PSTATE
             w == Width(s.sf)
             h == Half(s.sf)
             x == s.x
             y == s.y
             sx == SignedX(s)
             sy == SignedY(s)
             d == Result(s)
             sr == SignedResult(s)
  <2>1. /\ h \in Nat \ {0} /\ w = 2 * h
        /\ x \in 0 .. w - 1 /\ y \in 0 .. w - 1
        /\ sx = (IF x >= h THEN x - w ELSE x)
        /\ sy = (IF y >= h THEN y - w ELSE y)
        /\ s.opc \in {ADDS_OPC, SUBS_OPC} /\ FlagsMean(p, s)
    BY SettingFacts
  <2>2. Representable(sr, s.sf) = (sr >= -h /\ sr < h)
    BY DEF Representable, Half
  <2>3. CASE s.opc = SUBS_OPC
    <3>1. d = (IF x >= y THEN x - y ELSE x - y + w) /\ sr = sx - sy
      BY <2>3 DEF Result, SignedResult
    <3>2. /\ p.C = (x >= y)
          /\ p.V = /\ (x >= h) # (y >= h)
                   /\ (d >= h) = (y >= h)
      BY <2>1, <2>3 DEF FlagsMean, Negative
    <3> HIDE DEF x, y, d, h, w, p, sx, sy, sr
    <3>3. p.V <=> ~(sr >= -h /\ sr < h)
      BY <2>1, <3>1, <3>2
    <3> HIDE DEF s
    <3>4. (p.C <=> x >= y) /\ (p.V <=> ~Representable(sr, s.sf))
      BY <2>2, <3>2, <3>3
    <3>5. QED
      BY <2>3, <3>4 DEF x, y, p, sr, s
  <2>4. CASE s.opc = ADDS_OPC
    <3>0. s.opc # SUBS_OPC
      BY <2>4 DEF ADDS_OPC, SUBS_OPC
    <3>1. d = (IF x + y < w THEN x + y ELSE x + y - w) /\ sr = sx + sy
      BY <3>0 DEF Result, SignedResult
    <3>2. /\ p.C = (x + y >= w)
          /\ p.V = /\ (x >= h) = (y >= h)
                   /\ (d >= h) # (y >= h)
      BY <2>1, <2>4 DEF FlagsMean, Negative
    <3> HIDE DEF x, y, d, h, w, p, sx, sy, sr
    <3>3. p.V <=> ~(sr >= -h /\ sr < h)
      BY <2>1, <3>1, <3>2
    <3> HIDE DEF s
    <3>4. (p.C <=> x + y >= w) /\ (p.V <=> ~Representable(sr, s.sf))
      BY <2>2, <3>2, <3>3
    <3>5. QED
      BY <3>0, <3>4 DEF x, y, w, p, sr, s
  <2>5. QED
    BY <2>1, <2>3, <2>4
<1>2. QED
    BY <1>1, FlagsInvariant, PTL

-----------------------------------------------------------------------------
(***************************************************************************)
(* The bits of a word.                                                     *)
(***************************************************************************)
\* Induction over the natural numbers, from their order.
LEMMA Induction ==
    ASSUME NEW T, 0 \in T, \A n \in Nat : n \in T => n + 1 \in T
    PROVE  Nat \subseteq T
<1> SUFFICES ASSUME Nat \ T # {} PROVE FALSE
    OBVIOUS
<1> DEFINE R == {ss \in Nat \X Nat : ss[1] < ss[2]}
<1>1. IsWellFoundedOn(R, Nat)
    BY NatLessThanWellFounded DEF OpToRel
<1>2. PICK x \in Nat \ T : \A y \in Nat \ T : <<y, x>> \notin R
  <2>1. Nat \ T \subseteq Nat
    OBVIOUS
  <2>2. QED BY <1>1, <2>1, WFMin
<1>3. x # 0 /\ x - 1 \in Nat
    BY <1>2
<1>4. x - 1 \in T
  <2>1. <<x - 1, x>> \in R
    BY <1>2, <1>3
  <2>2. QED BY <1>2, <1>3, <2>1
<1>5. (x - 1) + 1 \in T
    BY <1>3, <1>4
<1>6. QED
    BY <1>2, <1>5

\* The power of a sum is the product of the powers.
LEMMA PowerOfSum ==
    ASSUME NEW a \in Nat, NEW b \in Nat, a + b <= XBits
    PROVE  2^(a + b) = 2^a * 2^b
<1> DEFINE T == {k \in Nat : a + k <= XBits => 2^(a + k) = 2^a * 2^k}
<1>0. XBits \in Nat
  BY Bits
<1>1. 0 \in T
  <2>1. 2^a \in Nat
    BY <1>0, Powers
  <2>2. 2^(a + 0) = 2^a
    OBVIOUS
  <2>3. 2^a * 2^0 = 2^a
    BY <2>1
  <2>4. QED BY <2>2, <2>3
<1>2. ASSUME NEW k \in Nat, k \in T PROVE k + 1 \in T
  <2>1. CASE a + (k + 1) <= XBits
    <3>1. a + k \in 0 .. XBits - 1 /\ k \in 0 .. XBits - 1
      BY <1>0, <2>1
    <3>2. 2^(a + k) = 2^a * 2^k
      BY <1>0, <1>2, <2>1
    <3>3. 2^((a + k) + 1) = 2 * 2^(a + k) /\ 2^(k + 1) = 2 * 2^k
      BY <3>1, ByteAssumption
    <3>4. 2^a \in Nat /\ 2^k \in Nat
      BY <1>0, <2>1, Powers
    <3> DEFINE p == 2^a
               q == 2^k
    <3>5. 2 * (p * q) = p * (2 * q)
      <4>1. p \in Nat /\ q \in Nat BY <3>4
      <4> HIDE DEF p, q
      <4>2. QED BY <4>1
    <3>6. (a + k) + 1 = a + (k + 1)
      OBVIOUS
    <3>7. 2^(a + (k + 1)) = 2^a * 2^(k + 1)
      BY <3>2, <3>3, <3>5, <3>6
    <3>8. QED BY <3>7
  <2>2. QED BY <2>1
<1> HIDE DEF T
<1>3. b \in T
  BY <1>1, <1>2, Induction
<1>4. QED BY <1>3 DEF T

\* A larger power is an even multiple of a smaller one, and not smaller.
LEMMA PowerSplit ==
    ASSUME NEW j \in Nat, NEW n \in Nat, j < n, n <= XBits
    PROVE  \E e \in Nat \ {0} : 2^n = 2^j * (2 * e)
<1>0. XBits \in Nat
  BY Bits
<1>1. n - 1 - j \in Nat /\ n - 1 - j \in 0 .. XBits - 1
  BY <1>0
<1> DEFINE d == n - 1 - j
<1>2. 2^(d + 1) = 2 * 2^d
  BY <1>1, ByteAssumption
<1>3. d + 1 \in Nat /\ j + (d + 1) = n
  BY <1>1
<1> HIDE DEF d
<1>4. 2^(j + (d + 1)) = 2^j * 2^(d + 1)
  BY <1>3, PowerOfSum
<1>5. 2^n = 2^j * (2 * 2^d)
  BY <1>2, <1>3, <1>4
<1>6. 2^d \in Nat \ {0}
  BY <1>0, <1>1, Powers DEF d
<1>7. QED BY <1>5, <1>6

\* Powers of two grow with the exponent.
LEMMA PowerOrder ==
    ASSUME NEW j \in Nat, NEW n \in Nat, j <= n, n <= XBits
    PROVE  2^j \in Nat \ {0} /\ 2^n \in Nat \ {0} /\ 2^j <= 2^n
<1>0. XBits \in Nat
  BY Bits
<1>1. 2^j \in Nat \ {0} /\ 2^n \in Nat \ {0}
  BY <1>0, Powers
<1>2. CASE j = n BY <1>1, <1>2
<1>3. CASE j < n
  <2>1. PICK e \in Nat \ {0} : 2^n = 2^j * (2 * e)
    BY <1>3, PowerSplit
  <2> DEFINE p == 2^j
             q == 2^n
  <2>2. p \in Nat \ {0} /\ q \in Nat \ {0} /\ q = p * (2 * e)
    BY <1>1, <2>1
  <2> HIDE DEF p, q
  <2>3. p <= q
    BY <2>2, Z3
  <2>4. QED BY <1>1, <2>3 DEF p, q
<1>4. QED BY <1>2, <1>3

\* The widths are powers of two.
LEMMA WidthPower ==
    /\ WMod = 2^WBits /\ XMod = 2^XBits
    /\ \A sf \in Sizes : Width(sf) = 2^NumBits(sf) /\ NumBits(sf) \in 1 .. XBits
<1>0. /\ ByteBits \in Nat \ {0} /\ ByteMod = 2^ByteBits /\ ByteMod \in Nat
      /\ XBits = 8 * ByteBits /\ WBits = 4 * ByteBits
  BY ByteAssumption DEF XBits, WBits
<1> DEFINE b == ByteBits
<1>1. 2^(b + b) = ByteMod * ByteMod
  <2>1. 2^(b + b) = 2^b * 2^b
    BY <1>0, PowerOfSum
  <2>2. QED BY <1>0, <2>1
<1>2. 2^((b + b) + b) = ByteMod * ByteMod * ByteMod
  <2>1. b + b \in Nat /\ (b + b) + b <= XBits
    BY <1>0
  <2>2. 2^((b + b) + b) = 2^(b + b) * 2^b
    BY <1>0, <2>1, PowerOfSum
  <2>3. QED BY <1>0, <1>1, <2>2
<1>3. 2^(((b + b) + b) + b) = WMod
  <2>1. (b + b) + b \in Nat /\ ((b + b) + b) + b <= XBits
    BY <1>0
  <2>2. 2^(((b + b) + b) + b) = 2^((b + b) + b) * 2^b
    BY <1>0, <2>1, PowerOfSum
  <2>3. QED BY <1>0, <1>2, <2>2 DEF WMod
<1>4. ((b + b) + b) + b = WBits
  BY <1>0
<1>5. WMod = 2^WBits
  BY <1>3, <1>4
<1>6. WBits \in Nat /\ WBits + WBits = XBits
  BY <1>0
<1>7. 2^(WBits + WBits) = 2^WBits * 2^WBits
  BY <1>0, <1>6, PowerOfSum
<1>8. XMod = 2^XBits
  BY <1>5, <1>6, <1>7 DEF XMod
<1>9. QED
  BY <1>5, <1>8, Bits DEF Sizes, Width, NumBits

-----------------------------------------------------------------------------
\* Bit i of a number, of a negative one in two's complement.
Bit(v, i) == (v \div 2^i) % 2

\* A quotient of a quotient.
LEMMA DivideTwice ==
    ASSUME NEW p \in Nat \ {0}, NEW q \in Nat \ {0}, NEW v \in Int
    PROVE  (v \div p) \div q = v \div (p * q)
<1> DEFINE x == v \div p
           r == v % p
           y == x \div q
           s == x % q
<1>1. v = p * x + r /\ r \in 0 .. p - 1 /\ x \in Int
  BY DivisionParts
<1>2. x = q * y + s /\ s \in 0 .. q - 1 /\ y \in Int
  <2>1. x \in Int BY <1>1
  <2> HIDE DEF x
  <2>2. QED BY <2>1, DivisionParts
<1> HIDE DEF x, r, y, s
<1>3. p * q \in Nat \ {0}
  BY Z3
<1>4. p * s + r \in 0 .. p * q - 1
  <2>1. s + 1 <= q /\ s \in Nat /\ p \in Nat /\ q \in Nat
    BY <1>2
  <2>2. p * (s + 1) <= p * q
    BY <2>1, Z3
  <2>3. p * (s + 1) = p * s + p /\ p * s \in Nat /\ p * q \in Nat
    BY <2>1, Z3
  <2>4. QED BY <1>1, <2>2, <2>3
<1>5. v = (p * q) * y + (p * s + r)
  <2>1. v = p * (q * y + s) + r
    BY <1>1, <1>2
  <2>2. p * (q * y + s) = (p * q) * y + p * s
    BY <1>2, Z3
  <2> DEFINE c == (p * q) * y
             d == p * s
  <2>3. c \in Int /\ d \in Int
    BY <1>2, Z3
  <2>4. v = (c + d) + r
    BY <2>1, <2>2
  <2> HIDE DEF c, d
  <2>5. v = c + (d + r)
    BY <1>1, <2>3, <2>4
  <2>6. QED BY <2>5 DEF c, d
<1> DEFINE m == p * q
           t == p * s + r
<1> HIDE DEF m, t
<1>6. (m * y + t) \div m = y
  BY <1>2, <1>3, <1>4, DivisionUnique DEF m, t
<1>7. v \div (p * q) = y
  BY <1>5, <1>6 DEF m, t
<1>8. QED BY <1>7 DEF y, x

\* A multiple of the divisor divides.
LEMMA DivideMultiple ==
    ASSUME NEW p \in Nat \ {0}, NEW v \in Int
    PROVE  (p * v) \div p = v
<1>1. 0 \in 0 .. p - 1
  OBVIOUS
<1>2. (p * v + 0) \div p = v
  BY <1>1, DivisionUnique
<1>3. p * v \in Int
  BY Z3
<1>4. p * v + 0 = p * v
  BY <1>3
<1>5. QED BY <1>2, <1>4

\* A multiple of p * (2 * e) added to a number does not change the bit at p.
LEMMA BitBelow ==
    ASSUME NEW p \in Nat \ {0}, NEW c \in Int, NEW v \in Int
    PROVE  ((v + p * (2 * c)) \div p) % 2 = (v \div p) % 2
<1> DEFINE x == v \div p
           r == v % p
<1>1. v = p * x + r /\ r \in 0 .. p - 1 /\ x \in Int
  BY DivisionParts
<1> HIDE DEF x, r
<1>2. v + p * (2 * c) = p * (x + 2 * c) + r
  BY <1>1, Z3
<1>3. x + 2 * c \in Int
  BY <1>1
<1>4. (p * (x + 2 * c) + r) \div p = x + 2 * c
  BY <1>1, <1>3, DivisionUnique
<1>5. (x + 2 * c) % 2 = x % 2
  BY <1>1, ModShift
<1>6. QED BY <1>2, <1>4, <1>5 DEF x

\* A bit is zero or one.
LEMMA BitType ==
    ASSUME NEW v \in Int, NEW i \in 0 .. XBits
    PROVE  Bit(v, i) \in {0, 1}
<1>1. 2^i \in Nat \ {0}
  BY Powers
<1> DEFINE p == 2^i
<1> HIDE DEF p
<1>2. p \in Nat \ {0} BY <1>1 DEF p
<1>3. v \div p \in Int
  BY <1>2, DivisionParts
<1> DEFINE x == v \div p
<1> HIDE DEF x
<1>4. x % 2 \in 0 .. 1
  BY <1>3 DEF x
<1>5. QED BY <1>4 DEF Bit, x, p

\* The bits of a quotient.
LEMMA BitOfQuotient ==
    ASSUME NEW v \in Int, NEW a \in Nat, NEW i \in Nat, a + i <= XBits
    PROVE  Bit(v \div 2^a, i) = Bit(v, a + i)
<1>1. a \in 0 .. XBits /\ i \in 0 .. XBits
  BY Bits
<1> DEFINE p == 2^a
           q == 2^i
<1>2. p \in Nat \ {0} /\ q \in Nat \ {0}
  BY <1>1, Powers
<1>3. 2^(a + i) = p * q
  BY PowerOfSum
<1> HIDE DEF p, q
<1>4. (v \div p) \div q = v \div (p * q)
  BY <1>2, DivideTwice
<1>5. QED BY <1>3, <1>4 DEF Bit, p, q

\* The bits of a remainder below its width.
LEMMA BitOfRemainder ==
    ASSUME NEW v \in Int, NEW n \in 0 .. XBits, NEW i \in 0 .. n - 1
    PROVE  Bit(v % 2^n, i) = Bit(v, i)
<1>1. i \in Nat /\ n \in Nat /\ i < n /\ n <= XBits /\ i \in 0 .. XBits
  BY Bits
<1>2. PICK e \in Nat \ {0} : 2^n = 2^i * (2 * e)
  BY <1>1, PowerSplit
<1> DEFINE p == 2^i
           m == 2^n
           x == v % m
           q == v \div m
<1>3. p \in Nat \ {0} /\ m \in Nat \ {0} /\ m = p * (2 * e)
  BY <1>1, <1>2, Powers
<1> HIDE DEF p, m
<1>4. v = m * q + x /\ x \in 0 .. m - 1 /\ q \in Int
  BY <1>3, DivisionParts
<1>5. x \in Int /\ e * q \in Int
  BY <1>3, <1>4, Z3
<1> HIDE DEF q, x
<1>6. v = x + p * (2 * (e * q))
  <2>1. m * q = p * (2 * (e * q))
    BY <1>3, <1>4, Z3
  <2>2. m * q \in Int
    BY <1>3, <1>4, Z3
  <2> DEFINE c == m * q
  <2>3. v = c + x /\ c \in Int /\ c = p * (2 * (e * q))
    BY <1>4, <2>1, <2>2
  <2> HIDE DEF c
  <2>4. v = x + c
    BY <1>5, <2>3
  <2>5. QED BY <2>3, <2>4
<1>7. ((x + p * (2 * (e * q))) \div p) % 2 = (x \div p) % 2
  BY <1>3, <1>5, BitBelow
<1>8. QED BY <1>6, <1>7 DEF Bit, x, p, m

\* The bits of a multiple by a power of two.
LEMMA BitOfProduct ==
    ASSUME NEW v \in Int, NEW a \in 0 .. XBits, NEW i \in 0 .. XBits
    PROVE  Bit(v * 2^a, i) = IF i >= a THEN Bit(v, i - a) ELSE 0
<1>0. a \in Nat /\ i \in Nat /\ a <= XBits /\ i <= XBits /\ XBits \in Nat
  BY Bits
<1> DEFINE p == 2^a
<1>1. p \in Nat \ {0}
  BY Powers
<1>2. CASE i >= a
  <2> DEFINE q == 2^(i - a)
  <2>1. i - a \in Nat /\ i - a \in 0 .. XBits /\ a + (i - a) = i
    BY <1>0, <1>2
  <2>2. q \in Nat \ {0}
    BY <2>1, Powers
  <2>3. 2^(a + (i - a)) = p * q
    BY <1>0, <2>1, PowerOfSum
  <2> HIDE DEF p, q
  <2>4. (p * v) \div (p * q) = ((p * v) \div p) \div q
    <3>1. p * v \in Int
      BY <1>1, Z3
    <3>2. QED BY <1>1, <2>2, <3>1, DivideTwice
  <2>5. (p * v) \div p = v
    BY <1>1, DivideMultiple
  <2>6. p * v = v * p
    BY <1>1
  <2>7. (v * p) \div 2^i = v \div q
    BY <2>1, <2>3, <2>4, <2>5, <2>6
  <2>8. QED BY <1>2, <2>7 DEF Bit, p, q
<1>3. CASE i < a
  <2>1. PICK e \in Nat \ {0} : 2^a = 2^i * (2 * e)
    BY <1>0, <1>3, PowerSplit
  <2> DEFINE q == 2^i
  <2>2. q \in Nat \ {0} /\ p = q * (2 * e)
    BY <2>1, Powers
  <2> HIDE DEF p, q
  <2>3. v * p = 0 + q * (2 * (e * v)) /\ e * v \in Int
    BY <1>1, <2>2, Z3
  <2>4. ((0 + q * (2 * (e * v))) \div q) % 2 = (0 \div q) % 2
    BY <2>2, <2>3, BitBelow
  <2>5. (0 \div q) % 2 = 0
    BY <2>2
  <2>6. QED BY <1>3, <1>0, <2>3, <2>4, <2>5 DEF Bit, p, q
<1>4. QED BY <1>0, <1>2, <1>3

\* Beyond its width a number has the bits of its sign.
LEMMA BitsOfSign ==
    ASSUME NEW n \in Nat, NEW i \in 0 .. XBits, n <= i
    PROVE  /\ \A v \in 0 .. 2^n - 1 : Bit(v, i) = 0
           /\ \A v \in -(2^n) .. -1 : Bit(v, i) = 1
<1> DEFINE p == 2^i
           m == 2^n
<1>1. p \in Nat \ {0} /\ m \in Nat \ {0} /\ m <= p
  BY PowerOrder, Bits
<1> HIDE DEF p, m
<1>2. ASSUME NEW v \in 0 .. m - 1 PROVE (v \div p) % 2 = 0
  <2>1. v = p * 0 + v /\ v \in 0 .. p - 1
    BY <1>1
  <2>2. v \div p = 0
    BY <1>1, <2>1, DivisionUnique
  <2>3. QED BY <2>2
<1>3. ASSUME NEW v \in -m .. -1 PROVE (v \div p) % 2 = 1
  <2>1. v = p * (-1) + (v + p) /\ v + p \in 0 .. p - 1 /\ -1 \in Int
    BY <1>1
  <2>2. v \div p = -1
    BY <1>1, <2>1, DivisionUnique
  <2>3. QED BY <2>2
<1>4. QED BY <1>2, <1>3 DEF Bit, p, m

\* The range of a quotient by a power of two.
LEMMA QuotientRange ==
    ASSUME NEW n \in 0 .. XBits, NEW a \in 0 .. XBits
    PROVE  LET m == IF n >= a THEN n - a ELSE 0
           IN  /\ m \in 0 .. XBits
               /\ \A v \in 0 .. 2^n - 1 : v \div 2^a \in 0 .. 2^m - 1
               /\ \A v \in -(2^n) .. -1 : v \div 2^a \in -(2^m) .. -1
<1> DEFINE m == IF n >= a THEN n - a ELSE 0
           p == 2^a
           q == 2^m
           k == 2^n
<1>0. XBits \in Nat /\ n \in Nat /\ a \in Nat /\ m \in 0 .. XBits /\ m \in Nat
  BY Bits
<1>1. a + m \in Nat /\ n <= a + m /\ a + m <= XBits
  BY <1>0
<1> HIDE DEF m
<1>2. 2^(a + m) = p * q
  BY <1>0, <1>1, PowerOfSum
<1>3. k <= p * q
  BY <1>0, <1>1, <1>2, PowerOrder
<1>4. p \in Nat \ {0} /\ q \in Nat \ {0} /\ k \in Nat \ {0}
  BY <1>0, Powers
<1> HIDE DEF p, q, k
<1>5. ASSUME NEW v \in Int
      PROVE  /\ v \in 0 .. k - 1 => v \div p \in 0 .. q - 1
             /\ v \in -k .. -1 => v \div p \in -q .. -1
  <2> DEFINE x == v \div p
             r == v % p
  <2>1. v = p * x + r /\ r \in 0 .. p - 1 /\ x \in Int
    BY <1>4, DivisionParts
  <2> HIDE DEF x, r
  <2>2. ASSUME v < p * q PROVE x < q
    <3>1. CASE x >= q
      <4>1. p * x >= p * q
        BY <1>4, <2>1, <3>1, Z3
      <4>2. p * x \in Int /\ p * q \in Int
        BY <1>4, <2>1, Z3
      <4>3. QED BY <1>4, <2>1, <2>2, <4>1, <4>2
    <3>2. QED BY <3>1, <1>4, <2>1
  <2>3. ASSUME v >= -(p * q) PROVE x >= -q
    <3>1. CASE x + 1 <= -q
      <4>1. p * (x + 1) <= p * (-q)
        BY <1>4, <2>1, <3>1, Z3
      <4>2. p * (x + 1) = p * x + p /\ p * (-q) = -(p * q)
        BY <1>4, <2>1, Z3
      <4>3. p * x \in Int /\ p * q \in Int
        BY <1>4, <2>1, Z3
      <4>4. QED BY <1>4, <2>1, <2>3, <4>1, <4>2, <4>3
    <3>2. QED BY <3>1, <1>4, <2>1
  <2>4. v >= 0 => x >= 0
    <3>1. CASE x <= -1
      <4>1. p * x <= -p
        BY <1>4, <2>1, <3>1, Z3
      <4>2. p * x \in Int
        BY <1>4, <2>1, Z3
      <4>3. QED BY <1>4, <2>1, <4>1, <4>2
    <3>2. QED BY <3>1, <2>1
  <2>5. v < 0 => x < 0
    <3>1. CASE x >= 0
      <4>1. p * x >= 0
        BY <1>4, <2>1, <3>1, Z3
      <4>2. p * x \in Int
        BY <1>4, <2>1, Z3
      <4>3. QED BY <1>4, <2>1, <4>1, <4>2
    <3>2. QED BY <3>1, <2>1
  <2>6. p * q \in Int
    BY <1>4, Z3
  <2>7. v \in 0 .. k - 1 => x \in 0 .. q - 1
    BY <1>3, <1>4, <2>1, <2>2, <2>4, <2>6
  <2>8. v \in -k .. -1 => x \in -q .. -1
    BY <1>3, <1>4, <2>1, <2>3, <2>5, <2>6
  <2>9. QED BY <2>7, <2>8 DEF x
<1>6. ASSUME NEW v \in 0 .. k - 1 PROVE v \div p \in 0 .. q - 1
  <2>1. v \in Int
    BY <1>4
  <2>2. QED BY <1>5, <2>1
<1>7. ASSUME NEW v \in -k .. -1 PROVE v \div p \in -q .. -1
  <2>1. v \in Int
    BY <1>4
  <2>2. QED BY <1>5, <2>1
<1>8. QED BY <1>0, <1>6, <1>7 DEF m, p, q, k

-----------------------------------------------------------------------------
\* The bits of a word are those of the number.
LEMMA BitsOfWord ==
    ASSUME NEW v \in Word64
    PROVE  BitsOf[v] = {i \in 0 .. XBits - 1 : Bit(v, i) = 1}
BY DEF BitsOf, Bit

\* A number cut to n bits is a word that has those bits of it.
LEMMA BitsOfReduced ==
    ASSUME NEW v \in Int, NEW n \in 0 .. XBits
    PROVE  /\ v % 2^n \in Word64 /\ v % 2^n \in 0 .. 2^n - 1
           /\ BitsOf[v % 2^n] = {i \in 0 .. n - 1 : Bit(v, i) = 1}
<1>0. XBits \in Nat /\ n \in Nat /\ n \in 0 .. XBits
  BY Bits
<1>1. 2^n \in Nat \ {0} /\ 2^n <= XMod /\ XMod \in Nat
  BY <1>0, PowerOrder, WidthPower
<1> DEFINE m == 2^n
           x == v % m
<1>2. x \in 0 .. m - 1
  <2>1. m \in Nat \ {0} BY <1>1
  <2> HIDE DEF m
  <2>2. QED BY <2>1, DivisionParts
<1>3. x \in Word64
  BY <1>1, <1>2 DEF Word64
<1>4. \A i \in 0 .. n - 1 : Bit(x, i) = Bit(v, i)
  BY <1>0, BitOfRemainder
<1>5. ASSUME NEW i \in 0 .. XBits - 1, i >= n PROVE Bit(x, i) = 0
  <2>1. i \in 0 .. XBits /\ n <= i
    BY <1>0, <1>5
  <2>2. QED BY <1>0, <1>2, <2>1, BitsOfSign
<1> HIDE DEF x
<1>6. {i \in 0 .. XBits - 1 : Bit(x, i) = 1} = {i \in 0 .. n - 1 : Bit(v, i) = 1}
  <2>1. \A i \in 0 .. XBits - 1 : i \in 0 .. n - 1 \/ i >= n
    BY <1>0
  <2>2. 0 .. n - 1 \subseteq 0 .. XBits - 1
    BY <1>0
  <2>3. ASSUME NEW i \in 0 .. XBits - 1
        PROVE  Bit(x, i) = 1 <=> i \in 0 .. n - 1 /\ Bit(v, i) = 1
    <3>1. CASE i \in 0 .. n - 1
      BY <3>1, <1>4
    <3>2. CASE i >= n
      <4>1. ~ i \in 0 .. n - 1
        BY <1>0, <3>2
      <4>2. Bit(x, i) # 1
        BY <1>5, <3>2
      <4>3. QED BY <4>1, <4>2
    <3>3. QED BY <3>1, <3>2, <2>1
  <2>4. QED BY <2>2, <2>3
<1>7. QED BY <1>2, <1>3, <1>6, BitsOfWord DEF x

\* The bits of a disjunction, a word for them being assumed to exist.
LEMMA BitsOfOr ==
    ASSUME NEW a \in Word64, NEW b \in Word64
    PROVE  BitOr(a, b) \in Word64 /\ BitsOf[BitOr(a, b)] = BitsOf[a] \cup BitsOf[b]
<1> DEFINE S == BitsOf[a] \cup BitsOf[b]
<1>1. S \in SUBSET (0 .. XBits - 1)
  BY BitsOfWord
<1>2. BitOr(a, b) = CHOOSE v \in Word64 : BitsOf[v] = S
  BY <1>1 DEF BitOr, WordOf
<1> HIDE DEF S
<1>3. \E v \in Word64 : BitsOf[v] = S
  BY <1>1, BitsAssumption
<1>4. QED BY <1>2, <1>3 DEF S

\* A word without a bit below n is a multiple of 2^n.
LEMMA NoBits ==
    ASSUME NEW v \in Word64, NEW n \in 1 .. XBits,
           \A i \in 0 .. n - 1 : Bit(v, i) = 0
    PROVE  v % 2^n = 0
<1> DEFINE T == {k \in Nat : k <= n => v % 2^k = 0}
<1>0. XBits \in Nat /\ n \in Nat /\ v \in Nat
  BY Bits, Widths DEF Word64
<1>1. 0 \in T
  BY <1>0
<1>2. ASSUME NEW k \in Nat, k \in T PROVE k + 1 \in T
  <2>1. CASE k + 1 <= n
    <3> DEFINE p == 2^k
               x == v \div p
               y == x \div 2
    <3>1. k \in 0 .. n - 1 /\ k \in 0 .. XBits - 1 /\ k \in 0 .. XBits
      BY <1>0, <2>1
    <3>2. p \in Nat \ {0} /\ 2^(k + 1) = 2 * p
      BY <3>1, ByteAssumption
    <3>3. v % p = 0
      BY <1>2, <2>1
    <3>4. x % 2 = 0
      BY <3>1 DEF Bit
    <3> HIDE DEF p
    <3>5. v = p * x + 0 /\ x \in Int
      BY <1>0, <3>2, <3>3, DivisionParts
    <3> HIDE DEF x
    <3>6. x = 2 * y /\ y \in Int
      BY <3>4, <3>5
    <3> HIDE DEF y
    <3>7. v = (2 * p) * y + 0
      BY <3>2, <3>5, <3>6, Z3
    <3>8. 2 * p \in Nat \ {0} /\ 0 \in 0 .. 2 * p - 1
      BY <3>2
    <3>9. ((2 * p) * y + 0) % (2 * p) = 0
      BY <3>6, <3>8, DivisionUnique
    <3>10. v % (2 * p) = 0
      BY <3>7, <3>9
    <3>11. QED BY <3>2, <3>10
  <2>2. CASE ~ k + 1 <= n
    BY <2>2
  <2>3. QED BY <2>1, <2>2
<1> HIDE DEF T
<1>3. n \in T
  BY <1>0, <1>1, <1>2, Induction
<1>4. QED BY <1>0, <1>3 DEF T

-----------------------------------------------------------------------------
(***************************************************************************)
(* The four shifts, of an operand x of n bits by an amount.                *)
(***************************************************************************)
\* The bits of the operand.
LEMMA OperandBits ==
    ASSUME NEW n \in 1 .. XBits, NEW x \in 0 .. 2^n - 1
    PROVE  /\ x \in Word64 /\ x \in Int
           /\ BitsOf[x] = {i \in 0 .. n - 1 : Bit(x, i) = 1}
           /\ x % 2^n = x
<1>1. 2^n \in Nat \ {0}
  BY Powers
<1>2. x \in Int
  BY <1>1
<1>3. x % 2^n = x
  BY <1>1
<1>4. QED BY <1>2, <1>3, BitsOfReduced

\* A left shift.
LEMMA LeftBits ==
    ASSUME NEW n \in 1 .. XBits, NEW x \in 0 .. 2^n - 1,
           NEW a \in 0 .. XBits - 1
    PROVE  BitsOf[((x * 2^a) % 2^XBits) % 2^n] =
              {i + a : i \in BitsOf[x]} \cap 0 .. n - 1
<1>0. XBits \in Nat \ {0} /\ a \in 0 .. XBits /\ x \in Int /\ 2^a \in Int
  BY Bits, Powers, OperandBits
<1> DEFINE y == x * 2^a
           z == y % 2^XBits
<1>1. y \in Int
  BY <1>0, Z3
<1>2. z \in Int /\ \A i \in 0 .. XBits - 1 : Bit(z, i) = Bit(y, i)
  <2>1. XBits \in 1 .. XBits /\ XBits \in 0 .. XBits
    BY <1>0
  <2>2. z \in Word64
    BY <1>1, <2>1, BitsOfReduced
  <2>3. QED
    BY <1>1, <2>1, <2>2, BitOfRemainder, Widths DEF Word64
<1>3. BitsOf[z % 2^n] = {i \in 0 .. n - 1 : Bit(z, i) = 1}
  <2>1. n \in 0 .. XBits
    BY Bits
  <2>2. QED BY <1>2, <2>1, BitsOfReduced
<1>4. ASSUME NEW i \in 0 .. n - 1
      PROVE  Bit(z, i) = 1 <=> i >= a /\ i - a \in BitsOf[x]
  <2>1. i \in 0 .. XBits - 1 /\ i \in 0 .. XBits
    BY <1>0
  <2>2. Bit(z, i) = IF i >= a THEN Bit(x, i - a) ELSE 0
    BY <1>0, <1>2, <2>1, BitOfProduct
  <2>3. i >= a => i - a \in 0 .. n - 1
    BY <1>0
  <2>4. BitsOf[x] = {k \in 0 .. n - 1 : Bit(x, k) = 1}
    BY OperandBits
  <2>5. QED BY <2>2, <2>3, <2>4
<1>5. \A k \in BitsOf[x] : k \in Nat
  BY OperandBits
<1>6. {i \in 0 .. n - 1 : i >= a /\ i - a \in BitsOf[x]} =
      {i + a : i \in BitsOf[x]} \cap 0 .. n - 1
  <2>1. ASSUME NEW i \in 0 .. n - 1
        PROVE  (i >= a /\ i - a \in BitsOf[x]) <=>
               i \in {k + a : k \in BitsOf[x]}
    <3>1. i \in Int /\ a \in Int
      BY <1>0
    <3>2. i = (i - a) + a
      BY <3>1
    <3>3. ASSUME NEW k \in BitsOf[x], i = k + a
          PROVE  i >= a /\ i - a = k
      BY <3>1, <3>3, <1>5
    <3>4. QED BY <3>2, <3>3
  <2>2. QED BY <2>1
<1>7. {i \in 0 .. n - 1 : Bit(z, i) = 1} =
      {i \in 0 .. n - 1 : i >= a /\ i - a \in BitsOf[x]}
  BY <1>4
<1>8. QED BY <1>3, <1>6, <1>7

\* A right shift of a number of n bits, signed or not.
LEMMA RightBit ==
    ASSUME NEW n \in 1 .. XBits, NEW a \in 0 .. XBits - 1,
           NEW v \in Int, v \in 0 .. 2^n - 1 \/ v \in -(2^n) .. -1,
           NEW i \in 0 .. n - 1
    PROVE  /\ v \div 2^a \in Int
           /\ Bit(v \div 2^a, i) =
                 IF a + i < n THEN Bit(v, a + i) ELSE IF v < 0 THEN 1 ELSE 0
<1>0. /\ XBits \in Nat /\ a \in Nat /\ i \in Nat /\ n \in Nat
      /\ n \in 0 .. XBits /\ a \in 0 .. XBits /\ i \in 0 .. XBits
  BY Bits
<1> DEFINE p == 2^a
           k == 2^n
<1>1. p \in Nat \ {0} /\ k \in Nat \ {0}
  BY <1>0, Powers
<1>2. v \div p \in Int
  <2> HIDE DEF p
  <2>1. QED BY <1>1, DivisionParts
<1>3. CASE a + i < n
  <2>1. a + i <= XBits
    BY <1>0, <1>3
  <2>2. QED BY <1>0, <1>2, <1>3, <2>1, BitOfQuotient
<1>4. CASE ~ a + i < n
  <2> DEFINE m == IF n >= a THEN n - a ELSE 0
  <2>1. /\ m \in 0 .. XBits
        /\ v \in 0 .. k - 1 => v \div p \in 0 .. 2^m - 1
        /\ v \in -k .. -1 => v \div p \in -(2^m) .. -1
    BY <1>0, QuotientRange
  <2>2. m \in Nat /\ m <= i
    BY <1>0, <1>4
  <2> HIDE DEF m
  <2>3. CASE v \in 0 .. k - 1
    <3>1. ~ v < 0
      BY <1>1, <2>3
    <3>2. Bit(v \div p, i) = 0
      BY <1>0, <2>1, <2>2, <2>3, BitsOfSign
    <3>3. QED BY <1>2, <1>4, <3>1, <3>2
  <2>4. CASE v \in -k .. -1
    <3>1. v < 0
      BY <1>1, <2>4
    <3>2. Bit(v \div p, i) = 1
      BY <1>0, <2>1, <2>2, <2>4, BitsOfSign
    <3>3. QED BY <1>2, <1>4, <3>1, <3>2
  <2>5. QED BY <2>3, <2>4
<1>5. QED BY <1>3, <1>4

\* The bits that a right shift brings down.
LEMMA DownBits ==
    ASSUME NEW n \in 1 .. XBits, NEW x \in 0 .. 2^n - 1, NEW a \in Nat,
           NEW i \in 0 .. n - 1
    PROVE  i \in {k - a : k \in BitsOf[x]} \cap 0 .. n - 1 <=>
           a + i < n /\ Bit(x, a + i) = 1
<1>1. BitsOf[x] = {k \in 0 .. n - 1 : Bit(x, k) = 1}
  BY OperandBits
<1>2. i \in Int /\ n \in Int
  OBVIOUS
<1>3. ASSUME NEW k \in BitsOf[x], i = k - a
      PROVE  a + i < n /\ Bit(x, a + i) = 1
  <2>1. k \in 0 .. n - 1 /\ Bit(x, k) = 1
    BY <1>1
  <2>2. a + i = k
    BY <1>2, <1>3, <2>1
  <2>3. QED BY <1>2, <2>1, <2>2
<1>4. ASSUME a + i < n, Bit(x, a + i) = 1
      PROVE  i \in {k - a : k \in BitsOf[x]}
  <2>1. a + i \in 0 .. n - 1 /\ i = (a + i) - a
    BY <1>2, <1>4
  <2>2. a + i \in BitsOf[x]
    BY <1>1, <1>4, <2>1
  <2>3. QED BY <2>1, <2>2
<1>5. QED BY <1>3, <1>4

\* A right shift, logically.
LEMMA RightBits ==
    ASSUME NEW n \in 1 .. XBits, NEW x \in 0 .. 2^n - 1,
           NEW a \in 0 .. XBits - 1
    PROVE  BitsOf[(x \div 2^a) % 2^n] =
              {i - a : i \in BitsOf[x]} \cap 0 .. n - 1
<1>0. a \in Nat /\ x \in Int /\ ~ x < 0 /\ 0 \in 0 .. n - 1
  <2>1. a \in Nat /\ 0 \in 0 .. n - 1
    BY Bits
  <2>2. 2^n \in Nat
    BY Powers
  <2>3. QED BY <2>1, <2>2
<1>1. x \div 2^a \in Int
  BY <1>0, RightBit
<1>2. BitsOf[(x \div 2^a) % 2^n] = {i \in 0 .. n - 1 : Bit(x \div 2^a, i) = 1}
  <2>1. n \in 0 .. XBits
    BY Bits
  <2>2. QED BY <1>1, <2>1, BitsOfReduced
<1>3. \A i \in 0 .. n - 1 :
         Bit(x \div 2^a, i) = 1 <=> i \in {k - a : k \in BitsOf[x]} \cap 0 .. n - 1
  <2>1. TAKE i \in 0 .. n - 1
  <2>2. Bit(x \div 2^a, i) = IF a + i < n THEN Bit(x, a + i) ELSE IF x < 0 THEN 1 ELSE 0
    BY <1>0, RightBit
  <2>3. QED BY <1>0, <2>2, DownBits
<1> DEFINE D == {i - a : i \in BitsOf[x]} \cap 0 .. n - 1
<1>4. D \subseteq 0 .. n - 1
  OBVIOUS
<1> HIDE DEF D
<1>5. {i \in 0 .. n - 1 : Bit(x \div 2^a, i) = 1} = D
  BY <1>3, <1>4 DEF D
<1>6. QED BY <1>2, <1>5 DEF D

\* An arithmetic shift, of the number the operand is when it is read signed.
LEMMA SignedBits ==
    ASSUME NEW n \in 1 .. XBits, NEW x \in 0 .. 2^n - 1,
           NEW a \in 0 .. XBits - 1
    PROVE  LET s == IF Bit(x, n - 1) = 1 THEN x - 2^n ELSE x
           IN  /\ s \in Int
               /\ BitsOf[((s \div 2^a) % 2^XBits) % 2^n] =
                     ({i - a : i \in BitsOf[x]} \cap 0 .. n - 1)
                     \cup {i \in 0 .. n - 1 : n - 1 \in BitsOf[x] /\ i >= n - a}
<1> DEFINE s == IF Bit(x, n - 1) = 1 THEN x - 2^n ELSE x
           m == 2^n
           z == (s \div 2^a) % 2^XBits
           D == {i - a : i \in BitsOf[x]} \cap 0 .. n - 1
           F == {i \in 0 .. n - 1 : n - 1 \in BitsOf[x] /\ i >= n - a}
<1>0. /\ a \in Nat /\ x \in Int /\ n \in Nat /\ n \in 0 .. XBits
      /\ XBits \in Nat \ {0} /\ m \in Nat \ {0} /\ XBits \in 1 .. XBits
      /\ 0 \in 0 .. n - 1 /\ XBits \in 0 .. XBits
  BY Bits, Powers, OperandBits
<1>1. x \in 0 .. m - 1
  OBVIOUS
<1>2. s = (IF Bit(x, n - 1) = 1 THEN x - m ELSE x)
  OBVIOUS
<1> HIDE DEF s, m
<1>3. s \in Int /\ (s \in 0 .. m - 1 \/ s \in -m .. -1)
  BY <1>0, <1>1, <1>2
<1>4. s < 0 <=> Bit(x, n - 1) = 1
  BY <1>0, <1>1, <1>2
<1>5. \A j \in 0 .. n - 1 : Bit(s, j) = Bit(x, j)
  <2>1. s % m = x
    <3>0. -1 \in Int
      OBVIOUS
    <3>1. (x + m * (-1)) % m = x % m
      BY <1>0, <3>0, ModShift
    <3>4. x % m = x
      BY OperandBits DEF m
    <3>2. x - m = x + m * (-1)
      BY <1>0
    <3>3. QED BY <1>2, <3>1, <3>2, <3>4
  <2>2. \A j \in 0 .. n - 1 : Bit(s % m, j) = Bit(s, j)
    BY <1>0, <1>3, BitOfRemainder DEF m
  <2>3. QED BY <2>1, <2>2
<1>6. s \div 2^a \in Int
  BY <1>0, <1>3, RightBit DEF m
<1>7. z \in Int /\ \A i \in 0 .. XBits - 1 : Bit(z, i) = Bit(s \div 2^a, i)
  <2>1. z \in Word64
    BY <1>0, <1>6, BitsOfReduced
  <2>2. QED
    BY <1>0, <1>6, <2>1, BitOfRemainder, Widths DEF Word64
<1>8. BitsOf[z % 2^n] = {i \in 0 .. n - 1 : Bit(z, i) = 1}
  BY <1>7, BitsOfReduced
<1>9. ASSUME NEW i \in 0 .. n - 1
      PROVE  Bit(z, i) = 1 <=> i \in D \/ i \in F
  <2>1. i \in 0 .. XBits - 1 /\ i \in Nat
    BY <1>0
  <2>2. Bit(z, i) = IF a + i < n THEN Bit(s, a + i) ELSE IF s < 0 THEN 1 ELSE 0
    BY <1>3, <1>7, <2>1, RightBit DEF m
  <2>3. i \in D <=> a + i < n /\ Bit(x, a + i) = 1
    BY <1>0, DownBits
  <2>4. n - 1 \in BitsOf[x] <=> Bit(x, n - 1) = 1
    <3>1. n - 1 \in 0 .. n - 1
      BY <1>0
    <3>2. QED BY <3>1, OperandBits
  <2>5. i \in F <=> Bit(x, n - 1) = 1 /\ ~ a + i < n
    <3>1. i >= n - a <=> ~ a + i < n
      BY <1>0, <2>1
    <3>2. QED BY <2>4, <3>1
  <2>6. a + i < n => a + i \in 0 .. n - 1
    BY <1>0, <2>1
  <2> HIDE DEF D, F, z
  <2>7. CASE a + i < n
    BY <1>5, <2>2, <2>3, <2>5, <2>6, <2>7
  <2>8. CASE ~ a + i < n
    BY <1>4, <2>2, <2>3, <2>5, <2>8
  <2>9. QED BY <2>7, <2>8
<1>10. D \subseteq 0 .. n - 1 /\ F \subseteq 0 .. n - 1
  OBVIOUS
<1> HIDE DEF D, F, z
<1>11. {i \in 0 .. n - 1 : Bit(z, i) = 1} = D \cup F
  BY <1>9, <1>10
<1>12. BitsOf[z % 2^n] = D \cup F
  BY <1>8, <1>11
<1>13. QED BY <1>3, <1>12 DEF D, F, z, s


\* A rotation: what is shifted out below comes in above.
LEMMA RotatedBit ==
    ASSUME NEW n \in 1 .. XBits, NEW x \in 0 .. 2^n - 1,
           NEW a \in 0 .. XBits - 1, NEW e \in 0 .. XBits - 1
    PROVE  LET upper == (x \div 2^a) % 2^e
               lower == ((x % 2^a) * 2^e) % 2^XBits
           IN  /\ BitOr(upper, lower) \in Word64
               /\ \A i \in 0 .. n - 1 :
                     Bit(BitOr(upper, lower), i) = 1 <=>
                        \/ i < e /\ a + i < n /\ Bit(x, a + i) = 1
                        \/ i >= e /\ i - e < a /\ Bit(x, i - e) = 1
<1> DEFINE y == x % 2^a
           upper == (x \div 2^a) % 2^e
           lower == (y * 2^e) % 2^XBits
           r == BitOr(upper, lower)
<1>0. /\ a \in Nat /\ e \in Nat /\ n \in Nat /\ n \in 0 .. XBits /\ x \in Int
      /\ XBits \in Nat \ {0} /\ XBits \in 0 .. XBits /\ 0 \in 0 .. n - 1
      /\ a \in 0 .. XBits /\ e \in 0 .. XBits /\ ~ x < 0
  <2>1. 2^n \in Nat
    BY Powers
  <2>2. QED BY <2>1, Bits
<1>1. x \div 2^a \in Int
  BY <1>0, RightBit
<1>2. /\ upper \in Word64
      /\ BitsOf[upper] = {i \in 0 .. e - 1 : Bit(x \div 2^a, i) = 1}
  BY <1>0, <1>1, BitsOfReduced
<1>3. /\ y \in Word64 /\ y \in Int
      /\ BitsOf[y] = {i \in 0 .. a - 1 : Bit(x, i) = 1}
  <2>1. y \in Word64 /\ BitsOf[y] = {i \in 0 .. a - 1 : Bit(x, i) = 1}
    BY <1>0, BitsOfReduced
  <2>2. QED BY <2>1, Widths DEF Word64
<1> HIDE DEF y
<1>4. y * 2^e \in Int
  <2>1. 2^e \in Int
    BY <1>0, Powers
  <2>2. QED BY <1>3, <2>1, Z3
<1>5. /\ lower \in Word64
      /\ BitsOf[lower] = {i \in 0 .. XBits - 1 : Bit(y * 2^e, i) = 1}
  BY <1>0, <1>4, BitsOfReduced
<1> HIDE DEF upper, lower
<1>6. r \in Word64 /\ BitsOf[r] = BitsOf[upper] \cup BitsOf[lower]
  BY <1>2, <1>5, BitsOfOr
<1> HIDE DEF r
<1>7. ASSUME NEW i \in 0 .. n - 1
      PROVE  Bit(r, i) = 1 <=>
                \/ i < e /\ a + i < n /\ Bit(x, a + i) = 1
                \/ i >= e /\ i - e < a /\ Bit(x, i - e) = 1
  <2>1. i \in 0 .. XBits - 1 /\ i \in Nat /\ i \in 0 .. XBits
    BY <1>0
  <2>2. Bit(r, i) = 1 <=> i \in BitsOf[upper] \/ i \in BitsOf[lower]
    BY <1>6, <2>1, BitsOfWord
  <2>3. Bit(x \div 2^a, i) = IF a + i < n THEN Bit(x, a + i) ELSE IF x < 0 THEN 1 ELSE 0
    BY <1>0, RightBit
  <2>4. i \in BitsOf[upper] <=> i < e /\ a + i < n /\ Bit(x, a + i) = 1
    <3>1. i \in 0 .. e - 1 <=> i < e
      BY <1>0, <2>1
    <3>2. QED BY <1>0, <1>2, <2>3, <3>1
  <2>5. i \in BitsOf[lower] <=> Bit(y * 2^e, i) = 1
    BY <1>5, <2>1
  <2>6. Bit(y * 2^e, i) = IF i >= e THEN Bit(y, i - e) ELSE 0
    BY <1>0, <1>3, <2>1, BitOfProduct
  <2>7. i >= e => (Bit(y, i - e) = 1 <=> i - e < a /\ Bit(x, i - e) = 1)
    <3>1. HAVE i >= e
    <3>2. i - e \in 0 .. XBits - 1 /\ i - e \in Nat
      BY <1>0, <2>1, <3>1
    <3>3. Bit(y, i - e) = 1 <=> i - e \in BitsOf[y]
      BY <1>3, <3>2, BitsOfWord
    <3>4. i - e \in 0 .. a - 1 <=> i - e < a
      BY <1>0, <3>2
    <3>5. QED BY <1>3, <3>3, <3>4
  <2>8. QED BY <2>2, <2>4, <2>5, <2>6, <2>7
<1>8. QED BY <1>6, <1>7 DEF r, upper, lower, y

\* Where a rotation takes a bit.
LEMMA RotatedPlace ==
    ASSUME NEW n \in Nat \ {0}, NEW a \in 0 .. n, NEW k \in 0 .. n - 1
    PROVE  (k - a) % n = IF k >= a THEN k - a ELSE k - a + n
<1>1. CASE k >= a
  BY <1>1
<1>2. CASE k < a
  <2>1. k - a = n * (-1) + (k - a + n) /\ k - a + n \in 0 .. n - 1 /\ -1 \in Int
    BY <1>2
  <2>2. (n * (-1) + (k - a + n)) % n = k - a + n
    BY <2>1, DivisionUnique
  <2>3. QED BY <1>2, <2>1, <2>2
<1>3. QED BY <1>1, <1>2

\* A rotation by a defined amount, of either width.
LEMMA RotatedBits ==
    ASSUME NEW n \in 1 .. XBits, NEW x \in 0 .. 2^n - 1,
           NEW a \in 0 .. XBits - 1, a <= n, n - a < XBits
    PROVE  LET upper == (x \div 2^a) % 2^(n - a)
               lower == ((x % 2^a) * 2^(n - a)) % 2^XBits
           IN  /\ BitOr(upper, lower) \in Word64
               /\ BitsOf[BitOr(upper, lower) % 2^n] =
                     {(i - a) % n : i \in BitsOf[x]}
<1> DEFINE upper == (x \div 2^a) % 2^(n - a)
           lower == ((x % 2^a) * 2^(n - a)) % 2^XBits
           r == BitOr(upper, lower)
           D == {(i - a) % n : i \in BitsOf[x]}
<1>0. /\ a \in 0 .. n /\ n \in Nat \ {0} /\ n - a \in 0 .. XBits - 1
      /\ n \in 0 .. XBits
  BY Bits
<1>1. /\ r \in Word64
      /\ \A i \in 0 .. n - 1 :
            Bit(r, i) = 1 <=>
               \/ i < n - a /\ a + i < n /\ Bit(x, a + i) = 1
               \/ i >= n - a /\ i - (n - a) < a /\ Bit(x, i - (n - a)) = 1
  BY <1>0, RotatedBit
<1> HIDE DEF r
<1>2. BitsOf[r % 2^n] = {i \in 0 .. n - 1 : Bit(r, i) = 1}
  <2>1. r \in Int
    BY <1>1, Widths DEF Word64
  <2>2. QED BY <1>0, <2>1, BitsOfReduced
<1>3. BitsOf[x] = {i \in 0 .. n - 1 : Bit(x, i) = 1}
  BY OperandBits
<1>4. \A k \in 0 .. n - 1 : (k - a) % n = IF k >= a THEN k - a ELSE k - a + n
  BY <1>0, RotatedPlace
<1>5. D \subseteq 0 .. n - 1
  <2>1. \A k \in 0 .. n - 1 : (k - a) % n \in 0 .. n - 1
    BY <1>0, <1>4
  <2>2. QED BY <1>3, <2>1
<1>6. ASSUME NEW i \in 0 .. n - 1
      PROVE  Bit(r, i) = 1 <=> i \in D
  <2>1. CASE i < n - a
    <3>1. a + i \in 0 .. n - 1 /\ a + i < n /\ ~ i >= n - a
      BY <1>0, <2>1
    <3>2. Bit(r, i) = 1 <=> Bit(x, a + i) = 1
      BY <1>1, <2>1, <3>1
    <3>3. ((a + i) - a) % n = i
      BY <1>0, <1>4, <3>1
    <3>4. Bit(x, a + i) = 1 => i \in D
      BY <1>3, <3>1, <3>3
    <3>5. ASSUME NEW k \in BitsOf[x], i = (k - a) % n PROVE Bit(x, a + i) = 1
      <4>1. k \in 0 .. n - 1 /\ Bit(x, k) = 1
        BY <1>3
      <4>2. i = IF k >= a THEN k - a ELSE k - a + n
        BY <1>4, <3>5, <4>1
      <4>3. k = a + i
        BY <1>0, <2>1, <4>1, <4>2
      <4>4. QED BY <4>1, <4>3
    <3>6. QED BY <3>2, <3>4, <3>5
  <2>2. CASE i >= n - a
    <3> DEFINE j == i - (n - a)
    <3>1. j \in 0 .. n - 1 /\ j < a /\ ~ i < n - a /\ i = j - a + n
      BY <1>0, <2>2
    <3>2. Bit(r, i) = 1 <=> Bit(x, j) = 1
      BY <1>1, <2>2, <3>1
    <3> HIDE DEF j
    <3>3. (j - a) % n = i
      BY <1>0, <1>4, <3>1
    <3>4. Bit(x, j) = 1 => i \in D
      BY <1>3, <3>1, <3>3
    <3>5. ASSUME NEW k \in BitsOf[x], i = (k - a) % n PROVE Bit(x, j) = 1
      <4>1. k \in 0 .. n - 1 /\ Bit(x, k) = 1
        BY <1>3
      <4>2. i = IF k >= a THEN k - a ELSE k - a + n
        BY <1>4, <3>5, <4>1
      <4>3. k = j
        BY <1>0, <2>2, <3>1, <4>1, <4>2
      <4>4. QED BY <4>1, <4>3
    <3>6. QED BY <3>2, <3>4, <3>5
  <2>3. QED BY <1>0, <2>1, <2>2
<1> HIDE DEF D
<1>7. {i \in 0 .. n - 1 : Bit(r, i) = 1} = D
  BY <1>5, <1>6
<1>8. QED BY <1>1, <1>2, <1>7 DEF r, D, upper, lower

\* The rotations C does not define lose the operand.
LEMMA LostRotation ==
    ASSUME NEW n \in 1 .. XBits, NEW x \in 0 .. 2^n - 1,
           NEW a \in 0 .. XBits - 1, NEW e \in 0 .. XBits - 1,
           (a = 0 /\ e = 0) \/ (a > n /\ e > n)
    PROVE  BitOr((x \div 2^a) % 2^e, ((x % 2^a) * 2^e) % 2^XBits) % 2^n = 0
<1> DEFINE r == BitOr((x \div 2^a) % 2^e, ((x % 2^a) * 2^e) % 2^XBits)
<1>0. a \in Nat /\ e \in Nat /\ n \in Nat /\ XBits \in Nat
  BY Bits
<1>1. /\ r \in Word64
      /\ \A i \in 0 .. n - 1 :
            Bit(r, i) = 1 <=>
               \/ i < e /\ a + i < n /\ Bit(x, a + i) = 1
               \/ i >= e /\ i - e < a /\ Bit(x, i - e) = 1
  BY RotatedBit
<1> HIDE DEF r
<1>2. ASSUME NEW i \in 0 .. n - 1 PROVE Bit(r, i) = 0
  <2>1. i \in Nat /\ i < n /\ i \in 0 .. XBits
    BY <1>0
  <2>2. ~ (i < e /\ a + i < n) /\ ~ (i >= e /\ i - e < a)
    BY <1>0, <2>1
  <2>3. Bit(r, i) # 1
    BY <1>1, <2>2
  <2>4. r \in Int
    BY <1>1, Widths DEF Word64
  <2>5. QED BY <2>1, <2>3, <2>4, BitType
<1>3. r % 2^n = 0
  BY <1>1, <1>2, NoBits
<1>4. QED BY <1>3 DEF r

\* What an arithmetic shift takes for the sign is the highest bit.
LEMMA SignIsHighBit ==
    ASSUME NEW sf \in Sizes, NEW x \in Int
    PROVE  Signed(x, sf) = IF Bit(x, NumBits(sf) - 1) = 1
                           THEN x - 2^NumBits(sf) ELSE x
<1> DEFINE n == NumBits(sf)
<1>1. n \in 1 .. XBits /\ Width(sf) = 2^n /\ XBits \in Nat
  BY WidthPower, Bits
<1>2. Width(sf) = 2 * Half(sf) /\ Half(sf) \in Nat
  BY Widths
<1> HIDE DEF n
<1>3. n - 1 \in 0 .. XBits - 1 /\ (n - 1) + 1 = n /\ n - 1 \in 0 .. XBits
  BY <1>1
<1>4. 2^((n - 1) + 1) = 2 * 2^(n - 1)
  BY <1>3, ByteAssumption
<1>5. 2^(n - 1) \in Nat
  BY <1>3, Powers
<1> DEFINE p == 2^(n - 1)
<1>6. 2 * p = 2 * Half(sf) /\ p \in Nat
  BY <1>1, <1>2, <1>3, <1>4, <1>5
<1> HIDE DEF p
<1>7. p = Half(sf)
  BY <1>2, <1>6
<1>8. QED BY <1>1, <1>7 DEF Signed, SignBit, Bit, Half, n, p

\* Every shift of every register value in both sizes.
LEMMA EveryShiftIsBitwise ==
    ASSUME NEW r \in Regs, NEW v \in Word64, NEW sf \in Sizes,
           NEW shift \in 0 .. 3, NEW amount \in 0 .. XBits - 1
    PROVE  ShiftIsBitwise(r, v, sf, shift, amount)
<1> DEFINE cpu == [setup EXCEPT !.R[r] = v]
           n == NumBits(sf)
           x == v % Width(sf)
           result == shifted(cpu, shift, r, amount, sf)
<1>0. /\ n \in 1 .. XBits /\ Width(sf) = 2^n /\ XMod = 2^XBits
      /\ XBits \in Nat \ {0} /\ v \in Int /\ XBits = 2 * WBits
      /\ n \in {WBits, XBits} /\ WBits \in Nat \ {0}
  <2>1. n \in 1 .. XBits /\ Width(sf) = 2^n /\ XMod = 2^XBits
    BY WidthPower
  <2>2. v \in Int
    BY Widths DEF Word64
  <2>3. n \in {WBits, XBits}
    BY DEF NumBits, Sizes
  <2>4. XBits = 2 * WBits /\ XBits \in Nat \ {0} /\ WBits \in Nat \ {0}
    BY ByteAssumption DEF XBits, WBits
  <2>5. QED BY <2>1, <2>2, <2>3, <2>4
<1>1. x \in 0 .. 2^n - 1
  <2>1. n \in 0 .. XBits
    BY <1>0
  <2>2. QED BY <1>0, <2>1, BitsOfReduced
<1>2. get_register_value(cpu, r, sf) = x
  <2>1. r # ZR_REG
    BY RegsAssumption DEF ZR_REG
  <2>2. cpu.R[r] = v
    BY DEF setup
  <2>3. QED BY <2>1, <2>2 DEF get_register_value
<1> HIDE DEF cpu
<1>3. x \in Int /\ BitsOf[x] = {i \in 0 .. n - 1 : Bit(x, i) = 1}
  BY <1>0, <1>1, OperandBits
<1> SUFFICES IF shift = ROR_VALUE /\ RotationUndefined(amount, sf)
             THEN result % 2^n = 0
             ELSE BitsOf[result % 2^n] =
                      ShiftedBits(shift, BitsOf[x], amount, n)
  BY <1>0 DEF ShiftIsBitwise, cpu
<1> HIDE DEF n, x
<1>4. CASE shift = LSL_VALUE
  <2>1. result = (x * 2^amount) % 2^XBits
    BY <1>0, <1>2, <1>4 DEF shifted, lsl, LSL_VALUE, LSR_VALUE, ASR_VALUE, ROR_VALUE
  <2>2. BitsOf[result % 2^n] = {i + amount : i \in BitsOf[x]} \cap 0 .. n - 1
    BY <1>0, <1>1, <2>1, LeftBits
  <2>3. QED BY <1>4, <2>2 DEF ShiftedBits, LSL_VALUE, LSR_VALUE, ASR_VALUE, ROR_VALUE
<1>5. CASE shift = LSR_VALUE
  <2>1. result = x \div 2^amount
    BY <1>0, <1>2, <1>5 DEF shifted, lsr, LSL_VALUE, LSR_VALUE, ASR_VALUE, ROR_VALUE
  <2>2. BitsOf[result % 2^n] = {i - amount : i \in BitsOf[x]} \cap 0 .. n - 1
    BY <1>0, <1>1, <2>1, RightBits
  <2>3. QED BY <1>5, <2>2 DEF ShiftedBits, LSL_VALUE, LSR_VALUE, ASR_VALUE, ROR_VALUE
<1>6. CASE shift = ASR_VALUE
  <2> DEFINE s == IF Bit(x, n - 1) = 1 THEN x - 2^n ELSE x
  <2>1. Signed(x, sf) = s
    BY <1>3, SignIsHighBit DEF n
  <2>2. result = (Signed(x, sf) \div 2^amount) % XMod
    BY <1>2, <1>6 DEF shifted, asr, LSL_VALUE, LSR_VALUE, ASR_VALUE, ROR_VALUE
  <2>3. BitsOf[((s \div 2^amount) % 2^XBits) % 2^n] =
           ({i - amount : i \in BitsOf[x]} \cap 0 .. n - 1)
           \cup {i \in 0 .. n - 1 : n - 1 \in BitsOf[x] /\ i >= n - amount}
    BY <1>0, <1>1, SignedBits
  <2>4. BitsOf[result % 2^n] =
           ({i - amount : i \in BitsOf[x]} \cap 0 .. n - 1)
           \cup {i \in 0 .. n - 1 : n - 1 \in BitsOf[x] /\ i >= n - amount}
    BY <1>0, <2>1, <2>2, <2>3
  <2>5. QED
    BY <1>6, <2>4 DEF ShiftedBits, LSL_VALUE, LSR_VALUE, ASR_VALUE, ROR_VALUE
<1>7. CASE shift = ROR_VALUE
  <2> DEFINE e == (n - amount) % XBits
             word == BitOr((x \div 2^amount) % 2^e,
                           ((x % 2^amount) * 2^e) % 2^XBits)
  <2>1. result = word
    <3>1. result = ror(cpu, r, amount, sf)
      BY <1>7 DEF shifted, LSL_VALUE, LSR_VALUE, ASR_VALUE, ROR_VALUE
    <3>2. amount % XBits = amount
      BY <1>0
    <3>3. x \div 2^0 = x
      BY <1>3
    <3>4. SELECT_BITS(x, 0, amount) = x % 2^amount
      BY <3>2, <3>3 DEF SELECT_BITS
    <3>5. SELECT_BITS(x, amount, n - amount) = (x \div 2^amount) % 2^e
      BY DEF SELECT_BITS
    <3>6. QED BY <1>0, <1>2, <3>1, <3>4, <3>5 DEF ror, n
  <2>2. RotationUndefined(amount, sf) <=>
           (n = XBits /\ amount = 0) \/ (n = WBits /\ amount > n)
    <3>1. WBits # XBits
      BY <1>0
    <3>2. QED BY <1>0, <3>1 DEF RotationUndefined, n, NumBits, Sizes, SF32, SF64
  <2>3. CASE RotationUndefined(amount, sf)
    <3>1. CASE n = XBits /\ amount = 0
      <4>1. e = 0
        BY <1>0, <3>1
      <4>2. e \in 0 .. XBits - 1
        BY <1>0, <4>1
      <4> HIDE DEF e
      <4>3. word % 2^n = 0
        BY <1>0, <1>1, <3>1, <4>1, <4>2, LostRotation
      <4>4. QED BY <1>7, <2>1, <2>3, <4>3
    <3>2. CASE n = WBits /\ amount > n
      <4>1. e = n - amount + XBits
        <5>1. XBits * (-1) + (n - amount + XBits) = n - amount
          BY <1>0, <3>2
        <5>2. n - amount + XBits \in 0 .. XBits - 1 /\ -1 \in Int
          BY <1>0, <3>2
        <5>3. (XBits * (-1) + (n - amount + XBits)) % XBits = n - amount + XBits
          BY <1>0, <5>2, DivisionUnique
        <5>4. QED BY <5>1, <5>3
      <4>2. e \in 0 .. XBits - 1 /\ e > n
        BY <1>0, <3>2, <4>1
      <4> HIDE DEF e
      <4>3. word % 2^n = 0
        BY <1>0, <1>1, <3>2, <4>2, LostRotation
      <4>4. QED BY <1>7, <2>1, <2>3, <4>3
    <3>3. QED BY <2>2, <2>3, <3>1, <3>2
  <2>4. CASE ~RotationUndefined(amount, sf)
    <3>1. amount <= n /\ n - amount < XBits /\ n - amount \in 0 .. XBits - 1
      BY <1>0, <2>2, <2>4
    <3>2. e = n - amount
      BY <1>0, <3>1
    <3> HIDE DEF e
    <3>3. BitsOf[word % 2^n] = {(i - amount) % n : i \in BitsOf[x]}
      BY <1>0, <1>1, <3>1, <3>2, RotatedBits
    <3>4. QED
      BY <1>7, <2>1, <2>4, <3>3
         DEF ShiftedBits, LSL_VALUE, LSR_VALUE, ASR_VALUE, ROR_VALUE
  <2>5. QED BY <2>3, <2>4
<1>8. shift \in {LSL_VALUE, LSR_VALUE, ASR_VALUE, ROR_VALUE}
  BY DEF LSL_VALUE, LSR_VALUE, ASR_VALUE, ROR_VALUE
<1>9. QED BY <1>4, <1>5, <1>6, <1>7, <1>8

\* In every state each shift of every register, in both sizes and by every
\* amount, moves the bits of the register as its name says, except for the
\* rotations C does not define (dp_reg.c:71).
THEOREM ShiftsAreBitwiseHolds == Spec => []ShiftsAreBitwise
<1>1. TypeOK => ShiftsAreBitwise
  <2> SUFFICES ASSUME TypeOK, NEW r \in Regs
               PROVE  cpu_state.R[r] \in ShiftedAsBits[r]
    BY DEF ShiftsAreBitwise
  <2>1. cpu_state.R[r] \in Word64
    BY DEF TypeOK, State
  <2>2. cpu_state.R[r] \in WellShifted(r)
    BY <2>1, EveryShiftIsBitwise DEF WellShifted
  <2>3. QED BY <2>2 DEF ShiftedAsBits
<1>2. QED
  BY <1>1, TypeCorrect, PTL
=============================================================================
