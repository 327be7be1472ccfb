---------------------------- MODULE CpuTheorems ----------------------------
(***************************************************************************)
(* Lemmas about the processor state and the data-processing instructions:  *)
(* the types of what the operators return, and what they leave alone.      *)
(***************************************************************************)
EXTENDS DataProcessing, TLAPS

(***************************************************************************)
(* The remainder and the quotient of a positive number: the arithmetic of  *)
(* the fixed-width integers of the code.                                   *)
(***************************************************************************)
\* Division with remainder.
LEMMA DivisionParts ==
    ASSUME NEW m \in Nat \ {0}, NEW a \in Int
    PROVE  /\ a = m * (a \div m) + (a % m)
           /\ a % m \in 0 .. m - 1
           /\ a \div m \in Int
    BY SMT

\* A natural number has a natural quotient.
LEMMA NaturalParts ==
    ASSUME NEW m \in Nat \ {0}, NEW a \in Nat
    PROVE  /\ a = m * (a \div m) + (a % m)
           /\ a % m \in 0 .. m - 1
           /\ a \div m \in Nat
<1> DEFINE q == a \div m
           r == a % m
<1>1. a = m * q + r /\ r \in 0 .. m - 1 /\ q \in Int
    BY SMT
<1> HIDE DEF q, r
<1>2. q \in Nat
    BY <1>1, Z3
<1>3. QED
    BY <1>1, <1>2 DEF q, r

\* The quotient and the remainder are the only ones there are.
LEMMA DivisionUnique ==
    ASSUME NEW m \in Nat \ {0}, NEW q \in Int, NEW r \in 0 .. m - 1
    PROVE  (m * q + r) % m = r /\ (m * q + r) \div m = q
<1> DEFINE a == m * q + r
<1>1. a \in Int
    OBVIOUS
<1>2. /\ a = m * (a \div m) + (a % m)
      /\ a % m \in 0 .. m - 1
      /\ a \div m \in Int
    BY <1>1, SMT
<1>3. QED
    BY <1>2, Z3

\* A multiple of the modulus added makes no difference.
LEMMA ModShift ==
    ASSUME NEW m \in Nat \ {0}, NEW a \in Int, NEW q \in Int
    PROVE  (a + m * q) % m = a % m
<1>1. /\ a = m * (a \div m) + (a % m)
      /\ a % m \in 0 .. m - 1
      /\ a \div m \in Int
    BY SMT
<1>2. a + m * q = m * ((a \div m) + q) + (a % m)
    BY <1>1, Z3
<1>3. (a \div m) + q \in Int
    BY <1>1
<1>4. (m * ((a \div m) + q) + (a % m)) % m = a % m
    BY <1>1, <1>3, DivisionUnique
<1>5. QED
    BY <1>2, <1>4

\* The remainder modulo a number is one modulo a divisor of it too.
LEMMA ModOfMultiple ==
    ASSUME NEW m \in Nat \ {0}, NEW k \in Nat \ {0}, NEW a \in Int
    PROVE  (a % (m * k)) % m = a % m
<1>1. m * k \in Nat \ {0}
    BY Z3
<1>2. /\ a = (m * k) * (a \div (m * k)) + (a % (m * k))
      /\ a % (m * k) \in Int
      /\ a \div (m * k) \in Int
    BY <1>1, SMT
<1> DEFINE b == a % (m * k)
           c == a \div (m * k)
<1>3. a = b + m * (k * c)
    BY <1>2, Z3
<1>4. k * c \in Int /\ b \in Int
    BY <1>2
<1>5. (b + m * (k * c)) % m = b % m
    BY <1>4, ModShift
<1>6. QED
    BY <1>3, <1>5

\* Two words of a modulus make one of its square.
LEMMA WordPair ==
    ASSUME NEW m \in Nat \ {0}, NEW a \in 0 .. m - 1, NEW b \in 0 .. m - 1
    PROVE  a + m * b \in 0 .. m * m - 1
    BY Z3

\* The difference of two words, and their sum, modulo the modulus.
LEMMA DifferenceMod ==
    ASSUME NEW m \in Nat \ {0}, NEW x \in 0 .. m - 1, NEW y \in 0 .. m - 1
    PROVE  (x - y) % m = IF x >= y THEN x - y ELSE x - y + m
<1>1. CASE x >= y
    BY <1>1, SMT
<1>2. CASE x < y
    BY <1>2, SMT
<1>3. QED
    BY <1>1, <1>2

LEMMA SumMod ==
    ASSUME NEW m \in Nat \ {0}, NEW x \in 0 .. m - 1, NEW y \in 0 .. m - 1
    PROVE  (x + y) % m = IF x + y < m THEN x + y ELSE x + y - m
<1>1. CASE x + y < m
    BY <1>1, SMT
<1>2. CASE x + y >= m
    BY <1>2, SMT
<1>3. QED
    BY <1>1, <1>2

\* The operand of an addition or a subtraction may be reduced first.
LEMMA OperandMod ==
    ASSUME NEW m \in Nat \ {0}, NEW x \in Int, NEW y \in Int
    PROVE  /\ (x - y) % m = (x - (y % m)) % m
           /\ (x + y) % m = (x + (y % m)) % m
<1>1. /\ y = m * (y \div m) + (y % m)
      /\ y % m \in Int
      /\ y \div m \in Int
    BY SMT
<1> DEFINE q == y \div m
           r == y % m
<1> HIDE DEF q, r
<1>2. x - y = (x - r) + m * (-q) /\ x + y = (x + r) + m * q
    BY <1>1, Z3 DEF q, r
<1>3. q \in Int /\ -q \in Int /\ x - r \in Int /\ x + r \in Int
    BY <1>1 DEF q, r
<1>4. ((x - r) + m * (-q)) % m = (x - r) % m
    BY <1>3, ModShift
<1>5. ((x + r) + m * q) % m = (x + r) % m
    BY <1>3, ModShift
<1>6. QED
    BY <1>2, <1>4, <1>5 DEF r

\* The top bit of a word of modulus 2 * h says whether it is at least h.
LEMMA TopBit ==
    ASSUME NEW h \in Nat \ {0}, NEW v \in 0 .. 2 * h - 1
    PROVE  (v \div h) % 2 = IF v >= h THEN 1 ELSE 0
<1>1. v = h * (IF v >= h THEN 1 ELSE 0) + (IF v >= h THEN v - h ELSE v)
    BY Z3
<1>2. (IF v >= h THEN v - h ELSE v) \in 0 .. h - 1
    OBVIOUS
<1>3. v \div h = IF v >= h THEN 1 ELSE 0
    BY <1>1, <1>2, DivisionUnique
<1>4. QED
    BY <1>3

\* The bit at the top of a width is the same in a wider word.
LEMMA TopBitMod ==
    ASSUME NEW h \in Nat \ {0}, NEW m \in Nat \ {0}, NEW v \in Nat
    PROVE  m = 2 * h => (v \div h) % 2 = ((v % m) \div h) % 2
<1> DEFINE q == v \div m
           r == v % m
           d == r \div h
           e == r % h
<1>1. v = m * q + r /\ r \in 0 .. m - 1 /\ q \in Int
    BY DivisionParts
<1>2. r = h * d + e /\ e \in 0 .. h - 1 /\ d \in Int
  <2>1. r \in Int
    BY <1>1
  <2> HIDE DEF r
  <2>2. QED
    BY <2>1, DivisionParts
<1> HIDE DEF q, r, d, e
<1>3. HAVE m = 2 * h
<1>4. v = h * (2 * q + d) + e
    BY <1>1, <1>2, <1>3, Z3
<1>5. v \div h = 2 * q + d
    BY <1>1, <1>2, <1>4, DivisionUnique
<1>6. (d + 2 * q) % 2 = d % 2
    BY <1>1, <1>2, ModShift
<1>7. (v \div h) % 2 = d % 2
    BY <1>1, <1>2, <1>5, <1>6
<1>8. QED
    BY <1>7 DEF d, r

-----------------------------------------------------------------------------
\* The number of values below the sign bit.
Half(sf) == Width(sf) \div 2

\* Every register fits in 32 bits.
Narrow(cpu) == \A r \in Regs : cpu.R[r] < WMod

\* Both widths are positive and even, and divide the width of a word.
LEMMA Widths ==
    /\ WMod \in Nat \ {0} /\ XMod \in Nat \ {0}
    /\ WMod <= XMod
    /\ \A sf \in Sizes :
          /\ Width(sf) \in Nat \ {0}
          /\ Width(sf) <= XMod
          /\ Half(sf) \in Nat \ {0}
          /\ Width(sf) = 2 * Half(sf)
<1>1. PICK h \in Nat \ {0} : ByteMod = 2 * h
  <2>1. ByteMod \in Nat \ {0} /\ ByteMod % 2 = 0
    BY ByteAssumption
  <2>2. ByteMod = 2 * (ByteMod \div 2) + (ByteMod % 2) /\ ByteMod \div 2 \in Int
    BY <2>1, SMT
  <2>3. QED
    BY <2>1, <2>2
<1>2. /\ WMod \in Nat \ {0} /\ WMod = 2 * (h * ByteMod * ByteMod * ByteMod)
      /\ h * ByteMod * ByteMod * ByteMod \in Nat \ {0}
  <2>1. ByteMod \in Nat \ {0}
    BY ByteAssumption
  <2>2. ByteMod * ByteMod \in Nat \ {0}
    BY <2>1, Z3
  <2>3. ByteMod * ByteMod * ByteMod \in Nat \ {0}
    BY <2>1, <2>2, Z3
  <2>4. h * (ByteMod * ByteMod * ByteMod) \in Nat \ {0}
    BY <2>3, <1>1, Z3
  <2>5. h * ByteMod * ByteMod * ByteMod = h * (ByteMod * ByteMod * ByteMod)
    BY <2>1, <1>1, Z3
  <2>6. WMod = 2 * (h * (ByteMod * ByteMod * ByteMod))
    BY <2>1, <1>1, Z3 DEF WMod
  <2>7. QED
    BY <2>4, <2>5, <2>6
<1> DEFINE w == h * ByteMod * ByteMod * ByteMod
<1> HIDE DEF w
<1>3. /\ XMod \in Nat \ {0} /\ XMod = 2 * (w * WMod)
      /\ w * WMod \in Nat \ {0} /\ WMod <= XMod
    BY <1>2, Z3 DEF XMod, w
<1>4. WMod \div 2 = w /\ XMod \div 2 = w * WMod
  <2>1. \A q \in Int : (2 * q + 0) \div 2 = q
    BY DivisionUnique
  <2>2. \A q \in Int : 2 * q + 0 = 2 * q
    OBVIOUS
  <2>3. w \in Int /\ w * WMod \in Int /\ WMod = 2 * w /\ XMod = 2 * (w * WMod)
    BY <1>2, <1>3 DEF w
  <2>4. QED
    BY <2>1, <2>2, <2>3
<1>5. QED
    BY <1>2, <1>3, <1>4 DEF Width, Half, Sizes, SF32, SF64, w

\* A register is read as a word of the size it is read with.
LEMMA GetRegister ==
    ASSUME NEW cpu \in State, NEW reg \in RegNums, NEW sf \in Sizes
    PROVE  /\ get_register_value(cpu, reg, sf) \in 0 .. Width(sf) - 1
           /\ get_register_value(cpu, reg, sf) \in Word64
<1>1. Width(sf) \in Nat \ {0} /\ Width(sf) <= XMod /\ XMod \in Nat
    BY Widths
<1>2. CASE reg = ZR_REG
    BY <1>1, <1>2 DEF get_register_value, Word64
<1>3. CASE reg # ZR_REG
  <2>1. cpu.R[reg] \in Int
    BY <1>1, <1>3 DEF State, RegNums, Word64
  <2>2. cpu.R[reg] % Width(sf) \in 0 .. Width(sf) - 1
    BY <1>1, <2>1, DivisionParts
  <2>3. QED
    BY <1>1, <1>3, <2>2 DEF get_register_value, Word64
<1>4. QED
    BY <1>2, <1>3

\* A register write gives a state, touches neither the PC nor the flags,
\* and with the 32-bit size keeps narrow registers narrow.
LEMMA SetRegister ==
    ASSUME NEW cpu \in State, NEW reg \in RegNums, NEW value \in Int,
           NEW sf \in Sizes
    PROVE  LET c == set_register_value(cpu, reg, value, sf)
           IN  /\ c \in State
               /\ c.PC = cpu.PC
               /\ c.PSTATE = cpu.PSTATE
               /\ Narrow(cpu) /\ sf = SF32 => Narrow(c)
<1>1. Width(sf) \in Nat \ {0} /\ Width(sf) <= XMod /\ XMod \in Nat
    BY Widths
<1>2. CASE reg = ZR_REG
    BY <1>2 DEF set_register_value
<1>3. CASE reg # ZR_REG
  <2> DEFINE v == value % Width(sf)
             c == [cpu EXCEPT !.R[reg] = v]
  <2>1. v \in 0 .. Width(sf) - 1
    BY <1>1, DivisionParts
  <2>2. v \in Word64
    BY <1>1, <2>1 DEF Word64
  <2>3. set_register_value(cpu, reg, value, sf) = c
    BY <1>3 DEF set_register_value
  <2> HIDE DEF v
  <2>4. c \in State /\ c.PC = cpu.PC /\ c.PSTATE = cpu.PSTATE
    BY <2>2 DEF State
  <2>5. ASSUME Narrow(cpu), sf = SF32, NEW r \in Regs
        PROVE  c.R[r] < WMod
    <3>1. v < WMod
      BY <2>1, <2>5, Widths DEF Width, SF32
    <3>2. c.R = [cpu.R EXCEPT ![reg] = v]
      BY DEF State
    <3>3. QED
      BY <2>5, <3>1, <3>2 DEF State, Narrow
  <2>6. QED
    BY <2>3, <2>4, <2>5 DEF Narrow
<1>4. QED
    BY <1>2, <1>3

\* Powers of two up to the width of an X register are positive.
LEMMA Powers ==
    \A k \in 0 .. XBits : 2^k \in Nat \ {0}
BY ByteAssumption

LEMMA Bits ==
    /\ WBits \in Nat \ {0} /\ XBits \in Nat \ {0} /\ WBits <= XBits
    /\ \A sf \in Sizes : NumBits(sf) \in 1 .. XBits
    /\ \A k \in Int : k % XBits \in 0 .. XBits - 1
<1>1. ByteBits \in Nat \ {0}
    BY ByteAssumption
<1>2. WBits \in Nat \ {0} /\ XBits \in Nat \ {0} /\ WBits <= XBits
    BY <1>1 DEF WBits, XBits
<1>3. \A k \in Int : k % XBits \in 0 .. XBits - 1
    BY <1>2, DivisionParts
<1>4. QED
    BY <1>2, <1>3 DEF NumBits, Sizes

\* A number reduced to a word is a word.
LEMMA ReducedIsWord ==
    ASSUME NEW v \in Int
    PROVE  v % XMod \in Word64
BY Widths, DivisionParts DEF Word64

\* A word shifted right is a word.
LEMMA QuotientIsWord ==
    ASSUME NEW v \in Word64, NEW d \in Nat \ {0}
    PROVE  v \div d \in Word64
<1>1. v \in Int /\ v >= 0 /\ v < XMod /\ XMod \in Nat
    BY Widths DEF Word64
<1>2. /\ v = d * (v \div d) + (v % d)
      /\ v % d \in 0 .. d - 1
      /\ v \div d \in Int
    BY <1>1, DivisionParts
<1> DEFINE q == v \div d
<1> HIDE DEF q
<1>3. q \in Int /\ v = d * q + (v % d) /\ v % d \in 0 .. d - 1
    BY <1>2 DEF q
<1>4. q >= 0 /\ q <= v
    BY <1>1, <1>3, Z3
<1>5. QED
    BY <1>1, <1>3, <1>4 DEF q, Word64

\* The bitwise operators return words.
LEMMA BitwiseAreWords ==
    ASSUME NEW a \in Word64, NEW b \in Word64
    PROVE  /\ BitAnd(a, b) \in Word64
           /\ BitOr(a, b) \in Word64
           /\ BitXor(a, b) \in Word64
           /\ BitNot(a) \in Word64
<1>1. BitsOf[a] \subseteq 0 .. XBits - 1 /\ BitsOf[b] \subseteq 0 .. XBits - 1
    BY DEF BitsOf
<1>2. \A S \in SUBSET (0 .. XBits - 1) : WordOf[S] \in Word64
    BY BitsAssumption DEF WordOf
<1>3. BitNot(a) \in Word64
    BY Widths DEF BitNot, Word64
<1>4. QED
    BY <1>1, <1>2, <1>3 DEF BitAnd, BitOr, BitXor

\* Selecting bits of a word gives a word.
LEMMA SelectIsWord ==
    ASSUME NEW v \in Word64, NEW offset \in 0 .. XBits, NEW size \in Int
    PROVE  SELECT_BITS(v, offset, size) \in Word64
<1> DEFINE shifted_v == v \div 2^offset
           m == 2^(size % XBits)
<1>1. shifted_v \in Word64
    BY Powers, QuotientIsWord
<1>2. m \in Nat \ {0}
    BY Powers, Bits
<1> HIDE DEF shifted_v, m
<1>3. shifted_v \in Int /\ shifted_v >= 0 /\ shifted_v < XMod /\ XMod \in Nat
    BY <1>1, Widths DEF Word64
<1>4. /\ shifted_v = m * (shifted_v \div m) + (shifted_v % m)
      /\ shifted_v % m \in 0 .. m - 1
      /\ shifted_v \div m \in Word64
    BY <1>1, <1>2, <1>3, DivisionParts, QuotientIsWord
<1> DEFINE q == shifted_v \div m
           r == shifted_v % m
<1> HIDE DEF q, r
<1>5. shifted_v = m * q + r /\ r \in Nat /\ q \in Nat
    BY <1>2, <1>4 DEF q, r, Word64
<1>6. r <= shifted_v
    BY <1>2, <1>5, Z3
<1>7. QED
    BY <1>3, <1>5, <1>6 DEF r, m, shifted_v, SELECT_BITS, Word64

\* The shifts return words.
LEMMA ShiftIsWord ==
    ASSUME NEW cpu \in State, NEW shift \in 0 .. 3, NEW rm \in RegNums,
           NEW amount \in 0 .. XBits - 1, NEW sf \in Sizes
    PROVE  shifted(cpu, shift, rm, amount, sf) \in Word64
<1> DEFINE v == get_register_value(cpu, rm, sf)
<1>1. v \in 0 .. Width(sf) - 1 /\ v \in Word64 /\ v \in Int
    BY GetRegister DEF Word64
<1>2. 2^amount \in Nat \ {0} /\ amount \in 0 .. XBits
    BY Powers, Bits
<1>3. lsl(cpu, rm, amount, sf) \in Word64
  <2>1. v * 2^amount \in Int
    BY <1>1, <1>2
  <2>2. QED
    BY <2>1, ReducedIsWord DEF lsl
<1>4. lsr(cpu, rm, amount, sf) \in Word64
    BY <1>1, <1>2, QuotientIsWord DEF lsr
<1>5. asr(cpu, rm, amount, sf) \in Word64
  <2>1. Signed(v, sf) \in Int
    BY <1>1, Widths DEF Signed
  <2>2. Signed(v, sf) \div 2^amount \in Int
    BY <1>2, <2>1, DivisionParts
  <2>3. QED
    BY <2>2, ReducedIsWord DEF asr
<1>6. ror(cpu, rm, amount, sf) \in Word64
  <2> DEFINE n == NumBits(sf)
             lower == SELECT_BITS(v, 0, amount)
             upper == SELECT_BITS(v, amount, n - amount)
             p == 2^((n - amount) % XBits)
  <2>1. n \in Int /\ amount \in Int /\ n - amount \in Int /\ 0 \in 0 .. XBits
    BY Bits
  <2>2. lower \in Word64 /\ upper \in Word64
    BY <1>1, <1>2, <2>1, SelectIsWord
  <2>3. p \in Nat \ {0}
    BY <2>1, Bits, Powers
  <2> HIDE DEF n, lower, upper, p, v
  <2>4. lower * p \in Int
    BY <2>2, <2>3 DEF Word64
  <2>5. BitOr(upper, (lower * p) % XMod) \in Word64
    BY <2>2, <2>4, ReducedIsWord, BitwiseAreWords
  <2>6. QED
    BY <2>5 DEF ror, n, lower, upper, p, v
<1>7. QED
    BY <1>3, <1>4, <1>5, <1>6
       DEF shifted, LSL_VALUE, LSR_VALUE, ASR_VALUE, ROR_VALUE

\* Setting flags touches the flags alone.
LEMMA SetNZ ==
    ASSUME NEW cpu \in State, NEW result, NEW sf
    PROVE  LET c == set_NZ_flags(cpu, result, sf)
           IN  /\ c \in State
               /\ c.PC = cpu.PC
               /\ c.R = cpu.R
               /\ c.PSTATE.N = (SignBit(result, sf) = 1)
               /\ c.PSTATE.Z = (result % Width(sf) = 0)
<1> DEFINE n == SignBit(result, sf) = 1
           z == result % Width(sf) = 0
<1>1. n \in BOOLEAN /\ z \in BOOLEAN
    OBVIOUS
<1> HIDE DEF n, z
<1> DEFINE p == [cpu.PSTATE EXCEPT !.N = n, !.Z = z]
           c == [cpu EXCEPT !.PSTATE = p]
<1>2. p \in PState /\ p.N = n /\ p.Z = z
    BY <1>1 DEF State, PState
<1>3. c \in State /\ c.PC = cpu.PC /\ c.R = cpu.R /\ c.PSTATE = p
    BY <1>2 DEF State
<1>4. set_NZ_flags(cpu, result, sf) = c
    BY DEF set_NZ_flags, State, n, z
<1>5. QED
    BY <1>2, <1>3, <1>4 DEF n, z

\* What is unchanged by an instruction of data processing: the state stays a
\* state, the PC stays, and 32-bit instructions keep narrow registers narrow.
Kept(cpu, c, sf) ==
    /\ c \in State
    /\ c.PC = cpu.PC
    /\ Narrow(cpu) /\ sf = SF32 => Narrow(c)

\* Two flags set on top of the result of an instruction.
LEMMA SetCV ==
    ASSUME NEW cpu \in State, NEW c \in BOOLEAN, NEW v \in BOOLEAN
    PROVE  LET d == [cpu EXCEPT !.PSTATE.C = c, !.PSTATE.V = v]
           IN  /\ d \in State /\ d.PC = cpu.PC /\ d.R = cpu.R
               /\ d.PSTATE.N = cpu.PSTATE.N /\ d.PSTATE.Z = cpu.PSTATE.Z
               /\ d.PSTATE.C = c /\ d.PSTATE.V = v
BY DEF State, PState

LEMMA ArithmeticKeeps ==
    ASSUME NEW cpu \in State, NEW opc \in 0 .. 3, NEW dest \in RegNums,
           NEW src \in RegNums, NEW op2 \in Word64, NEW sf \in Sizes
    PROVE  LET c == arithmetic(cpu, opc, dest, src, op2, sf)
           IN  /\ Kept(cpu, c, sf)
               /\ opc \in {ADD_OPC, SUB_OPC} => c.PSTATE = cpu.PSTATE
<1> DEFINE x == get_register_value(cpu, src, sf)
           add == add_imm(cpu, dest, src, op2, sf)
           sub == sub_imm(cpu, dest, src, op2, sf)
<1>1. x \in Int /\ op2 \in Int
    BY GetRegister DEF Word64
<1>2. Kept(cpu, add, sf) /\ add.PSTATE = cpu.PSTATE
  <2>1. x + op2 \in Int
    BY <1>1
  <2>2. QED
    BY <2>1, SetRegister DEF add_imm, Kept
<1>3. Kept(cpu, sub, sf) /\ sub.PSTATE = cpu.PSTATE
  <2>1. x - op2 \in Int
    BY <1>1
  <2>2. QED
    BY <2>1, SetRegister DEF sub_imm, Kept
<1>4. Kept(cpu, adds_imm(cpu, dest, src, op2, sf), sf)
  <2> DEFINE result == (x + op2) % Width(sf)
             c == result < x
             v == /\ SignBit(x, sf) = SignBit(op2, sf)
                  /\ SignBit(result, sf) # SignBit(op2, sf)
             nz == set_NZ_flags(add, result, sf)
  <2> HIDE DEF add, x
  <2>1. nz \in State /\ nz.PC = cpu.PC /\ nz.R = add.R
    BY <1>2, SetNZ DEF Kept
  <2>2. c \in BOOLEAN /\ v \in BOOLEAN
    OBVIOUS
  <2> DEFINE d == [nz EXCEPT !.PSTATE.C = c, !.PSTATE.V = v]
  <2>3. adds_imm(cpu, dest, src, op2, sf) = d
    BY DEF adds_imm, adds_flags, add, x
  <2> HIDE DEF c, v, nz
  <2>4. d \in State /\ d.PC = nz.PC /\ d.R = nz.R
    BY <2>1, <2>2 DEF State, PState
  <2> HIDE DEF d
  <2>5. QED
    BY <1>2, <2>1, <2>3, <2>4 DEF Kept, Narrow
<1>5. Kept(cpu, subs_imm(cpu, dest, src, op2, sf), sf)
  <2> DEFINE result == (x - op2) % Width(sf)
             c == ~(result > x)
             v == /\ SignBit(x, sf) # SignBit(op2, sf)
                  /\ SignBit(result, sf) = SignBit(op2, sf)
             nz == set_NZ_flags(sub, result, sf)
  <2> HIDE DEF sub, x
  <2>1. nz \in State /\ nz.PC = cpu.PC /\ nz.R = sub.R
    BY <1>3, SetNZ DEF Kept
  <2>2. c \in BOOLEAN /\ v \in BOOLEAN
    OBVIOUS
  <2> DEFINE d == [nz EXCEPT !.PSTATE.C = c, !.PSTATE.V = v]
  <2>3. subs_imm(cpu, dest, src, op2, sf) = d
    BY DEF subs_imm, subs_flags, sub, x
  <2> HIDE DEF c, v, nz
  <2>4. d \in State /\ d.PC = nz.PC /\ d.R = nz.R
    BY <2>1, <2>2 DEF State, PState
  <2> HIDE DEF d
  <2>5. QED
    BY <1>3, <2>1, <2>3, <2>4 DEF Kept, Narrow
<1>6. QED
    BY <1>2, <1>3, <1>4, <1>5
       DEF arithmetic, ADD_OPC, ADDS_OPC, SUB_OPC, SUBS_OPC

LEMMA WideMoveKeeps ==
    ASSUME NEW cpu \in State, NEW opc \in 0 .. 3, NEW rd \in RegNums,
           NEW hw \in 0 .. 3, NEW imm \in 0 .. HalfMod - 1, NEW sf \in Sizes
    PROVE  LET c == wide_move(cpu, opc, rd, hw, imm, sf)
           IN  Kept(cpu, c, sf) /\ c.PSTATE = cpu.PSTATE
<1> DEFINE weight == HalfWeight(hw)
           x == get_register_value(cpu, rd, sf)
<1>1. HalfMod \in Nat \ {0}
  <2>1. ByteMod \in Nat \ {0}
    BY ByteAssumption
  <2>2. QED
    BY <2>1, Z3 DEF HalfMod
<1>2. weight \in Nat \ {0}
  <2>1. HalfMod * WMod \in Nat \ {0}
    BY <1>1, Widths, Z3
  <2>2. QED
    BY <1>1, <2>1, Widths DEF HalfWeight
<1>3. x \in Int /\ imm \in Int
    BY <1>1, GetRegister DEF Word64
<1> HIDE DEF weight, x
<1>4. imm * weight \in Int
    BY <1>2, <1>3
<1>5. /\ Kept(cpu, movn_imm(cpu, rd, imm * weight, sf), sf)
      /\ movn_imm(cpu, rd, imm * weight, sf).PSTATE = cpu.PSTATE
  <2>1. BitNot(imm * weight) \in Int
    BY <1>4, Widths DEF BitNot
  <2>2. QED
    BY <2>1, SetRegister DEF movn_imm, Kept
<1>6. /\ Kept(cpu, movz_imm(cpu, rd, imm * weight, sf), sf)
      /\ movz_imm(cpu, rd, imm * weight, sf).PSTATE = cpu.PSTATE
    BY <1>4, SetRegister DEF movz_imm, Kept
<1>7. /\ Kept(cpu, movk_imm(cpu, rd, hw, imm, sf), sf)
      /\ movk_imm(cpu, rd, hw, imm, sf).PSTATE = cpu.PSTATE
  <2> DEFINE old == (x \div weight) % HalfMod
             v == x + (imm - old) * weight
  <2>1. x \div weight \in Int
    BY <1>2, <1>3, DivisionParts
  <2>2. old \in Int
    BY <1>1, <2>1, DivisionParts
  <2> HIDE DEF old
  <2>3. v \in Int
    BY <1>2, <1>3, <2>2
  <2>4. movk_imm(cpu, rd, hw, imm, sf) = set_register_value(cpu, rd, v, sf)
    BY DEF movk_imm, old, weight, x
  <2> HIDE DEF v
  <2>5. QED
    BY <2>3, <2>4, SetRegister DEF Kept
<1>8. Kept(cpu, cpu, sf)
    BY DEF Kept
<1>9. QED
    BY <1>5, <1>6, <1>7, <1>8
       DEF wide_move, weight, MOVN_OPC, MOVZ_OPC, MOVK_OPC

LEMMA BitLogicKeeps ==
    ASSUME NEW cpu \in State, NEW opc \in 0 .. 3, NEW n \in 0 .. 1,
           NEW rd \in RegNums, NEW rn \in RegNums, NEW op2 \in Word64,
           NEW sf \in Sizes
    PROVE  LET c == bit_logic(cpu, opc, n, rd, rn, op2, sf)
           IN  /\ Kept(cpu, c, sf)
               /\ opc # ANDS_OPC => c.PSTATE = cpu.PSTATE
<1> DEFINE x == get_register_value(cpu, rn, sf)
           b == IF n = 1 THEN BitNot(op2) ELSE op2
           result == logic_result(opc, n, x, op2)
           written == set_register_value(cpu, rd, result, sf)
<1>1. x \in Word64 /\ b \in Word64
    BY GetRegister, BitwiseAreWords
<1> HIDE DEF x
<1>2. result \in Word64
  <2>1. BitAnd(x, b) \in Word64 /\ BitOr(x, b) \in Word64 /\ BitXor(x, b) \in Word64
    BY <1>1, BitwiseAreWords
  <2>2. QED
    BY <2>1 DEF logic_result, AND_OPC, ORR_OPC, EON_OPC, ANDS_OPC
<1> HIDE DEF result
<1>3. Kept(cpu, written, sf) /\ written.PSTATE = cpu.PSTATE
  <2>1. result \in Int
    BY <1>2 DEF Word64
  <2>2. QED
    BY <2>1, SetRegister DEF Kept
<1> HIDE DEF written
<1>4. CASE opc = ANDS_OPC
  <2> DEFINE nz == set_NZ_flags(written, result, sf)
             d == [nz EXCEPT !.PSTATE.C = FALSE, !.PSTATE.V = FALSE]
  <2>1. nz \in State /\ nz.PC = cpu.PC /\ nz.R = written.R
    BY <1>3, SetNZ DEF Kept
  <2>2. bit_logic(cpu, opc, n, rd, rn, op2, sf) = d
    BY <1>4 DEF bit_logic, written, result, x
  <2> HIDE DEF nz
  <2>3. d \in State /\ d.PC = nz.PC /\ d.R = nz.R
    BY <2>1 DEF State, PState
  <2> HIDE DEF d
  <2>4. QED
    BY <1>3, <1>4, <2>1, <2>2, <2>3 DEF Kept, Narrow
<1>5. CASE opc # ANDS_OPC
  <2>1. bit_logic(cpu, opc, n, rd, rn, op2, sf) = written
    BY <1>5 DEF bit_logic, written, result, x
  <2>2. QED
    BY <1>3, <2>1
<1>6. QED
    BY <1>4, <1>5

LEMMA MultiplyKeeps ==
    ASSUME NEW cpu \in State, NEW rd \in RegNums, NEW ra \in RegNums,
           NEW rn \in RegNums, NEW rm \in RegNums, NEW sf \in Sizes
    PROVE  /\ Kept(cpu, madd(cpu, rd, ra, rn, rm, sf), sf)
           /\ madd(cpu, rd, ra, rn, rm, sf).PSTATE = cpu.PSTATE
           /\ Kept(cpu, msub(cpu, rd, ra, rn, rm, sf), sf)
           /\ msub(cpu, rd, ra, rn, rm, sf).PSTATE = cpu.PSTATE
<1> DEFINE x == get_register_value(cpu, ra, sf)
           y == get_register_value(cpu, rn, sf)
           z == get_register_value(cpu, rm, sf)
<1>1. x \in Int /\ y \in Int /\ z \in Int
    BY GetRegister DEF Word64
<1> HIDE DEF x, y, z
<1>2. x + y * z \in Int /\ x - y * z \in Int
    BY <1>1
<1>3. /\ madd(cpu, rd, ra, rn, rm, sf) = set_register_value(cpu, rd, x + y * z, sf)
      /\ msub(cpu, rd, ra, rn, rm, sf) = set_register_value(cpu, rd, x - y * z, sf)
    BY DEF madd, msub, x, y, z
<1> DEFINE s == x + y * z
           t == x - y * z
<1> HIDE DEF s, t
<1>4. s \in Int /\ t \in Int
    BY <1>2 DEF s, t
<1>5. /\ Kept(cpu, set_register_value(cpu, rd, s, sf), sf)
      /\ set_register_value(cpu, rd, s, sf).PSTATE = cpu.PSTATE
      /\ Kept(cpu, set_register_value(cpu, rd, t, sf), sf)
      /\ set_register_value(cpu, rd, t, sf).PSTATE = cpu.PSTATE
    BY <1>4, SetRegister DEF Kept
<1>6. QED
    BY <1>3, <1>5 DEF s, t

\* The two execute functions keep what Kept says, whatever the instruction,
\* and set flags in adds, subs, ands and bics only.
LEMMA DPImmKeeps ==
    ASSUME NEW cpu \in State, NEW i \in ArithImm \cup WideMove
    PROVE  LET c == execute_dpimm_instruction(cpu, i)
           IN  /\ Kept(cpu, c, i.sf)
               /\ i.op = "wide_move" \/ i.opc \in {ADD_OPC, SUB_OPC} =>
                     c.PSTATE = cpu.PSTATE
<1>1. CASE i \in ArithImm
  <2>1. /\ i.op = "arith_imm" /\ i.sf \in Sizes /\ i.opc \in 0 .. 3
        /\ i.rd \in RegNums /\ i.rn \in RegNums /\ i.imm \in Word64
    BY <1>1 DEF ArithImm
  <2>2. QED
    BY <2>1, ArithmeticKeeps DEF execute_dpimm_instruction
<1>2. CASE i \in WideMove
  <2>1. /\ i.op = "wide_move" /\ i.sf \in Sizes /\ i.opc \in 0 .. 3
        /\ i.rd \in RegNums /\ i.hw \in 0 .. 3 /\ i.imm \in 0 .. HalfMod - 1
    BY <1>2 DEF WideMove
  <2>2. QED
    BY <2>1, WideMoveKeeps DEF execute_dpimm_instruction
<1>3. QED
    BY <1>1, <1>2

LEMMA DPRegKeeps ==
    ASSUME NEW cpu \in State,
           NEW i \in ArithReg \cup LogicReg \cup MultiplyReg
    PROVE  LET c == execute_dpreg_instruction(cpu, i)
           IN  /\ Kept(cpu, c, i.sf)
               /\ \/ i.op = "multiply_reg"
                  \/ i.op = "arith_reg" /\ i.opc \in {ADD_OPC, SUB_OPC}
                  \/ i.op = "logic_reg" /\ i.opc # ANDS_OPC
                  => c.PSTATE = cpu.PSTATE
<1>1. CASE i \in ArithReg
  <2>1. /\ i.op = "arith_reg" /\ i.sf \in Sizes /\ i.opc \in 0 .. 3
        /\ i.rd \in RegNums /\ i.rn \in RegNums /\ i.rm \in RegNums
        /\ i.shift \in 0 .. 3 /\ i.amount \in 0 .. XBits - 1
    BY <1>1 DEF ArithReg
  <2> DEFINE op2 == shifted(cpu, i.shift, i.rm, i.amount, i.sf)
  <2>2. op2 \in Word64
    BY <2>1, ShiftIsWord
  <2>3. execute_dpreg_instruction(cpu, i)
            = arithmetic(cpu, i.opc, i.rd, i.rn, op2, i.sf)
    BY <2>1 DEF execute_dpreg_instruction, execute_arithmetic_instruction
  <2> HIDE DEF op2
  <2>4. QED
    BY <2>1, <2>2, <2>3, ArithmeticKeeps
<1>2. CASE i \in LogicReg
  <2>1. /\ i.op = "logic_reg" /\ i.sf \in Sizes /\ i.opc \in 0 .. 3
        /\ i.rd \in RegNums /\ i.rn \in RegNums /\ i.rm \in RegNums
        /\ i.shift \in 0 .. 3 /\ i.amount \in 0 .. XBits - 1 /\ i.n \in 0 .. 1
    BY <1>2 DEF LogicReg
  <2> DEFINE op2 == shifted(cpu, i.shift, i.rm, i.amount, i.sf)
  <2>2. op2 \in Word64
    BY <2>1, ShiftIsWord
  <2>3. execute_dpreg_instruction(cpu, i)
            = bit_logic(cpu, i.opc, i.n, i.rd, i.rn, op2, i.sf)
    BY <2>1 DEF execute_dpreg_instruction, execute_bit_logic_instruction
  <2> HIDE DEF op2
  <2>4. QED
    BY <2>1, <2>2, <2>3, BitLogicKeeps
<1>3. CASE i \in MultiplyReg
  <2> DEFINE rd == i.rd
             ra == i.ra
             rn == i.rn
             rm == i.rm
             sf == i.sf
             add == madd(cpu, rd, ra, rn, rm, sf)
             sub == msub(cpu, rd, ra, rn, rm, sf)
  <2>1. /\ i.op = "multiply_reg" /\ sf \in Sizes /\ rd \in RegNums
        /\ rn \in RegNums /\ rm \in RegNums /\ ra \in RegNums
    BY <1>3 DEF MultiplyReg
  <2>2. execute_dpreg_instruction(cpu, i) = IF i.x = MADD_X THEN add ELSE sub
    BY <2>1 DEF execute_dpreg_instruction, execute_multiply_instruction
  <2> HIDE DEF rd, ra, rn, rm, sf
  <2>3. /\ Kept(cpu, add, sf) /\ add.PSTATE = cpu.PSTATE
        /\ Kept(cpu, sub, sf) /\ sub.PSTATE = cpu.PSTATE
    BY <2>1, MultiplyKeeps
  <2> HIDE DEF add, sub
  <2>4. QED
    BY <2>2, <2>3 DEF sf
<1>4. QED
    BY <1>1, <1>2, <1>3
=============================================================================
