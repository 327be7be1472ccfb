-------------------------- MODULE InstructionText --------------------------
(***************************************************************************)
(* An instruction as text, with the tokens strtok cuts a line into: what   *)
(* the assembler reads and the disassembler prints.  Blanks, case and the  *)
(* base of a number are left out.  A 64-bit address is given by its signed *)
(* reading, so that differences do not need 2^64.                          *)
(***************************************************************************)
EXTENDS InstructionWord

SF32 == 0
SF64 == 1
ZR_REG == 31

\* A register: the letter, and the number after it; zr is 31.
W(n) == [sf |-> SF32, n |-> n]
X(n) == [sf |-> SF64, n |-> n]

Imm(n) == [imm |-> n]
is_immediate(operand) == "imm" \in DOMAIN operand

NoShift == [type |-> "none"]
Shift(type, amount) == [type |-> type, amount |-> amount]

\* add rd, rn, operand {, shift}
TwoOp(opcode, rd, rn, operand, shift) ==
    [form |-> "two_op", opcode |-> opcode, rd |-> rd, rn |-> rn,
     operand |-> operand, shift |-> shift]

\* mov rd, operand {, shift}
SingleOp(opcode, rd, operand, shift) ==
    [form |-> "single_op", opcode |-> opcode, rd |-> rd,
     operand |-> operand, shift |-> shift]

\* cmp rn, operand {, shift}
NoDest(opcode, rn, operand, shift) ==
    [form |-> "no_dest", opcode |-> opcode, rn |-> rn,
     operand |-> operand, shift |-> shift]

\* madd rd, rn, rm, ra and mul rd, rn, rm
Multiply(opcode, rd, rn, rm, ra) ==
    [form |-> "multiply", opcode |-> opcode, rd |-> rd, rn |-> rn,
     rm |-> rm, ra |-> ra]
Product(opcode, rd, rn, rm) ==
    [form |-> "product", opcode |-> opcode, rd |-> rd, rn |-> rn, rm |-> rm]

\* ldr rt, #address;  ldr rt, [xn, #n], where [xn] is [xn, #0];
\* ldr rt, [xn, #n]!;  ldr rt, [xn], #n;  ldr rt, [xn, xm]; and a second
\* token in the brackets that starts with neither # nor x.
Transfer(opcode, rt, mode, xn, offset) ==
    [form |-> "transfer", opcode |-> opcode, rt |-> rt, mode |-> mode,
     xn |-> xn, offset |-> offset]
Literal(rt, address) ==
    [form |-> "literal", opcode |-> "ldr", rt |-> rt, address |-> address]

\* b target;  br xn;  b.cond target
Branch(target) == [form |-> "b", target |-> target]
BranchReg(xn) == [form |-> "br", xn |-> xn]
BranchCond(cond, target) == [form |-> "b.", cond |-> cond, target |-> target]

Nop == [form |-> "nop"]
IntDirective(word) == [form |-> ".int", word |-> word]

\* A line the assembler refuses whatever its opcode.
Garbage == [form |-> "garbage"]

\* What a line of each form has, whatever its opcode; the products are the
\* single-operand aliases of a form of their own.
Register == [sf : {SF32, SF64}, n : Nat]
Immediate == [imm : Int]
IsShift(s) == s = NoShift \/ (s.type # "none" /\ s.amount \in Int)

IsLine(l) ==
    /\ l.form \in {"two_op", "single_op", "no_dest", "multiply", "product",
                   "transfer", "literal", "b", "br", "b.", "nop", ".int",
                   "garbage"}
    /\ l.form \in {"two_op", "single_op", "multiply", "product"} =>
          l.rd \in Register
    /\ l.form \in {"two_op", "no_dest", "multiply"} => l.rn \in Register
    /\ l.form \in {"two_op", "single_op", "no_dest"} =>
          l.operand \in Register \cup Immediate /\ IsShift(l.shift)
    /\ l.form = "single_op" => l.opcode \notin {"mul", "mneg"}
    /\ l.form = "product" => l.rn \in Register \cup Immediate
    /\ l.form \in {"multiply", "product"} => l.rm \in Register
    /\ l.form = "multiply" => l.ra \in Register
    /\ l.form \in {"transfer", "literal"} => l.rt \in Register
    /\ l.form = "transfer" =>
          /\ l.mode \in {"unsigned", "pre", "post", "register", "other"}
          /\ l.xn \in Register
          /\ l.offset \in IF l.mode = "register" THEN Register ELSE Immediate
    /\ l.form = "literal" => l.opcode = "ldr" /\ l.address \in Int
    /\ l.form \in {"b", "b."} => l.target \in Int
    /\ l.form = "br" => l.xn \in Register
    /\ l.form = ".int" => l.word \in Word

\* strtoll of a number printed as a uint64_t: beyond 2^63 it is LLONG_MAX,
\* here a number like it, odd and far from every address.
LLONG_MAX == 2^30 - 1
strtoll(n) == IF n < 0 THEN LLONG_MAX ELSE n
=============================================================================
