---------------------------- MODULE MCToolchain ----------------------------
(***************************************************************************)
(* Instances of Toolchain.  The sources are single lines of every opcode   *)
(* with operands at the limits of their fields, and some pairs of lines;   *)
(* the binaries are words of every encoding with up to two bits flipped,   *)
(* each before a word whose text depends on its address.                   *)
(***************************************************************************)
EXTENDS Toolchain

\* Register numbers at the bounds: the zero register, the first refused one
\* and the first that is x0 again.
MCRegs == {X(0), X(30), X(31), W(1), X(32), X(256)}
MCFew == {X(0), X(31), W(1)}
MCShifts ==
    {NoShift, Shift("lsl", 0), Shift("lsl", 12), Shift("lsl", 64),
     Shift("lsl", 268), Shift("lsl", -244), Shift("lsr", 63),
     Shift("asr", 31), Shift("ror", 3), Shift("asl", 1)}
MCImms == {Imm(n) : n \in {-1, 0, 1, 4095, 4096, 65535, 65536}}

MCTwoOps ==
    {TwoOp(opcode, X(0), rn, operand, shift) :
        opcode \in arithmetic_opcodes, rn \in {X(0), W(1)},
        operand \in MCFew \cup MCImms, shift \in MCShifts} \cup
    {TwoOp(opcode, X(0), X(0), operand, shift) :
        opcode \in bit_logic_opcodes,
        operand \in MCFew \cup {Imm(1)}, shift \in MCShifts} \cup
    {TwoOp(opcode, rd, rn, rm, NoShift) :
        opcode \in {"add", "eon"}, rd \in MCRegs, rn \in MCRegs, rm \in MCRegs}

MCSingleOps ==
    {SingleOp(opcode, X(3), operand, shift) :
        opcode \in wide_move_opcodes, operand \in MCImms,
        shift \in {NoShift} \cup {Shift("lsl", n) : n \in {0, 8, 48, 64}}} \cup
    {SingleOp(opcode, rd, operand, shift) :
        opcode \in DOMAIN alias_opcode, rd \in MCFew,
        operand \in MCFew \cup {Imm(3)}, shift \in {NoShift, Shift("lsl", 0)}}

MCOtherDPs ==
    {NoDest(opcode, rn, operand, shift) :
        opcode \in DOMAIN no_dest_opcode, rn \in MCFew,
        operand \in MCFew \cup {Imm(7)},
        shift \in {NoShift, Shift("lsl", 12), Shift("ror", 1)}} \cup
    {Multiply(opcode, rd, X(3), rm, ra) :
        opcode \in {"madd", "msub"}, rd \in MCFew, rm \in MCFew, ra \in MCFew}
        \cup
    {Product(opcode, rd, rn, X(4)) :
        opcode \in {"mul", "mneg"}, rd \in MCRegs, rn \in MCFew \cup {Imm(3)}}

MCTransfers ==
    {Transfer(opcode, rt, mode, xn, Imm(n)) :
        opcode \in {"ldr", "str"}, rt \in MCFew, mode \in {"pre", "post"},
        xn \in {X(5), W(5), X(31)},
        n \in {-257, -256, -1, 0, 255, 256}} \cup
    {Transfer(opcode, rt, "unsigned", xn, Imm(n)) :
        opcode \in {"ldr", "str"}, rt \in MCFew, xn \in {X(5), W(5)},
        n \in {-8, 0, 4, 8, 28, 8188, 8192, 32760, 32768}} \cup
    {Transfer(opcode, rt, "register", xn, xm) :
        opcode \in {"ldr", "str"}, rt \in MCFew, xn \in {X(5), X(261)},
        xm \in MCRegs} \cup
    {Transfer(opcode, rt, "other", X(5), Imm(0)) :
        opcode \in {"ldr", "str"}, rt \in MCFew} \cup
    {Literal(rt, address) :
        rt \in MCFew,
        address \in {-4, 0, 6, 8, 1048572, 1048576, 1048580, 1048584}}

MCTargets ==
    {-4, 0, 6, 8, 12, 1048572, 1048584, 134217724, 134217728, 134217736}
MCBranches ==
    {Branch(target) : target \in MCTargets} \cup
    {BranchCond(cond, target) :
        cond \in DOMAIN cond_value \cup {"hi"}, target \in MCTargets} \cup
    {BranchReg(r) : r \in MCRegs}

MCSpecials ==
    {Nop, Garbage, TwoOp("adc", X(0), X(1), X(2), NoShift),
     IntDirective({}), IntDirective(HALT_INSTRUCTION),
     TwoOp("and", X(0), X(0), X(0), NoShift)}

MCLines == MCTwoOps \cup MCSingleOps \cup MCOtherDPs \cup MCTransfers
                \cup MCBranches \cup MCSpecials

\* A line before one whose word depends on its address.
MCSources ==
    {<<line>> : line \in MCLines} \cup
    {<<line, tail>> :
        line \in MCBranches \cup MCSpecials,
        tail \in {Branch(0), Literal(W(2), 4), Nop, Garbage}}

-----------------------------------------------------------------------------
MCSeeds ==
    {Assembled(l, 0) :
        l \in {TwoOp("subs", X(1), X(2), Imm(4095), Shift("lsl", 12)),
               SingleOp("movz", W(1), Imm(5), Shift("lsl", 16)),
               TwoOp("add", X(1), X(2), X(3), Shift("asr", 5)),
               TwoOp("bic", W(1), W(2), W(3), Shift("ror", 5)),
               Multiply("msub", X(1), X(2), X(3), X(4)),
               Transfer("ldr", X(1), "unsigned", X(2), Imm(16)),
               Transfer("str", W(1), "pre", X(2), Imm(-5)),
               Transfer("ldr", X(1), "register", X(2), X(3)),
               Literal(X(1), 8), Branch(8), BranchReg(X(3)),
               BranchCond("le", -8), Nop}}
        \cup {HALT_INSTRUCTION, {}, 0 .. 31}

\* The words that differ from one in one or two bits.
Near(w) ==
    {(w \ {i, j}) \cup ({i, j} \ w) : i \in 0 .. 31, j \in 0 .. 31}

MCTail == Assembled(BranchCond("al", 16), 4)

\* Short words at the end of a file that may be incomplete, and a file that
\* fills the memory with one that is larger.
MCShort == {{}, {0}, {9}, {9, 17}, {1, 25}}
MCLong == [k \in 1 .. 3 |-> NOP_INSTRUCTION]

MCBinaries ==
    {<<w, MCTail>> :
        w \in MCSeeds \cup UNION {Near(seed) : seed \in MCSeeds}} \cup
    {<<>>} \cup {<<NOP_INSTRUCTION, w>> : w \in MCShort} \cup
    {MCLong} \cup {Append(MCLong, w) : w \in MCShort}
=============================================================================
