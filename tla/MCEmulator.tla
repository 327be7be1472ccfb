----------------------------- MODULE MCEmulator -----------------------------
(***************************************************************************)
(* Small instances of the emulator.  A byte has one bit, so a word has 16  *)
(* values and an X register 256: a decode table gives each of the 16 words *)
(* a meaning, and the binaries are all programs of a few words, memory     *)
(* after them being zero.                                                  *)
(***************************************************************************)
EXTENDS Emulator

\* The bytes of a program, a sequence of words.
BytesOf(words) ==
    [k \in 1 .. 4 * Len(words) |->
        ByteOf(words[(k - 1) \div 4 + 1], (k - 1) % 4)]

Programs(n) == {BytesOf(words) : words \in [1 .. n -> 0 .. WMod - 1]}

\* A file that ends within a word and one longer than memory.
OddFiles ==
    {SubSeq(BytesOf(<<1, 1>>), 1, 7),
     BytesOf([n \in 1 .. MEMORY_CAPACITY \div 4 + 1 |-> 2])}

MCImages3 == Programs(3) \cup OddFiles

\* Any two words of ProgramDecode, then nothing, HALT, a store or a branch.
MCPrograms ==
    {BytesOf(<<v, w, last>>) : v, w \in 0 .. WMod - 1, last \in {0, 1, 9, 13}}
        \cup OddFiles

ConstantTail(b) == [a \in MEMORY_CAPACITY .. MEMORY_CAPACITY + 6 |-> b]
MCTails == {ConstantTail(0), ConstantTail(1)}

Plain(name) == [op |-> name]
Imm(sf, opc, rd, rn, imm) ==
    [op |-> "arith_imm", sf |-> sf, opc |-> opc, rd |-> rd, rn |-> rn,
     imm |-> imm]
Wide(sf, opc, rd, hw, imm) ==
    [op |-> "wide_move", sf |-> sf, opc |-> opc, rd |-> rd, hw |-> hw,
     imm |-> imm]
Arith(sf, opc, shift, amount, rd, rn, rm) ==
    [op |-> "arith_reg", sf |-> sf, opc |-> opc, shift |-> shift, rm |-> rm,
     amount |-> amount, rn |-> rn, rd |-> rd]
Logic(sf, opc, n, shift, amount, rd, rn, rm) ==
    [op |-> "logic_reg", sf |-> sf, opc |-> opc, shift |-> shift, n |-> n,
     rm |-> rm, amount |-> amount, rn |-> rn, rd |-> rd]
Multiply(sf, x, rd, rn, rm, ra) ==
    [op |-> "multiply_reg", sf |-> sf, x |-> x, rm |-> rm, ra |-> ra,
     rn |-> rn, rd |-> rd]
Uimm(sf, l, rt, xn, offset) ==
    [op |-> "sdt_uimm", sf |-> sf, l |-> l, xn |-> xn, rt |-> rt,
     offset |-> offset]
RegOffset(sf, l, rt, xn, xm) ==
    [op |-> "sdt_regoffset", sf |-> sf, l |-> l, xn |-> xn, rt |-> rt,
     xm |-> xm]
Index(name, sf, l, rt, xn, simm9) ==
    [op |-> name, sf |-> sf, l |-> l, xn |-> xn, rt |-> rt, simm9 |-> simm9]
Literal(sf, rt, simm19) ==
    [op |-> "load_literal", sf |-> sf, rt |-> rt, simm19 |-> simm19]
B(simm26) == [op |-> "b", simm26 |-> simm26]
Br(rn) == [op |-> "br", rn |-> rn]
BCond(cond, simm19) == [op |-> "b_cond", simm19 |-> simm19, cond |-> cond]

Table(entries) == [w \in 0 .. WMod - 1 |-> entries[w + 1]]

\* 32-bit instructions only, and no br.
NarrowDecode == Table(<<
    Plain("unallocated"),
    Plain("halt"),
    Imm(SF32, SUBS_OPC, 0, 0, 3),
    Imm(SF32, ADDS_OPC, 1, 0, 15),
    Wide(SF32, MOVN_OPC, 0, 0, 1),
    Wide(SF32, MOVK_OPC, 1, 1, 2),
    Arith(SF32, SUB_OPC, ASR_VALUE, 1, 0, 1, 0),
    Arith(SF32, ADD_OPC, LSL_VALUE, 3, 1, 0, 1),
    Logic(SF32, ORR_OPC, 1, LSR_VALUE, 1, 1, ZR_REG, 0),
    Logic(SF32, ANDS_OPC, 0, ROR_VALUE, 1, 0, 0, 1),
    Multiply(SF32, MSUB_X, 0, 0, 1, ZR_REG),
    Index("sdt_preind", SF32, STORE_L, 1, 0, -1),
    Index("sdt_postind", SF32, LOAD_L, 1, 0, 4),
    Literal(SF32, 0, -1),
    BCond(COND_NE, -1),
    B(2)>>)

\* Transfers of both sizes, with every addressing mode in one of them, every
\* branch, and the words that do not execute, the shift that the emulator
\* refuses among them.
ProgramDecode == Table(<<
    Plain("unallocated"),
    Plain("halt"),
    Plain("unhandled"),
    Wide(SF64, MOVZ_OPC, 0, 1, 2),
    Imm(SF64, ADDS_OPC, 1, 0, 130),
    Arith(SF32, SUBS_OPC, ROR_VALUE, 1, ZR_REG, 0, 1),
    Uimm(SF64, STORE_L, 0, ZR_REG, 1),
    RegOffset(SF32, STORE_L, 1, 1, ZR_REG),
    Index("sdt_preind", SF64, LOAD_L, 0, 0, -8),
    Index("sdt_postind", SF64, STORE_L, 1, 1, 4),
    Index("sdt_preind", SF64, STORE_L, 1, 1, -1),
    Literal(SF64, 1, 1),
    BCond(COND_LT, -1),
    B(-1),
    Br(1),
    Br(ZR_REG)>>)
=============================================================================
