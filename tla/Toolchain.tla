----------------------------- MODULE Toolchain -----------------------------
(***************************************************************************)
(* The three programs on one instruction set: a source is assembled at a   *)
(* base address, the emulator decodes the binary, the disassembler prints  *)
(* it from address 0, and the text is assembled again, as run_test.py      *)
(* does.  A run may also begin with any binary.  One action per line or    *)
(* word; lines with labels and the two passes are in Assembler.            *)
(***************************************************************************)
EXTENDS Encoder, Sequences, Functions

CONSTANTS
    Sources,    \* the sources considered, sequences of lines
    Binaries,   \* the binaries that come from elsewhere, sequences of words
    Bases,      \* the addresses a source is assembled at, multiples of 4
    ByteBits,   \* the emulator's, with ByteMod = 2^ByteBits
    ByteMod,
    Regs,
    MEMORY_CAPACITY \* of the emulator and of the disassembler

Emulated == INSTANCE Decoder
Printer == INSTANCE Disassembler

Decode(w) == Emulated!Decode(w)

ASSUME CapacityAssumption == MEMORY_CAPACITY \in Nat /\ MEMORY_CAPACITY % 4 = 0

\* A sequence of lines.
IsText(lines) ==
    lines \in Seq(Range(lines)) /\ \A line \in Range(lines) : IsLine(line)

ASSUME SourcesAssumption == \A s \in Sources : IsText(s)
ASSUME BinariesAssumption == Binaries \subseteq Seq(Word)
ASSUME BasesAssumption == \A b \in Bases : b \in Nat /\ b % 4 = 0

\* An address has room for the largest offset of a w register and its double
\* to differ: there are more than 2^14 of them, 2^64 in the code.
ASSUME WidthAssumption == ByteMod \in Nat /\ 4 <= ByteMod

VARIABLES
    source, base,   \* what the assembler is given
    phase,          \* the program running, or how the run ended
    binary,         \* the words assembled, or given
    file_size,      \* the bytes of the binary the disassembler opens
    pc,             \* the words of it disassembled so far
    text,           \* the lines printed
    again           \* the words assembled from the text

vars == <<source, base, phase, binary, file_size, pc, text, again>>

\* How the three programs end without their output.
Failed == {"refused", "unopened", "exited", "rejected"}

\* The sizes a file may have of which the memory, zero before it is loaded,
\* holds these words: the last one may be incomplete.
SizesOf(words) ==
    LET last == Len(words) - 1
    IN  IF words = <<>>
        THEN {0}
        ELSE {4 * last + n :
                n \in {k \in 1 .. 4 :
                        words[Len(words)] \subseteq 0 .. 8 * k - 1}}

TypeOK ==
    /\ phase \in {"assembling", "opening", "disassembling", "reassembling",
                  "done"} \cup Failed
    /\ binary \in Seq(Word) /\ again \in Seq(Word)
    /\ phase \in {"assembling", "refused"} \/ file_size \in SizesOf(binary)
    /\ pc \in 0 .. Len(binary)
    /\ Len(text) <= pc /\ Len(again) <= Len(text)

Init ==
    /\ \/ /\ source \in Sources /\ base \in Bases
          /\ phase = "assembling" /\ binary = <<>> /\ file_size = 0
       \/ /\ source = <<>> /\ base = 0
          /\ phase = "opening"
          /\ binary \in Binaries /\ file_size \in SizesOf(binary)
    /\ pc = 0 /\ text = <<>> /\ again = <<>>

End(how) ==
    /\ phase' = how
    /\ UNCHANGED <<source, base, binary, file_size, pc, text, again>>

-----------------------------------------------------------------------------
\* The address of the next word written.
Here(words) == 4 * Len(words)

Assemble ==
    /\ phase = "assembling" /\ Len(binary) < Len(source)
    /\ LET line == source[Len(binary) + 1]
       IN  /\ Accepted(line)
           /\ binary' = Append(binary, Assembled(line, base + Here(binary)))
    /\ UNCHANGED <<source, base, phase, file_size, pc, text, again>>

Refuse ==
    /\ phase = "assembling" /\ Len(binary) < Len(source)
    /\ ~Accepted(source[Len(binary) + 1])
    /\ End("refused")

StartDisassembler ==
    /\ phase = "assembling" /\ Len(binary) = Len(source)
    /\ phase' = "opening" /\ file_size' = 4 * Len(binary)
    /\ UNCHANGED <<source, base, binary, pc, text, again>>

\* The output is opened, the binary is opened and measured and as much of it
\* loaded as the memory holds; any of it may fail.
Open ==
    /\ phase = "opening"
    /\ \E how \in {"disassembling", "unopened"} : End(how)

\* The loop goes on while the PC is below the size of the file, whether or
\* not the memory holds it.
MoreToPrint == phase = "disassembling" /\ 4 * pc < file_size
Beyond == 4 * pc >= MEMORY_CAPACITY

\* A fault of disassemble_cycle: the PC advances by two words.
DisassembleEveryOther ==
    /\ MoreToPrint /\ ~Beyond /\ ~Printer!Unprintable(binary[pc + 1])
    /\ \E lines \in Printer!disassemble_cycle(binary[pc + 1], 4 * pc) :
          text' = text \o lines
    /\ pc' = pc + 2
    /\ UNCHANGED <<source, base, phase, binary, file_size, again>>

Disassemble ==
    /\ MoreToPrint /\ ~Beyond /\ ~Printer!Unprintable(binary[pc + 1])
    /\ \E lines \in Printer!disassemble_cycle(binary[pc + 1], 4 * pc) :
          text' = text \o lines
    /\ pc' = pc + 1
    /\ UNCHANGED <<source, base, phase, binary, file_size, again>>

\* At a word it cannot print, or beyond the memory.
DisassemblerExits ==
    /\ MoreToPrint
    /\ Beyond \/ Printer!Unprintable(binary[pc + 1])
    /\ End("exited")

StartReassembly ==
    /\ phase = "disassembling" /\ ~MoreToPrint
    /\ End("reassembling")

\* Without a base address, as in run_test.py.
Reassemble ==
    /\ phase = "reassembling" /\ Len(again) < Len(text)
    /\ LET line == text[Len(again) + 1]
       IN  /\ Accepted(line)
           /\ again' = Append(again, Assembled(line, Here(again)))
    /\ UNCHANGED <<source, base, phase, binary, file_size, pc, text>>

Reject ==
    /\ phase = "reassembling" /\ Len(again) < Len(text)
    /\ ~Accepted(text[Len(again) + 1])
    /\ End("rejected")

Finish ==
    /\ phase = "reassembling" /\ Len(again) = Len(text)
    /\ End("done")

Terminated == phase \in Failed \cup {"done"} /\ UNCHANGED vars

Next ==
    \/ Assemble \/ Refuse \/ StartDisassembler \/ Open
    \/ Disassemble \/ DisassemblerExits \/ StartReassembly
    \/ Reassemble \/ Reject \/ Finish \/ Terminated

Spec == Init /\ [][Next]_vars

-----------------------------------------------------------------------------
(* What a line says, in the terms of the emulator.                         *)

Transfers == INSTANCE DataTransfer

Zero(r) == [sf |-> r.sf, n |-> ZR_REG]

\* An alias by the instruction it stands for.
aliases == [mov |-> "orr", mvn |-> "orn", neg |-> "sub", negs |-> "subs",
            cmp |-> "subs", cmn |-> "adds", tst |-> "ands",
            mul |-> "madd", mneg |-> "msub"]

Unaliased(l) ==
    CASE l.form = "no_dest" ->
            TwoOp(aliases[l.opcode], Zero(l.rn), l.rn, l.operand, l.shift)
      [] l.form = "product" ->
            Multiply(aliases[l.opcode], l.rd, l.rn, l.rm, Zero(l.rd))
      [] l.form = "single_op" /\ l.opcode \in DOMAIN aliases ->
            TwoOp(aliases[l.opcode], l.rd, Zero(l.rd), l.operand, l.shift)
      [] OTHER -> l

Amount(shift) == IF shift = NoShift THEN 0 ELSE shift.amount
ShiftKind(shift) == IF shift = NoShift THEN 0 ELSE shift_value[shift.type]

\* The decoded instruction a data-processing line says.
Said(l) ==
    CASE l.form = "two_op" /\ is_immediate(l.operand) ->
            [op |-> "arith_imm", sf |-> l.rd.sf,
             opc |-> arithmetic_opc[l.opcode], rd |-> l.rd.n, rn |-> l.rn.n,
             imm |-> l.operand.imm * 2^Amount(l.shift)]
      [] /\ l.form = "two_op" /\ ~is_immediate(l.operand)
         /\ l.opcode \in arithmetic_opcodes ->
            [op |-> "arith_reg", sf |-> l.rd.sf,
             opc |-> arithmetic_opc[l.opcode], shift |-> ShiftKind(l.shift),
             rm |-> l.operand.n, amount |-> Amount(l.shift),
             rn |-> l.rn.n, rd |-> l.rd.n]
      [] /\ l.form = "two_op" /\ ~is_immediate(l.operand)
         /\ l.opcode \in bit_logic_opcodes ->
            [op |-> "logic_reg", sf |-> l.rd.sf,
             opc |-> bit_logic_opc[l.opcode], shift |-> ShiftKind(l.shift),
             n |-> bit_logic_N[l.opcode], rm |-> l.operand.n,
             amount |-> Amount(l.shift), rn |-> l.rn.n, rd |-> l.rd.n]
      [] l.form = "single_op" ->
            [op |-> "wide_move", sf |-> l.rd.sf,
             opc |-> wide_move_opc[l.opcode], rd |-> l.rd.n,
             hw |-> Amount(l.shift) \div 16, imm |-> l.operand.imm]
      [] l.form = "multiply" ->
            [op |-> "multiply_reg", sf |-> l.rd.sf,
             x |-> multiply_x[l.opcode], rm |-> l.rm.n, ra |-> l.ra.n,
             rn |-> l.rn.n, rd |-> l.rd.n]

\* and x0, x0, x0 is the halt instruction.
Meaning(l) ==
    IF Said(l) = Emulated!DecodeBitLogic(HALT_INSTRUCTION)
    THEN [op |-> "halt"]
    ELSE Said(l)

\* The registers a line names, and whether those of data processing have one
\* width.
NamedBy(l) ==
    CASE l.form = "two_op"    -> {l.rd, l.rn, l.operand}
      [] l.form = "single_op" -> {l.rd, l.operand}
      [] l.form = "no_dest"   -> {l.rn, l.operand}
      [] l.form = "multiply"  -> {l.rd, l.rn, l.rm, l.ra}
      [] l.form = "product"   -> {l.rd, l.rn, l.rm}
      [] l.form = "transfer"  -> {l.rt, l.xn, l.offset}
      [] l.form = "literal"   -> {l.rt}
      [] l.form = "br"        -> {l.xn}
      [] l.form \in {"b", "b.", "nop", ".int"} -> {}
Registers(l) == {r \in NamedBy(l) : ~is_immediate(r)}
OneWidth(l) ==
    l.form # "transfer" =>
        \A r, s \in Registers(l) : r.sf = s.sf

\* mul rd, #n, rm, which no instruction is.
ImmediateFactor(l) == l.form = "product" /\ is_immediate(l.rn)

Between(n, low, high) == low <= n /\ n <= high

\* A shift by as many bits as no register has.
Overshifted(l) ==
    /\ l.form \in {"two_op", "single_op", "no_dest"}
    /\ ~Between(Amount(l.shift), 0, 63)

\* A state of the emulator in which registers tell themselves apart.
SampleCpu ==
    [R |-> [n \in 0 .. 30 |-> 4096 + ((2^n) % 509)], PC |-> 0,
     PSTATE |-> [N |-> FALSE, Z |-> FALSE, C |-> FALSE, V |-> FALSE]]

\* The transfer the emulator makes of a word goes to the address written.
TransfersAsWritten(w, l) ==
    LET i == Decode(w)
        ops == [unsigned |-> "sdt_uimm", register |-> "sdt_regoffset",
                pre |-> "sdt_preind", post |-> "sdt_postind"]
        value(r) == Transfers!get_register_value(SampleCpu, r.n, SF64)
        address ==
            CASE l.mode \in {"unsigned", "pre"} -> value(l.xn) + l.offset.imm
              [] l.mode = "post" -> value(l.xn)
              [] l.mode = "register" -> value(l.xn) + value(l.offset)
    IN  /\ l.mode # "other" /\ i.op = ops[l.mode]
        /\ i.sf = l.rt.sf /\ i.rt = l.rt.n /\ (i.l = 1) = (l.opcode = "ldr")
        /\ i.xn = l.xn.n
        /\ l.mode = "register" => i.xm = l.offset.n
        /\ l.mode \in {"pre", "post"} => i.simm9 = l.offset.imm
        /\ Transfers!TransferAddress(SampleCpu, i) = address % Transfers!XMod

\* The emulator does with a word at an address what the line says.
AsWritten(w, l, here) ==
    LET i == Decode(w)
    IN  CASE l.form \in {"two_op", "no_dest", "single_op", "multiply",
                         "product"} ->
                /\ ~ImmediateFactor(l) /\ OneWidth(l) /\ ~Overshifted(l)
                /\ i = Meaning(Unaliased(l))
          [] l.form = "transfer" -> TransfersAsWritten(w, l)
          [] l.form = "literal" ->
                /\ i.op = "load_literal" /\ here + i.simm19 * 4 = l.address
                /\ i.sf = l.rt.sf /\ i.rt = l.rt.n
          [] l.form = "b" -> i.op = "b" /\ here + i.simm26 * 4 = l.target
          [] l.form = "b." ->
                /\ i.op = "b_cond" /\ here + i.simm19 * 4 = l.target
                /\ i.cond = cond_value[l.cond]
          [] l.form = "br" -> i = [op |-> "br", rn |-> l.xn.n]
          [] l.form = "nop" -> i.op = "nop"
          [] l.form = ".int" -> w = l.word

-----------------------------------------------------------------------------
(* The lines that are accepted and yet assembled to something else.        *)

\* A value that the field cuts.
Cut(l) ==
    /\ l.form \in {"two_op", "single_op", "no_dest"}
    /\ is_immediate(l.operand)
    /\ ~Between(l.operand.imm, 0,
                IF l.opcode \in wide_move_opcodes THEN 65535 ELSE 4095)

\* A target no field of that many bits, counted in words, reaches.
OutOfReach(target, here, bits) ==
    \/ (target - here) % 4 # 0
    \/ ~Between(target - here, -2^(bits + 1), 2^(bits + 1) - 4)

\* ror on an arithmetic instruction, which the emulator refuses.
RotatedArithmetic(l) ==
    /\ l.form \in {"two_op", "no_dest"} /\ ~is_immediate(l.operand)
    /\ Unaliased(l).opcode \in arithmetic_opcodes
    /\ l.shift.type = "ror"

\* A w register with an offset, scaled by four where the others scale by
\* eight.
ScaledByFour(l) ==
    /\ l.form = "transfer" /\ l.mode = "unsigned"
    /\ l.rt.sf = SF32 /\ l.offset.imm # 0

Deviates(l, here) ==
    \/ \E r \in Registers(l) : r.n > 31
    \/ ~OneWidth(l)
    \/ Cut(l)
    \/ Overshifted(l)
    \/ RotatedArithmetic(l)
    \/ ImmediateFactor(l)
    \/ ScaledByFour(l)
    \/ l.form = "transfer" /\ l.mode = "other"
    \/ l.form = "single_op" /\ l.opcode \in {"neg", "negs"}
          /\ is_immediate(l.operand)
    \/ l.form = "literal" /\ OutOfReach(l.address, here, 19)
    \/ l.form = "b" /\ OutOfReach(l.target, here, 26)
    \/ l.form = "b." /\ OutOfReach(l.target, here, 19)

\* Every line the assembler accepts (build_memory) becomes a word of which
\* the emulator (emulate_cycle) does what the line says, unless it is one of
\* the deviations above; and each of those does something else.
ExactlyTheseDeviate ==
    phase = "assembling" =>
        \A k \in 1 .. Len(binary) :
            LET here == base + 4 * (k - 1)
            IN  AsWritten(binary[k], source[k], here)
                    <=> ~Deviates(source[k], here)

-----------------------------------------------------------------------------
(* Assembling again.                                                       *)

\* A transfer the disassembler prints with twice its offset.
Doubled(w) == LET i == Decode(w)
              IN  i.op = "sdt_uimm" /\ i.sf = SF32 /\ i.offset # 0

\* The words that do not come back: nothing is printed, twice the offset is,
\* or whatever the uninitialised buffer holds.
LostWord(w) ==
    LET i == Decode(w)
    IN  \/ i.op = "unhandled" \/ Doubled(w)
        \/ i.op = "wide_move" /\ i.opc = 1

\* A source without .int directives comes back as the binary it was
\* assembled to, bit for bit, whatever the base address: the disassembler
\* prints the aliases by the instructions they stand for, and run_test.py
\* compares the files.  Only a scaled w offset does not.
ReassemblesToItself ==
    /\ phase = "done" /\ source # <<>>
    /\ \A k \in DOMAIN source : source[k].form # ".int"
    => ((again = binary) <=> ~ \E k \in DOMAIN binary : Doubled(binary[k]))

\* Any binary, the words of no known encoding and those with bits the
\* decoders ignore included, is assembled again to as many words, each of
\* which the emulator decodes as it does the original, when no word is lost.
RoundTrip ==
    phase = "done" /\ (\A k \in DOMAIN binary : ~LostWord(binary[k])) =>
        /\ Len(again) = Len(binary)
        /\ \A k \in DOMAIN binary : Decode(again[k]) = Decode(binary[k])

\* The word at an address jumps below address 0: it is printed as an unsigned
\* number strtoll does not read.
JumpsBelowZero(w, here) ==
    LET i == Decode(w)
    IN  \/ i.op = "b" /\ here + i.simm26 * 4 < 0
        \/ i.op = "b_cond" /\ here + i.simm19 * 4 < 0

\* The words of which the text is refused.
Unreadable(w, here) ==
    \/ Doubled(w) /\ Decode(w).offset > 2047
    \/ JumpsBelowZero(w, here)

\* The assembler refuses no text of the disassembler but that of an
\* unreadable word or of an uninitialised buffer, and it refuses every
\* unreadable one: the two programs agree on the syntax.
OnlyTheseRejected ==
    LET unreadable ==
            \E k \in DOMAIN binary : Unreadable(binary[k], 4 * (k - 1))
        garbage ==
            \E k \in DOMAIN binary :
                Decode(binary[k]).op = "wide_move" /\ Decode(binary[k]).opc = 1
    IN  /\ phase = "rejected" => unreadable \/ garbage
        /\ phase = "done" => ~unreadable

\* The disassembler exits at the words at which the emulator stops with an
\* illegal instruction, and at branches on a condition neither names, where
\* the emulator goes on; it prints no other (disassemble_cycle against
\* emulate_cycle).  A file larger than the memory, of which load_bin_to_memory
\* says that it is truncated, it never gets through either.
ExitsWhereEmulatorDoes ==
    LET fatal(w) ==
            \/ Decode(w).op = "illegal"
            \/ Decode(w).op = "b_cond"
                  /\ \A cond \in DOMAIN cond_value :
                        cond_value[cond] # Decode(w).cond
    IN  /\ phase = "exited" =>
                \/ 4 * pc = MEMORY_CAPACITY /\ file_size > MEMORY_CAPACITY
                \/ fatal(binary[pc + 1])
        /\ phase \in {"reassembling", "done"} => file_size <= MEMORY_CAPACITY
        /\ \A k \in 1 .. pc : ~fatal(binary[k])

-----------------------------------------------------------------------------
(* What the code says of itself.                                           *)

\* assemble_dt.c:266: the offset of a w register is a multiple of four, and
\* that is what it stands for (led.s uses it so): an accepted transfer goes
\* to the address written, in the emulator too.
OffsetAsWritten ==
    phase = "assembling" =>
        \A k \in 1 .. Len(binary) :
            source[k].form = "transfer" /\ source[k].mode = "unsigned" =>
                TransfersAsWritten(binary[k], source[k])
=============================================================================
