# A formal model of the ARMv8 emulator and assembler

TLA+ specifications of the programs under `src/`: an emulator of a subset of
AArch64, an assembler for it with its symbol table, a disassembler, and a
program that blinks a Raspberry Pi's LED through the GPU's mailboxes. The
specifications are written from the C code; TLC checks them on small instances
and TLAPS proves theorems about them for every value of the constants.

## 1. The system

| part | source | state it keeps | operations |
|---|---|---|---|
| processor state | `emulate.c/.h` | `state_t`: 31 registers, PC, flags N Z C V | `setup`, `get_register_value`, `set_register_value`, `set_NZ_flags` |
| data processing | `dp_imm.c`, `dp_reg.c` | none of its own | add, sub (with flags), wide moves, shifts, logic, multiply |
| memory and transfer | `emulate.c`, `data_trans.c` | `main_memory`, 2 MiB | `fetch_word`, `write_word`, five addressing modes |
| branches | `branch.c` | none of its own | `b`, `br`, `b.cond` |
| emulator program | `emulate.c` | where `main` is, what was printed | load, cycle until HALT, dump |
| symbol table | `symbol_table.c/.h` | buckets of entries, a count | create, find, set, free |
| assembler | `assemble.c`, `assemble_*.c`, `utils.c` | `assembler_state_t`, the buffer | two passes over the lines, write the file |
| disassembler | `disassembler/*.c` | the PC | print one line per word |
| LED program | `rpi/led.s` | registers, a message buffer | toggle, send, poll, read, wait |
| tests | `test.c`, `disassembler/test/run_test.py` | - | assertions on the table and registers; round trips |

How they interact. Every program is sequential. In the emulator the cycle
fetches a word from `main_memory` at the PC, selects an opcode group, and calls
one execute function, which reads and writes `state_t` through the register
helpers and, for transfers, `main_memory`; code and data share the memory, so
a store can change the instructions to come. The flags connect instructions far
apart: a comparison writes them, a conditional branch reads them. In the
assembler the first pass feeds the symbol table and counts bytes, and the
second pass relies on both; the link between the passes is the state
`assembler_state_t`. The assembler's output is the emulator's and the
disassembler's input, and the disassembler's text is the assembler's again; the
three agree on the instruction set only through masks and offsets that each
repeats in headers of its own. The LED program is the only part with a concurrent partner, the GPU.

What is hard here is therefore not threads but: widths (32-bit operations
computed in 64 bits), boundaries (of memory, of offset fields, of signed
numbers), the order of reads and writes within an instruction, state that two
passes or two distant instructions must agree on, hash collisions, programs
that never end, every early `exit`, and three programs that must read and write
the same bits. `PROJECT.json` lists these hazards
with the line where each bites and the properties that cover it.

## 2. The modules

```
CpuState <- DataProcessing --+-- Emulator   <- MCEmulator     (TLC)
         <- DataTransfer ----+              <- EmulatorTheorems
         <- Branch ----------+-- Comparison <- MCComparison
                                            <- ComparisonTheorems
            DataProcessing <- CpuTheorems <- EmulatorTheorems, ComparisonTheorems
SymbolTable <- SymbolTableFacts (lemmas, for both proofs below)
            <- SymbolTableUse <- MCSymbolTable, SymbolTableTheorems
                   | refines SymbolMap
SourceLines, SymbolTable <- Assembler <- SourceFile <- MCAssembler
                                |                   <- AssemblerTheorems
                                | refines Assembly
InstructionWord <- InstructionText <- Encoder ------+
                                   <- Disassembler -+- Toolchain <- MCToolchain
                <- Decoder -------------------------+            <- ToolchainTheorems
                         DataTransfer (instance) ---+
Mailbox <- MCMailbox, MailboxTheorems
```

**CpuState.** `State` is `state_t` (its SP is never used). A C integer is a
natural number below a modulus. The code has bytes of 8 bits; here a byte has
`ByteBits` bits, and a W register is still four bytes and an X register eight,
so 4 and 8, the distances between addresses, are those of the code whatever
the scale. The operators have the names of the C functions.

**DataProcessing, DataTransfer, Branch.** One operator per C function, from a
state to the state it leaves. Details that matter are kept: `adds_imm` and
`subs_imm` compute V from an untruncated operand; a logical instruction has the
flags cleared of C and V; the unsigned offset is scaled by 8 in both sizes;
pre-index writes the base back before the access and post-index after it;
`b.ge` and `b.lt` look at N alone; `br` with register number 31 reads what
follows `R[30]` in `state_t`, the PC. Two kinds of undefined behaviour are
outcomes of the model: a shift by an amount out of range does what the shift
instruction the macro compiles to does (the amount is taken modulo 64), and an
access beyond the end of `main_memory` either kills the process or reads and
writes the bytes after the array.

**Emulator.** The program: `cpu_state`, `main_memory`, `status`, `output`. One
action per way a cycle can go, plus loading, dumping and the exits.
`Decode`, a constant, is any function from 32-bit words to decoded
instructions, so that the model does not depend on bit positions; words the
emulator does not execute are `halt`, `nop`, `illegal` (an execute function
exits), `unhandled` (of a group, but no function takes it: PC + 4) and
`unallocated` (of no group: the cycle returns true and changes nothing).

**Comparison.** The flag semantics on its own, with a history variable for the
operands of the last flag-setting instruction: `subs` and `adds` with a
shifted second operand, any number of instructions that keep the flags, and
what `Jumps` of `branch.c` decides.

**SymbolTable, SymbolTableUse, SymbolMap.** The hash map of the assembler;
the sequences of calls on it; the map it should be. The hash is computed as in
the code, over sequences of character codes.

**SourceLines, Assembler, Assembly.** A source is a sequence of lines as the
assembler tells them apart; an instruction without a label operand carries the
word it assembles to, since that does not depend on the rest of the source.
`Assembler` reads one line per action, twice; a buffer not yet written holds
`Unwritten`, as after `malloc`. An `invalid` line is one that ends the program
in the second pass, with a message or, where `strtok` answered NULL, without.
`Assembly` is the translation in one step, without passes or table.

**SourceFile.** The assembler of a file: characters are their codes, and
`read_file`, `preprocess_line`, `strip_line`, `is_symbol` and the target of a
branch are computed as in the code. The file is split as `fgets` does, with a
buffer of `MAX_LINE_LENGTH`. What the other instructions of a file are is a
constant, `Operations`: their encoding is the subject of `Encoder`.

**InstructionWord, InstructionText.** A 32-bit word is the set of its one bits;
`SetBits`, `SelectBits`, `CheckBits` and `SignExt` are the macros of `utils.h`,
and a field is an offset and a size. `SetBits` cuts the value and never clears
a bit, as the macro does. A line of text is a record with the tokens `strtok`
finds. Each of the three programs has headers of its own; so has each of the
modules below, which states the masks, offsets and sizes of that program's.

**Encoder, Decoder, Disassembler.** `Accepted` and `Assembled` say for every kind
of line when the assembler takes it and what word it writes (`assemble_dp.c`,
`assemble_dt.c`, `assemble_branch.c`, `get_register`). `Decode` is the selection
of group and fields by `emulate_cycle` and the execute functions, into the
instructions `Emulator` executes. `disassemble_cycle` gives the lines printed for
a word, none included; when it copies no opcode into `op_str`, any of the outcomes
the uninitialised buffer allows.

**Toolchain.** The programs one after another as in `run_test.py`: assemble a
source at a base address (or begin with any binary), open and measure it,
disassemble it from address 0, assemble the text without a base address. One
action per line or word, one per way to fail. A binary may end within a word, and
may be larger than `MEMORY_CAPACITY`, in which case the disassembler has loaded
less than it goes on to print. Lines here have numeric targets; labels are in `Assembler`. What a
line *says* is stated apart from the encoder (`Said`, `TransfersAsWritten`,
`AsWritten`), in the terms of the emulator: a transfer is as written when
`TransferAddress` of `DataTransfer` is the address written.

**Mailbox.** The LED program, one action per labelled step of `rpi/led.s`, beside
the GPU, which is external: `pc` is the label, `w3` the status loaded, `copied`
and `waited` the counters of the two loops, `template` and `led_buffer` the
memory, `write_box` and `read_box` the mailboxes as counts of messages. The copy
to the buffer and the GPU's reading of it go double-word by double-word, so they
may interleave. A status is loaded by one step and tested by another. Both polls
load the register at offset 0x38 (`x2`), as the code does. The only
synchronisation besides is time, so time is in the model: the GPU takes a message no
sooner than `soonest` steps of the program after it was posted, and has answered
within `latest` steps; both are chosen at the start, among `Timings`.

Actions named for C functions are those functions. Each operator that starts
with the comment "A fault of ..." is not part of the model: it is a mutation
of the definition after it, under which a property fails.

## 3. What TLC checks

Bounds are in the `.cfg` files and the `MC*` modules.

| run | question | instance |
|---|---|---|
| `narrow` | widths, fetches, the dump | all programs of three words over a table of sixteen 32-bit instructions, 16 bytes of memory, two registers |
| `programs` | what a store changes, and whether the emulator ends | all programs of up to three words over transfers of both sizes, with every addressing mode in one of them, every branch and the words that do not execute |
| `out_of_bounds` | *violation* | the programs of `programs` |
| `comparison` | flags, order, shifts | 25 values per register around every boundary of 4 and 8 bits, every shift, both sizes, adds and subs |
| `table_any` | is the table a map, and for which keys | six keys: two pairs that collide, one of them a key and its prefix, and two keys with buckets of their own that have others for prefixes |
| `table_collision`, `table_prefix` | *violations* | two or three of these keys |
| `assembler` | from a file to its translation | every file of up to four plain lines out of ten, or of up to three and a last line that breaks off; of two lines out of twenty written in other ways (comments, tabs, capitals, misplaced colons, one that just fits the buffer and one that does not); of four characters out of nine; two base addresses, one of which makes addresses wrap |
| `toolchain` | do the three programs agree | 2,481 lines of every opcode with operands at the limits of their fields, alone, and branches before a line whose word depends on its address or that is refused, at two base addresses; 8,440 words, those of every encoding with up to two bits flipped, before a branch; files that end within a word, or are as large as the memory or larger |
| `word_offset` | *violation* | the lines of `toolchain` |
| `mailbox` | does the LED blink | a wait of four rounds, mailboxes of three messages, a GPU that takes a message at once or after 1, 2 or 4 steps and has answered after 1, 3, 7, 8 or 60 |
| `flashes` | *violation* | that of `mailbox` |

*Scale.* With one-bit bytes a W register has 4 bits and an X register 8. Every
boundary the code compares with (sign bits, carries, the cut to 32 bits, the
end of memory, the sizes of accesses) exists at that scale, and all sixteen
words are meaningful instructions. Memory is 16 bytes, so three-word programs
run into its end, overwrite themselves and reach the bytes after it. What
depends on the real widths only is left to the proofs, which are for all
`ByteBits`. In the assembler run offset fields have two and three bits and
addresses six, so that branches over a few lines already exceed a field and the
base address 58 makes later addresses wrap. The line buffer has 12 characters, one
more than the longest plain line needs; no file declares two symbols that collide.
In the mailbox run seven steps lie between a message and the next toggle
(`WaitLoops + 3`), so 7 is the slowest GPU the wait outlasts, 8 the first it does
not, and 60 spans several rounds of the program, enough to fill a mailbox of three
messages; three, so that a mailbox with the two replies that may be unread is not full.

*Properties.* Beside one type invariant per component:

- `NarrowRegisters`: with 32-bit instructions only, no register ever exceeds
  32 bits, although shifts, products and negated immediates are computed in 64.
- `FetchesInMemory`: without `br` the PC stays aligned, so the bound check on
  the first byte of a fetch suffices. (With `br`, and for data, it does not:
  `out_of_bounds`.)
- `DumpIsFinalState`: what is printed determines the registers and the whole
  memory of the state at HALT, and is printed only then.
- `StoresAreExact`: a store writes its bytes and no others, from the register
  as it was before a write back; nothing else changes memory.
- `ShiftsAreBitwise`: each shift moves every bit where it should, and fills as it
  should, in both sizes, by every amount the field can hold but for a rotation by an
  undefined amount.
- `EndsOrLoops`: an execution ends unless it branches for ever or stands at a
  word of no group for ever.
- `BranchesDecideOrder`, `GreaterEqualUnlessOverflow`, `CarryAndOverflow`:
  what eq, ne, gt, le decide after a comparison; exactly when ge and lt are
  right; what C and V mean.
- `ImplementsMapOfLoneKeys`: the table is a map (`SymbolMap`) for the keys that have a
  bucket of their own, whatever calls about keys that collide or are prefixes come in
  between (`Other`). If no keys collide this is `ImplementsMap`, the whole table as a
  map, of which `table_collision` shows that collisions break it.
- `EveryEntryIsFreed`: `hashmap_free` reaches every entry allocated as long as no key
  in the table collides. `SetThenFind`: with any keys.
- `BufferIsExact`: the second pass writes within the buffer that the first
  measured, and leaves no word of it unwritten.
- `BranchesReachLabels`: an encoded branch, sign-extended as the emulator does
  and run at the base address, reaches its label exactly when the label is
  aligned and within the field's range.
- `ImplementsAssembly`: the two passes produce the translation, or refuse
  what it refuses and then write nothing.
- `LayoutIsImmaterial`: the binary is that of the file without comments, blanks
  around lines, empty lines and capitals (`Bare`, defined character by character
  on the file as a whole), and the file is refused only if that one is, or a line
  does not fit.
- `LinesReadWhole`: the second pass begins only if every line, with its comment,
  fitted the buffer and ended; none is taken for two.
- `ExactlyTheseDeviate`: a line that is accepted is executed as it is written,
  but for these, each of which is not: register numbers that are 31 or less only
  modulo 256; registers of both widths where only some are compared; immediates
  and shift amounts the field cuts; `ror` on an arithmetic instruction; `neg`
  and `negs` of an immediate, which subtract from x0; `mul` and `mneg` of an
  immediate and transfers with an operand of no known form, which have no
  encoding; 32-bit transfers with an unsigned offset; targets out of reach, and
  unaligned load literals.
- `ReassemblesToItself`: what the assembler wrote comes back bit for bit through
  the disassembler, unless a 32-bit transfer has an unsigned offset.
- `RoundTrip`: any binary comes back with as many words that decode the same,
  unless it has such a transfer, a word for which nothing is printed, or a wide
  move of the opcode no instruction has.
- `OnlyTheseRejected`: the assembler refuses the disassembler's text exactly
  for branches below address 0 and doubled offsets that no longer fit, and
  possibly for the uninitialised opcode.
- `ExitsWhereEmulatorDoes`: the disassembler exits at the words the emulator
  stops at as illegal, and at branches on a condition neither names, at which the
  emulator goes on; and beyond the memory, so that it never gets through a file
  of which its loader says that it is truncated.
- `NoMessageLost`: the program writes to a mailbox with room, although the status
  it tested is old by then.
- `MessageIntact`: what the GPU reads is the message written, `EveryStateShown`:
  the LED shows each state before the next is chosen, `AtMostOneReplyBehind`:
  unread replies do not pile up, although the program polls the wrong status before it
  reads them. Each holds if the wait outlasts the GPU; the mailbox run also has
  slower ones, for which they fail.
- `BlinksIfPolledInTime`: the LED goes on and off for ever if the wait outlasts the
  GPU and the GPU leaves each message in the mailbox until the program has polled its
  E flag (`led.s:59`). Without the second condition it does not: `flashes`.

*Words.* In the `toolchain` run words have all their 32 bits and fields their
real sizes; the byte of `DataTransfer` has three bits there, so that addresses
have 24, more than any offset. A word depends on its address only through
the distance to its target, so one line before it is enough to tell addresses
apart; two flipped bits reach every neighbour of an encoding in the masks.

*Fairness.* The emulator is one sequential process that the operating system keeps
running, hence `WF_vars(Next)`, and nothing stronger: which cycle comes next is
determined by the word fetched. The LED program and the GPU are two machines that
both keep running, hence `WF_vars(Program)` and `WF_vars(Gpu)`; the program has one
enabled step at a time, and so has the GPU. What relates their speeds
is not fairness but the bounds `soonest` and `latest` of the model, and the
properties that need one say which (`WaitOutlastsGpu`).

*Deadlock* is checked in every run. A finished process stutters explicitly.

### What the violations show

- `out_of_bounds` (`emulate.c:70`): the check compares the address of the
  first byte; a word in the last bytes of memory passes it and goes beyond.
- `table_collision` (`symbol_table.c:82`): a new key replaces whatever its
  bucket holds. The labels `start` and `b` are such a pair, so are `send` and
  `end_loop`. The replaced entry is never freed either.
- `table_prefix` (`symbol_table.c:48`): a key finds an entry of which it is a
  prefix, if both hash alike, as `default` and `defaultb` do.

- `word_offset` (`data_trans.c:79`): the assembler divides the offset of a
  32-bit transfer by 4, as the architecture and `rpi/led.s` want it, and the
  emulator multiplies by 8. The disassembler does the same (`ReassemblesToItself`),
  so `run_test.py` would refuse a binary with such a transfer.
- `flashes` (`rpi/led.s:59`): the report wants the LED "to flash in a constant
  frequency and ensuring it stays in an infinite loop" (`Report.tex:83`). Before it
  reads the reply the program polls the E flag of `x2`, the write status, though `x7`
  is set up with the read status (`led.s:7,18`) and never used. If the GPU has taken
  the message by the first poll, the write mailbox is empty and stays so: the program
  polls for ever and the LED keeps its state. A longer wait does not help, which is
  why `Flashes` supposes that it outlasts the GPU.

## 4. What is proved

All proofs are for arbitrary constants. The assumptions are the ASSUMEs of the
modules, which TLC evaluates in the runs:

- arithmetic the provers do not have: that a byte has a power of two of values, that
  powers of two are positive and double, and that those of the byte modulus are its
  products (`ByteAssumption`); that every set of bit positions is the set of ones of a
  word (`BitsAssumption`); that 2^64 is a multiple of four times each offset field
  (`FieldAssumption`);
- what the constants are: registers are some of 0..30 (`RegsAssumption`), `Decode`
  yields instructions, a memory is a number of words (`CapacityAssumption`), `hash`
  yields a bucket, sources are sequences of lines (`SourceAssumption`, and of lines with
  the operands of their form, `SourcesAssumption`), files are sequences of characters and
  the buffer holds at least one (`FileAssumption`), binaries are sequences of 32-bit words
  (`BinariesAssumption`), base addresses are multiples of four (`BasesAssumption`), a
  byte has at least four values, so that an address has room for an offset and its
  double (`WidthAssumption`), a
  mailbox has room for a message and `soonest` does not exceed `latest`
  (`MailboxAssumption`).

The theorem modules begin with the facts about remainders and signed readings that they
need; `CpuTheorems` proves besides that every operator of the instruction set maps
states to states and how each changes the registers. *Induction* over numbers, sizes of
sets and lengths of files is not by the library's induction theorems, which take an
operator, but by a lemma of each module about sets of numbers, which follows from the
order of the natural numbers being well founded (`WFMin`).

`EmulatorTheorems`
- `TypeCorrect`: `TypeOK`. One lemma per instruction class shows that the
  execute functions preserve `State` and `Memory`.
- `RegistersStayNarrow`: `NarrowRegisters` is inductive with `TypeOK`: every
  register write goes through `set_register_value` with the instruction's size.
- `FetchesStayInMemory`: `FetchesInMemory` is not inductive by itself. Its
  strengthening adds that the PC is a multiple of 4 in every state and that
  both the capacity and 2^64 are, so neither PC + 4, nor a scaled offset, nor a
  wrap around breaks alignment, and an aligned PC below the capacity leaves room
  for a word.

- `StoresAreExactHolds`: a store writes `bytes`, four or eight, at its address and
  no other, and reading them back gives the register's value, since the digits of a number below
  `ByteMod`^n, to the base `ByteMod`, recompose it. All other actions leave memory.
- `DumpIsFinalStateHolds`: the dump has the words of memory in order; with the
  same lemma on digits, the words of a memory determine it.
- `OnlyBranchesGoBack`, for every binary: a natural number, `StepsLeft`, falls with every
  step but a branch to the same or a lower address. It is the bytes of memory above
  the PC, and what is left of the run; a PC that advances below the capacity does not
  wrap around. It is what `EndsOrLoops` rests on, short of the fairness.

`ComparisonTheorems`. The invariant (`FlagsInvariant`) says what each flag is in
terms of the remembered operands: Z iff they are equal, N iff the truncated
result has its sign bit set, and so on; instructions that keep the flags keep
it. The theorems then follow by arithmetic about the signed readings of two
words and of their difference: `BranchesDecideOrderHolds`,
`GreaterEqualUnlessOverflowHolds`, `CarryAndOverflowHolds`. `ShiftsAreBitwiseHolds`
is about bits: bit i of a number is its quotient by 2^i, modulo 2, and the lemmas say
what that is for a quotient, a remainder and a multiple by a power of two and, beyond
the width, for a sign (`BitOfQuotient` and those after it); they rest on
2^(a + b) = 2^a * 2^b, by induction. Each shift is then a calculation with one bit.

`SymbolTableFacts` has what `hashmap_set` and `hashmap_find_entry` do to a table
that is well formed: at most one entry in a bucket, every entry in the bucket of its
key. Both proofs below rest on it.

`SymbolTableTheorems`. The inductive invariant is `TableInv`: types, and a well-formed
table.
- `SetIsFound` (`SetThenFind`), for any keys.
- `MapIsImplemented`: if no keys collide, `Spec => ImplementsMap`. Then the
  bucket of a key is empty or holds the key's own entry, so a match of a prefix
  is a match of the key, and the map the table stands for changes at one key.
- `LoneKeysAreMapped` (`ImplementsMapOfLoneKeys`), for any keys. The lemmas about a
  key's own entry need only that this key is alone in its bucket (`Alone`), and a set
  of another key changes another bucket. So a call about a key with a bucket of its own
  is the map's, and any other call leaves what the map is read from as it is.
- `EveryEntryIsFreedHolds`, for any keys: as long as no key in the table collides,
  `size` is the number of occupied buckets, by `FS_AddElement` at each new key. It is
  inductive because an entry that takes the place of another has a key that collides,
  and its bucket tells so ever after (`NoneCollided`).

`AssemblerTheorems`
- `TypeCorrect` and `BufferIsExactHolds`, for every source and any symbols. The
  inductive invariant is `AssemblerInv`: in either pass `address` is four times
  the number of code lines before `line` (`AddressInv`), the buffer spans what the
  first pass counted and is written up to `address` (`BufferInv`). The two passes
  agree because both addresses are the same function of the source.
- `AssemblyIsImplemented`: if no symbols collide, `Spec => ImplementsAssembly`.
  The invariant adds that the table has the last declaration of every symbol
  scanned (`RecordedInv`), and that the words written are those of the translation
  (`TranslatedInv`); `write_file` maps to `Translate`, an exit to `Refuse` or `Fail`,
  all else stutters.
- `EveryStepIsNearer`: a natural number, which `StepsLeft` computes from the lines of the
  source, falls with every step, so the assembler ends within 2n + 4 steps on n lines.
- `BranchesReachLabelsHolds`: from the same invariant, by arithmetic modulo 2^64:
  a field holds the distance, cut, and sign extension undoes the cut exactly for
  distances within its range.

- `LinesReadWholeHolds`, for every file and every buffer length: a line without its
  end in the buffer ends the program in the first pass (`FileInv`), so when the
  second begins every piece `fgets` read is a line.
- `LayoutIsImmaterialHolds`, if no symbols collide, for every file and buffer length.
  `Bare` goes through the file from its end, one character at a time; the reader goes
  through it from the start, one line at a time. The two meet line by line: a line
  is what is between its first and its last character that is neither blank nor
  comment (`TextOfLine`), and `Bare` keeps exactly those (`KeptIsText`), so reading it
  gives the same line where there is one, and nothing where the line is blank
  (`LineKept`). By induction from the end of the file, the lines of the bare file are
  those of the file without the empty ones, in their order (`BareReadsAlike`, `Thinned`).
  Empty lines have no bytes: offsets, declarations and what is refused are the same
  without them, and so is the translation (`EmptyLinesImmaterial`). What the assembler
  writes is the translation (`TranslationInv`), and it refuses only what the
  translation refuses (`Refusal`, from `AssemblyIsImplemented`).

`ToolchainTheorems`. A word is a set of bits and a field a number; `Number` and `Bits`
are inverse to each other, so a field that is printed and read again is the field it
was.
- `WordOutcome` follows each class of words the decoder tells apart through the
  disassembler and the assembler, and says what is printed of it and what that line is
  assembled to; `AssembledShaped` says which words the assembler can have written.
- The inductive invariant `ChainInv` relates the lines of the source, the words, the
  lines printed and the words assembled again: a word is that of its line at its
  address (`SourceInv`), every line printed is of one of the words up to `pc`, and if no
  word so far was one for which nothing is printed, line k is of word k (`TextInv`),
  `pc` stays within the file and the memory (`ProgressInv`), and what is assembled again
  is of the text (`AgainInv`). With `WordOutcome` it gives `TypeCorrect`,
  `RoundTripHolds`, `ReassemblyHolds`, `RejectionsHold` and `ExitsHolds`.
- `ExactlyTheseDeviateHolds`, from `SourceInv` and `AssembledAsWritten`, which is about
  one line. The assembler puts the fields of a line one after the other into an empty
  word: each finds its bits empty (`PutInField`) and keeps those put in before
  (`OthersKept`), so the decoder selects what was put in, cut to the field. Then, form
  by form, nothing was cut exactly if the line is none of the deviations; in particular
  a sign-extended offset leads to its target exactly if that is within reach
  (`OffsetReaches`), and the two scales of an offset lead to the same address
  only if it is 0 (`OffsetsDiffer`).

`MailboxTheorems`
- `MessagesNeverLost` (`RoomInv`): between the test of the F flag and the write only
  the GPU changes the write mailbox, and it only takes from it.
- `MessagesStayIntact`, `RepliesAreRead`, `StatesAreShown`, if the wait outlasts
  the GPU (`WaitInv`): as long as the GPU has something to do, `age` is at least the
  number of steps the program has taken since it posted the message, or has come to
  `latest`, when the program takes no step before the GPU has answered; so it cannot
  reach `toggle_led_status` before the GPU is idle again.

## 5. What is only model-checked

- `EndsOrLoops` and `BlinksIfPolledInTime`: liveness under fairness, which the
  provers do not reach (of the first, the part that needs no fairness is
  `OnlyBranchesGoBack`).
- What `hash` computes is a fold over its key; that it ends with a remainder is an
  assumption TLC evaluates.
- What the assembler does with symbols that collide, beyond types and the buffer:
  the table's violations show that it may take one for another.

## 6. What is not modelled

- Within a line of an instruction other than a branch, the characters: number
  formats (hexadecimal, octal), blanks around commas and brackets. `Encoder` begins
  at the tokens. A line for which `strtok` answers NULL ends the program in the
  model; in the code some such lines exit and some dereference NULL.
- NUL characters in a source, on which `read_file` would look before its buffer.
- The layout of the dump and of the disassembler's text.
- `malloc` and `calloc` returning NULL, and the results of `fwrite` and `fclose`,
  none of which the code checks: with a full disk the assembler succeeds and leaves a
  shorter file.
- Of `rpi/led.s`, `start` and the addresses: the buffer, its template and the
  registers of the mailboxes are distinct variables.
- The unit tests (`test.c`), which were read for what the components promise.

## 7. Plan

1. *Done:* processor, emulator, comparison, symbol table, assembler passes, with
   their theorems.
2. *Done:* instruction words: encoder, decoder, disassembler and their round
   trip.
3. *Done:* the LED program and the GPU, with the theorems on their timing.
4. *Done:* shifts against bits.
5. *Done:* `StoresAreExact`, `DumpIsFinalState`, and for the assembler types, the
   buffer, the refinement of `Assembly` and the reach of branches.
6. *Done:* the characters of a source file.
7. *Done:* the theorems about `Toolchain`, the bits of the shifts, the lines of a file.
8. *Done:* `ExactlyTheseDeviate` for all operands, from the same lemmas about words.
9. *Done:* `LayoutIsImmaterial`, by induction over the file. Every invariant and every
   action property the runs check is now the statement of a theorem.
