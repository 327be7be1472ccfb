----------------------------- MODULE Assembler -----------------------------
(***************************************************************************)
(* The two-pass assembler (assemble.c, with build_symbol_table of utils.c  *)
(* and the label operands of assemble_branch.c and assemble_dt.c).         *)
(*                                                                         *)
(* A pass reads one line per action.  The first records in the symbol      *)
(* table the address of every label and counts the bytes of the others;    *)
(* the second writes one word per line into a buffer of that size.         *)
(***************************************************************************)
EXTENDS SourceLines, SymbolTable

CONSTANTS
    Programs,   \* the sources considered
    Bases       \* base addresses, the optional third argument

ASSUME SourceAssumption ==
    /\ Programs \subseteq Seq(Line)
    /\ Bases \subseteq Address
    /\ Keys = Symbols /\ Values = Address

VARIABLES
    program, base_address,      \* the input
    phase,          \* "opening", "first", "second", "writing" or an end
    line,           \* the next line to read
    address,        \* offset of the next word
    symbol_table,
    memory,         \* the buffer, words by their offset
    output          \* the file written: none, or <<the buffer>>

vars == <<program, base_address, phase, line, address, symbol_table, memory,
          output>>

input == <<program, base_address>>

\* "refused": exit for a line; "failed": exit for a file; "done".
Ended == {"refused", "failed", "done"}

\* malloc leaves the buffer with any contents.
Unwritten == [word |-> "unwritten"]
NoMemory == [a \in {} |-> Unwritten]
Offsets(size) == {a \in 0 .. size - 1 : a % WORD_SIZE_BYTES = 0}

TypeOK ==
    /\ program \in Programs /\ base_address \in Bases
    /\ phase \in {"opening", "first", "second", "writing"} \cup Ended
    /\ line \in 1 .. Len(program) + 1
    /\ address \in Nat
    /\ symbol_table \in Table
    /\ DOMAIN memory \subseteq Nat
    /\ \A a \in DOMAIN memory : memory[a] \in Word \cup {Unwritten}
    /\ output \in {<<>>, <<memory>>}

Init ==
    /\ program \in Programs /\ base_address \in Bases
    /\ phase = "opening"
    /\ line = 1 /\ address = 0
    /\ symbol_table = hashmap_create
    /\ memory = NoMemory /\ output = <<>>

OpenInput ==
    /\ phase = "opening"
    /\ phase' \in {"first", "failed"}
    /\ UNCHANGED <<input, line, address, symbol_table, memory, output>>

-----------------------------------------------------------------------------
\* read_file hands the next line to the function of the pass.
Reading(pass, kinds) ==
    /\ phase = pass
    /\ line <= Len(program)
    /\ program[line].kind \in kinds

Refuse ==
    /\ phase' = "refused"
    /\ UNCHANGED <<input, line, address, symbol_table, memory, output>>

\* The first pass is the one that meets such a line.
LineTooLong == Reading("first", {"unended"}) /\ Refuse

\* A fault of build_symbol_table: the first pass counts an empty line too.
EmptyLineCounted ==
    \/ /\ Reading("first", {"label"})
       /\ symbol_table' = hashmap_set(symbol_table, program[line].symbol,
                                      (base_address + address) % AddrMod)
       /\ line' = line + 1
       /\ UNCHANGED <<input, phase, address, memory, output>>
    \/ /\ Reading("first", {"empty", "plain", "branch", "literal", "invalid"})
       /\ address' = address + WORD_SIZE_BYTES
       /\ line' = line + 1
       /\ UNCHANGED <<input, phase, symbol_table, memory, output>>

build_symbol_table ==
    \/ /\ Reading("first", {"empty"})
       /\ line' = line + 1
       /\ UNCHANGED <<input, phase, address, symbol_table, memory, output>>
    \/ /\ Reading("first", {"label"})
       /\ symbol_table' = hashmap_set(symbol_table, program[line].symbol,
                                      (base_address + address) % AddrMod)
       /\ line' = line + 1
       /\ UNCHANGED <<input, phase, address, memory, output>>
    \/ /\ Reading("first", {"plain", "branch", "literal", "invalid"})
       /\ address' = address + WORD_SIZE_BYTES
       /\ line' = line + 1
       /\ UNCHANGED <<input, phase, symbol_table, memory, output>>

\* The buffer is as large as the bytes counted; the source is read again.
StartSecondPass ==
    /\ phase = "first" /\ line > Len(program)
    /\ memory' = [a \in Offsets(address) |-> Unwritten]
    /\ address' = 0 /\ line' = 1
    /\ phase' = "second"
    /\ UNCHANGED <<input, symbol_table, output>>

-----------------------------------------------------------------------------
(* The second pass: build_memory.                                          *)

\* A fault of build_memory: a line skipped takes the next one with it.
SkipTwoLines ==
    /\ Reading("second", NoCodeKinds)
    /\ line' = line + 2
    /\ UNCHANGED <<input, phase, address, symbol_table, memory, output>>

SkipLine ==
    /\ Reading("second", NoCodeKinds)
    /\ line' = line + 1
    /\ UNCHANGED <<input, phase, address, symbol_table, memory, output>>

\* memcpy of a word to memory + address.
Emit(word) ==
    /\ memory' = [a \in DOMAIN memory \cup {address} |->
                     IF a = address THEN word ELSE memory[a]]
    /\ address' = address + WORD_SIZE_BYTES
    /\ line' = line + 1
    /\ UNCHANGED <<input, phase, symbol_table, output>>

AssemblePlain ==
    /\ Reading("second", {"plain"})
    /\ Emit(PlainWord(program[line].word))

InvalidLine == Reading("second", {"invalid"}) /\ Refuse

\* Symbols are looked up, numbers taken as they are.
Found(target) ==
    IsSymbol(target) => hashmap_find_entry(symbol_table, target.symbol) # 0

TargetAddress(target) ==
    IF IsSymbol(target)
    THEN LET b == hash(target.symbol)
             i == hashmap_find_entry(symbol_table, target.symbol)
         IN  symbol_table.entries[b][i].value
    ELSE target.number

\* A fault of get_target_address_offset: the base address is left out.
OffsetWithoutBase(target, field) ==
    (((TargetAddress(target) - address) % AddrMod) \div WORD_SIZE_BYTES) % field

\* The distance in words from the line, of which SET_BITS keeps the bits of
\* the field; the division is that of an unsigned number.
TargetOffset(target, field) ==
    (((TargetAddress(target) - (base_address + address)) % AddrMod)
        \div WORD_SIZE_BYTES) % field

IsAligned(target) == TargetAddress(target) % WORD_SIZE_BYTES = 0

AssembleBranch ==
    /\ Reading("second", {"branch"})
    /\ LET l == program[line]
       IN  /\ Found(l.target) /\ IsAligned(l.target)
           /\ Emit([word |-> l.word, field |-> l.field,
                    simm |-> TargetOffset(l.target, l.field)])

\* A load literal does not check that its target is aligned.
AssembleLiteral ==
    /\ Reading("second", {"literal"})
    /\ LET l == program[line]
       IN  /\ Found(l.target)
           /\ Emit([word |-> l.word, field |-> l.field,
                    simm |-> TargetOffset(l.target, l.field)])

SymbolNotFound ==
    /\ Reading("second", {"branch", "literal"})
    /\ ~Found(program[line].target)
    /\ Refuse

NotWordAligned ==
    /\ Reading("second", {"branch"})
    /\ Found(program[line].target) /\ ~IsAligned(program[line].target)
    /\ Refuse

EndSecondPass ==
    /\ phase = "second" /\ line > Len(program)
    /\ phase' = "writing"
    /\ UNCHANGED <<input, line, address, symbol_table, memory, output>>

\* The output file is opened, and written, only now.
write_file ==
    /\ phase = "writing"
    /\ \/ phase' = "done" /\ output' = <<memory>>
       \/ phase' = "failed" /\ UNCHANGED output
    /\ UNCHANGED <<input, line, address, symbol_table, memory>>

Terminated == phase \in Ended /\ UNCHANGED vars

Next ==
    \/ OpenInput \/ LineTooLong \/ build_symbol_table \/ StartSecondPass
    \/ SkipLine \/ AssemblePlain \/ InvalidLine
    \/ AssembleBranch \/ AssembleLiteral \/ SymbolNotFound \/ NotWordAligned
    \/ EndSecondPass \/ write_file \/ Terminated

Spec == Init /\ [][Next]_vars

-----------------------------------------------------------------------------
\* The words the second pass writes fit the buffer the first pass measured
\* (assemble.c:170), and fill it by the time it is written to the file.
BufferIsExact ==
    /\ phase = "second" /\ line <= Len(program) =>
          program[line].kind \in NoCodeKinds \/ address \in DOMAIN memory
    /\ phase = "writing" =>
          \A a \in DOMAIN memory : a < address /\ memory[a] # Unwritten

\* The signed value of an offset field, as the emulator extends it.
SignExtended(word) ==
    IF word.simm < word.field \div 2 THEN word.simm ELSE word.simm - word.field

\* Where a branch or a load literal at an offset goes when the binary runs at
\* its base address.
Reached(a) ==
    (base_address + a + SignExtended(output[1][a]) * WORD_SIZE_BYTES) % AddrMod

\* The assembler implements the translation.
Result ==
    CASE phase = "done"                  -> <<"done", output[1]>>
      [] phase \in {"refused", "failed"} -> <<phase>>
      [] OTHER                           -> <<"none">>

Abstract == INSTANCE Assembly WITH base <- base_address, result <- Result

\* No two symbols hash to the same bucket.
CollisionFree == \A j, k \in Keys : hash(j) = hash(k) => j = k

\* When no symbols collide the two passes (assemble.c:166) compute the
\* translation: the same words, a refusal of the same sources, and nothing
\* written when refused.
ImplementsAssembly == Abstract!Spec

\* A branch to a label reaches the label when the program runs, forward or
\* backward, exactly when the distance fits the field
\* (assemble_branch.c:41,56): a longer one is cut without a message.
BranchesReachLabels ==
    phase = "done" =>
        \A i \in DOMAIN program :
            program[i].kind \in {"branch", "literal"} =>
                LET a == Abstract!Offset(program, i)
                    f == program[i].field
                    d == Abstract!Distance(program, base_address, i)
                    reaches == Reached(a) = Abstract!Value(program, base_address,
                                                program[i].target)
                IN  reaches <=>
                      /\ d % WORD_SIZE_BYTES = 0
                      /\ \E n \in -(f \div 2) .. f \div 2 - 1 :
                            (d - n * WORD_SIZE_BYTES) % AddrMod = 0
=============================================================================
