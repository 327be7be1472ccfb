------------------------------ MODULE Emulator ------------------------------
(***************************************************************************)
(* The emulator as a program (emulate.c): it zeroes the processor and the  *)
(* memory, loads a binary, fetches and executes one instruction per cycle  *)
(* until HALT, and prints the registers and the non-zero memory.           *)
(*                                                                         *)
(* A cycle is one action; the actions are the ways the body of             *)
(* emulate_cycle can go.  Decode stands for the selection of the opcode    *)
(* groups and fields of a 32-bit word: a function from words to decoded    *)
(* instructions.                                                           *)
(***************************************************************************)
EXTENDS DataProcessing, DataTransfer, Branch, Sequences

CONSTANTS
    Decode,     \* the decoded instruction of every word
    Images,     \* the contents a binary file may have, sequences of bytes
    Tails       \* what may lie in the seven bytes after main_memory

\* Words the cycle tells apart besides the executable ones: HALT and NOP;
\* "illegal", an instruction its execute function refuses with exit;
\* "unhandled", one of a group of which no execute function takes it;
\* "unallocated", one of no group.
Control == [op : {"nop", "halt", "illegal", "unhandled", "unallocated"}]
DPImm == ArithImm \cup WideMove
DPReg == ArithReg \cup LogicReg \cup MultiplyReg
Transfer == SdtUimm \cup SdtRegOffset \cup SdtIndexed \cup LoadLiteral
BranchInstr == UncondBranch \cup RegisterBranch \cup CondBranch
Instruction == Control \cup DPImm \cup DPReg \cup Transfer \cup BranchInstr

DPImmOps == {"arith_imm", "wide_move"}
DPRegOps == {"arith_reg", "logic_reg", "multiply_reg"}

ASSUME DecodeAssumption == Decode \in [0 .. WMod - 1 -> Instruction]
ASSUME ImagesAssumption == Images \subseteq Seq(Byte)
ASSUME TailsAssumption ==
    Tails \subseteq [MEMORY_CAPACITY .. MEMORY_CAPACITY + 6 -> Byte]

VARIABLES
    cpu_state,      \* registers, PC and PSTATE
    main_memory,    \* the memory and the seven bytes after it
    status,         \* where main is, or how the process ended
    output          \* the dumps printed, a sequence of at most one

vars == <<cpu_state, main_memory, status, output>>

Ended == {"done", "exited", "crashed"}
Statuses == {"loading", "running", "halted"} \cup Ended

WordAddrs == {a \in 0 .. MEMORY_CAPACITY - 1 : a % WORD_SIZE_BYTES = 0}
Line == WordAddrs \X (0 .. WMod - 1)
Dump == [registers : State, memory : SUBSET Line]

TypeOK ==
    /\ cpu_state \in State
    /\ main_memory \in Memory
    /\ status \in Statuses
    /\ output \in Seq(Dump)

Init ==
    /\ cpu_state = setup
    /\ \E tail \in Tails :
          main_memory = [a \in MemAddrs |->
                            IF a < MEMORY_CAPACITY THEN 0 ELSE tail[a]]
    /\ status = "loading"
    /\ output = <<>>

-----------------------------------------------------------------------------
\* fread of at most MEMORY_CAPACITY bytes: a longer file is truncated.
load_bin_to_memory ==
    /\ status = "loading"
    /\ \E image \in Images :
          main_memory' = [a \in MemAddrs |->
                             IF a < MEMORY_CAPACITY /\ a < Len(image)
                             THEN image[a + 1]
                             ELSE main_memory[a]]
    /\ status' = "running"
    /\ UNCHANGED <<cpu_state, output>>

\* exit(EXIT_FAILURE): nothing is printed but the message.
Exit ==
    /\ status' = "exited"
    /\ UNCHANGED <<cpu_state, main_memory, output>>

\* The binary cannot be opened or measured, or the output file not opened.
LoadFails == status = "loading" /\ Exit

\* The instruction at the PC.
insn == Decode[fetch_word(main_memory, cpu_state.PC, SF32)]

Executing(ops) ==
    /\ status = "running"
    /\ ~OutOfMemory(cpu_state.PC)
    /\ insn.op \in ops

Advance(cpu) == [cpu EXCEPT !.PC = (@ + WORD_SIZE_BYTES) % XMod]

FetchFault ==
    /\ status = "running"
    /\ OutOfMemory(cpu_state.PC)
    /\ Exit

Nop ==
    /\ Executing({"nop", "unhandled"})
    /\ cpu_state' = Advance(cpu_state)
    /\ UNCHANGED <<main_memory, status, output>>

\* A fault of emulate_cycle: HALT returns true.
HaltGoesOn ==
    /\ Executing({"halt"})
    /\ UNCHANGED vars

\* emulate_cycle returns false; the PC stays at the HALT.
Halt ==
    /\ Executing({"halt"})
    /\ status' = "halted"
    /\ UNCHANGED <<cpu_state, main_memory, output>>

DPImmCycle ==
    /\ Executing(DPImmOps)
    /\ cpu_state' = Advance(execute_dpimm_instruction(cpu_state, insn))
    /\ UNCHANGED <<main_memory, status, output>>

DPRegCycle ==
    /\ Executing(DPRegOps)
    /\ ~IllegalShift(insn)
    /\ cpu_state' = Advance(execute_dpreg_instruction(cpu_state, insn))
    /\ UNCHANGED <<main_memory, status, output>>

TransferCycle ==
    /\ Executing(TransferOps)
    /\ ~OutOfMemory(TransferAddress(cpu_state, insn))
    /\ cpu_state' = Advance(TransferredCpu(cpu_state, main_memory, insn))
    /\ main_memory' = TransferredMemory(cpu_state, main_memory, insn)
    /\ UNCHANGED <<status, output>>

TransferFault ==
    /\ Executing(TransferOps)
    /\ OutOfMemory(TransferAddress(cpu_state, insn))
    /\ Exit

BranchCycle ==
    /\ Executing(BranchOps)
    /\ cpu_state' = branch_instruction(cpu_state, insn)
    /\ UNCHANGED <<main_memory, status, output>>

IllegalInstruction ==
    /\ Executing({"illegal"} \cup DPRegOps)
    /\ insn.op = "illegal" \/ IllegalShift(insn)
    /\ Exit

\* No group takes the word: the cycle returns true and changed nothing.
Unallocated ==
    /\ Executing({"unallocated"})
    /\ UNCHANGED vars

\* The bytes a cycle reads or writes.
TouchedBytes ==
    AccessBytes(cpu_state.PC, SF32) \cup
        IF /\ Executing(TransferOps)
           /\ ~OutOfMemory(TransferAddress(cpu_state, insn))
        THEN AccessBytes(TransferAddress(cpu_state, insn), insn.sf)
        ELSE {}

\* A word that starts inside the array and ends after it is an access C does
\* not define: the process may die of it, or go on with the bytes there.
Overrun ==
    /\ status = "running"
    /\ ~OutOfMemory(cpu_state.PC)
    /\ \E a \in TouchedBytes : a \in MEMORY_CAPACITY .. MEMORY_CAPACITY + 6
    /\ status' = "crashed"
    /\ UNCHANGED <<cpu_state, main_memory, output>>

emulate_cycle ==
    \/ FetchFault \/ Nop \/ Halt \/ DPImmCycle \/ DPRegCycle
    \/ TransferCycle \/ TransferFault \/ BranchCycle
    \/ IllegalInstruction \/ Unallocated \/ Overrun

\* A fault of output_result: the loop stops before the last word.
LastWordMissing ==
    /\ status = "halted"
    /\ output' = Append(output,
          [registers |-> cpu_state,
           memory |-> {<<a, fetch_word(main_memory, a, SF32)>> :
               a \in {b \in WordAddrs :
                         /\ b + WORD_SIZE_BYTES < MEMORY_CAPACITY
                         /\ fetch_word(main_memory, b, SF32) # 0}}])
    /\ status' = "done"
    /\ UNCHANGED <<cpu_state, main_memory>>

\* The registers, then every non-zero word of memory with its address.
output_result ==
    /\ status = "halted"
    /\ output' = Append(output,
          [registers |-> cpu_state,
           memory |-> {<<a, fetch_word(main_memory, a, SF32)>> :
               a \in {b \in WordAddrs : fetch_word(main_memory, b, SF32) # 0}}])
    /\ status' = "done"
    /\ UNCHANGED <<cpu_state, main_memory>>

\* The process is over.
Terminated == status \in Ended /\ UNCHANGED vars

Next ==
    \/ load_bin_to_memory \/ LoadFails
    \/ emulate_cycle
    \/ output_result
    \/ Terminated

\* The emulator is one sequential process: the system goes on running it.
Spec == Init /\ [][Next]_vars /\ WF_vars(Next)

-----------------------------------------------------------------------------
(* Safety.                                                                 *)

\* When every instruction with a size has the 32-bit one, no register ever
\* holds a value of more than 32 bits: each write through set_register_value
\* (emulate.c:112) clears the upper half, whatever the 64-bit value computed.
NarrowRegisters ==
    (\A w \in DOMAIN Decode :
        "sf" \in DOMAIN Decode[w] => Decode[w].sf = SF32)
    => \A r \in Regs : cpu_state.R[r] < WMod

\* In a program without br the PC is a multiple of 4, so that the bound
\* check of fetch_word (emulate.c:70), which looks at the first byte only, is
\* enough: the four bytes fetched are all in memory.
FetchesInMemory ==
    (\A w \in DOMAIN Decode : Decode[w].op # "br")
    => /\ cpu_state.PC % WORD_SIZE_BYTES = 0
       /\ ~OutOfMemory(cpu_state.PC) =>
             AccessBytes(cpu_state.PC, SF32) \subseteq 0 .. MEMORY_CAPACITY - 1

\* What output_result (emulate.c:126) printed determines the final memory,
\* and the registers printed are those the program had at a HALT.
DumpIsFinalState ==
    \A n \in DOMAIN output :
        /\ n = 1
        /\ output[n].registers = cpu_state
        /\ insn.op = "halt"
        /\ \A a \in WordAddrs :
              LET words == {line[2] : line \in
                               {l \in output[n].memory : l[1] = a}}
                  word == WordAt(main_memory, a)
              IN  words = IF word = 0 THEN {} ELSE {word}

\* A store inside memory is exact: read back with the same size the word is
\* the register's value before the cycle (before any write back of the
\* base), and no other byte changed (write_word, emulate.c:84).  No other
\* cycle changes the memory.
StoresAreExact ==
    [][(status = "running" /\ status' = "running") =>
          IF Executing(TransferOps) /\ IsStore(insn)
          THEN LET address == TransferAddress(cpu_state, insn)
                   inside == AccessBytes(address, insn.sf)
                                \subseteq 0 .. MEMORY_CAPACITY - 1
               IN  /\ inside => fetch_word(main_memory', address, insn.sf)
                         = get_register_value(cpu_state, insn.rt, insn.sf)
                   /\ \A a \in MemAddrs \ AccessBytes(address, insn.sf) :
                         main_memory'[a] = main_memory[a]
          ELSE main_memory' = main_memory]_vars

\* "Illegal state: attempted to fetch beyond memory bounds" (emulate.c:71),
\* and the same of writes (emulate.c:86): an access beyond the memory ends
\* the emulator, so a cycle it survives touched bytes of memory only.
AccessesInBounds ==
    [][(status = "running" /\ status' = "running") =>
          TouchedBytes \subseteq 0 .. MEMORY_CAPACITY - 1]_vars

-----------------------------------------------------------------------------
(* Liveness.                                                               *)

\* The emulator ends, unless it executes branches for ever or stands at a
\* word of no group for ever: every other cycle (emulate.c:150) moves the PC
\* forward, until a HALT or the end of memory.
EndsOrLoops ==
    \/ <>(status \in Ended)
    \/ []<>(Executing(BranchOps))
    \/ <>[](Executing({"unallocated"}))
=============================================================================
