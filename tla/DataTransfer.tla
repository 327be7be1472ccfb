---------------------------- MODULE DataTransfer ----------------------------
(***************************************************************************)
(* Main memory (main_memory, fetch_word and write_word of emulate.c) and   *)
(* the data-transfer instructions (data_trans.c).                          *)
(*                                                                         *)
(* fetch_word and write_word compare the address alone with                *)
(* MEMORY_CAPACITY, so a word that starts below it may end after it: the   *)
(* memory modelled has the seven bytes after the array too.                *)
(***************************************************************************)
EXTENDS CpuState

CONSTANT MEMORY_CAPACITY    \* 2 * 1024 * 1024 in the code

ASSUME CapacityAssumption ==
    /\ MEMORY_CAPACITY \in Nat \ {0}
    /\ MEMORY_CAPACITY % 4 = 0
    /\ MEMORY_CAPACITY + 8 <= XMod

WORD_SIZE_BYTES == 4

MemAddrs == 0 .. MEMORY_CAPACITY + 6
Memory == [MemAddrs -> Byte]

NumBytes(sf) == IF sf = SF32 THEN 4 ELSE 8

\* The addresses of the bytes of an access, and what the code checks of it.
AccessBytes(address, sf) == address .. address + NumBytes(sf) - 1
OutOfMemory(address) == address >= MEMORY_CAPACITY

\* A 32-bit little-endian word of memory.
WordAt(mem, address) ==
    mem[address] + ByteMod * (mem[address + 1]
        + ByteMod * (mem[address + 2] + ByteMod * mem[address + 3]))

fetch_word(mem, address, sf) ==
    IF sf = SF32
    THEN WordAt(mem, address)
    ELSE WordAt(mem, address) + WMod * WordAt(mem, address + 4)

\* Byte k of a word.
ByteOf(word, k) == (word \div ByteMod^k) % ByteMod

write_word(mem, address, word, sf) ==
    [a \in MemAddrs |->
        IF a \in AccessBytes(address, sf)
        THEN ByteOf(word, a - address)
        ELSE mem[a]]

-----------------------------------------------------------------------------
(* The decoded data-transfer instructions.                                 *)

STORE_L == 0
LOAD_L == 1

\* offset is the field of execute_sdt, simm9 is sign-extended.
SdtUimm ==
    [op : {"sdt_uimm"}, sf : Sizes, l : {STORE_L, LOAD_L}, xn : RegNums,
     rt : RegNums, offset : Nat]
SdtRegOffset ==
    [op : {"sdt_regoffset"}, sf : Sizes, l : {STORE_L, LOAD_L},
     xn : RegNums, rt : RegNums, xm : RegNums]
SdtIndexed ==
    [op : {"sdt_preind", "sdt_postind"}, sf : Sizes, l : {STORE_L, LOAD_L},
     xn : RegNums, rt : RegNums, simm9 : Int]
LoadLiteral ==
    [op : {"load_literal"}, sf : Sizes, rt : RegNums, simm19 : Int]

SdtOps == {"sdt_uimm", "sdt_regoffset", "sdt_preind", "sdt_postind"}
TransferOps == SdtOps \cup {"load_literal"}

IsStore(i) == i.op \in SdtOps /\ i.l = STORE_L
IsLoad(i) == i.op = "load_literal" \/ (i.op \in SdtOps /\ i.l = LOAD_L)

\* The address each function hands to fetch_word or write_word.  The
\* unsigned offset is scaled by 8 whatever the size of the transfer.
TransferAddress(cpu, i) ==
    LET xn_value == get_register_value(cpu, i.xn, SF64)
    IN  CASE i.op = "sdt_uimm"      -> (xn_value + i.offset * 8) % XMod
          [] i.op = "sdt_regoffset" ->
                (xn_value + get_register_value(cpu, i.xm, SF64)) % XMod
          [] i.op = "sdt_preind"    -> (xn_value + i.simm9) % XMod
          [] i.op = "sdt_postind"   -> xn_value
          [] i.op = "load_literal"  -> (cpu.PC + i.simm19 * 4) % XMod

\* The index is written to the base register with the transfer's size.
WriteBack(cpu, i, xn_value) ==
    set_register_value(cpu, i.xn, xn_value + i.simm9, i.sf)

\* The loaded word goes to rt; a store leaves the registers alone.
Loaded(cpu, mem, i, address) ==
    IF IsLoad(i)
    THEN set_register_value(cpu, i.rt, fetch_word(mem, address, i.sf), i.sf)
    ELSE cpu

\* The registers after a transfer: pre-index writes the base back before
\* the access, post-index after it, from the base read at the start.
TransferredCpu(cpu, mem, i) ==
    LET address == TransferAddress(cpu, i)
        xn_value == get_register_value(cpu, i.xn, SF64)
    IN  CASE i.op = "sdt_preind"  ->
                Loaded(WriteBack(cpu, i, xn_value), mem, i, address)
          [] i.op = "sdt_postind" ->
                WriteBack(Loaded(cpu, mem, i, address), i, xn_value)
          [] OTHER -> Loaded(cpu, mem, i, address)

\* A fault of the indexed stores: the base is written back before the value
\* stored is read.
StoredAfterWriteBack(cpu, mem, i) ==
    IF IsStore(i)
    THEN write_word(mem, TransferAddress(cpu, i),
                    get_register_value(TransferredCpu(cpu, mem, i), i.rt, i.sf),
                    i.sf)
    ELSE mem

\* The memory after a transfer: the value stored is read before any write
\* back.
TransferredMemory(cpu, mem, i) ==
    IF IsStore(i)
    THEN write_word(mem, TransferAddress(cpu, i),
                    get_register_value(cpu, i.rt, i.sf), i.sf)
    ELSE mem
=============================================================================
