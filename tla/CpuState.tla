------------------------------ MODULE CpuState ------------------------------
(***************************************************************************)
(* The processor state of the emulator (state_t, emulate.h) and the        *)
(* helpers every instruction goes through: register access, the N and Z    *)
(* flags, the bit-field macro.                                             *)
(*                                                                         *)
(* A C integer is a natural number below a modulus.  The code has 8-bit    *)
(* bytes, 4-byte W registers and 8-byte X registers; here the byte has     *)
(* ByteBits bits and everything else follows, so that 4 and 8, the         *)
(* distances between addresses, are those of the code at any scale.        *)
(***************************************************************************)
EXTENDS Integers

CONSTANTS
    ByteBits,   \* bits of a byte: 8 in the code
    ByteMod,    \* values of a byte: 256 in the code
    Regs        \* the general registers in use, some of 0..30

WBits == 4 * ByteBits
XBits == 8 * ByteBits
WMod == ByteMod * ByteMod * ByteMod * ByteMod
XMod == WMod * WMod

\* The modulus of the byte is its number of bits.  The rest is arithmetic the
\* provers do not have: powers of two are positive and double, and those of
\* the byte modulus are products of it.
ASSUME ByteAssumption ==
    /\ ByteBits \in Nat \ {0}
    /\ ByteMod \in Nat \ {0, 1}
    /\ ByteMod = 2^ByteBits
    /\ ByteMod % 2 = 0
    /\ \A k \in 0 .. XBits : 2^k \in Nat \ {0}
    /\ \A k \in 0 .. XBits - 1 : 2^(k + 1) = 2 * 2^k
    /\ ByteMod^0 = 1
    /\ \A k \in 0 .. 6 : ByteMod^(k + 1) = ByteMod * ByteMod^k

ASSUME RegsAssumption == Regs \subseteq 0 .. 30

SF32 == 0
SF64 == 1
ZR_REG == 31
Sizes == {SF32, SF64}
RegNums == Regs \cup {ZR_REG}

Byte == 0 .. ByteMod - 1
Word64 == 0 .. XMod - 1

\* The number of values of a register read or written with size sf.
Width(sf) == IF sf = SF32 THEN WMod ELSE XMod
NumBits(sf) == IF sf = SF32 THEN WBits ELSE XBits

\* SELECT_BITS on a uint64_t.  The shift that makes the mask is taken modulo
\* 64, as the shift instructions the macro compiles to take it: a size of 64
\* or a negative one, undefined in C, gives the mask of the remainder.
SELECT_BITS(value, offset, size) == (value \div 2^offset) % 2^(size % XBits)

\* The bit SELECT_BITS(value, msb_index, 1) of the flag computations.
SignBit(value, sf) == (value \div (Width(sf) \div 2)) % 2

\* SIGN_EXT followed by use as a signed number.
Signed(value, sf) ==
    IF SignBit(value, sf) = 1 THEN value - Width(sf) ELSE value

PState == [N : BOOLEAN, Z : BOOLEAN, C : BOOLEAN, V : BOOLEAN]
State == [R : [Regs -> Word64], PC : Word64, PSTATE : PState]

\* What setup leaves: everything zero, the Z flag set.
setup ==
    [R |-> [r \in Regs |-> 0],
     PC |-> 0,
     PSTATE |-> [N |-> FALSE, Z |-> TRUE, C |-> FALSE, V |-> FALSE]]

get_register_value(cpu, reg, sf) ==
    IF reg = ZR_REG THEN 0 ELSE cpu.R[reg] % Width(sf)

\* Faults of set_register_value: a 32-bit write that keeps all 64 bits, and
\* one that extends the sign.
UntruncatedWrite(cpu, reg, value, sf) ==
    IF reg = ZR_REG THEN cpu ELSE [cpu EXCEPT !.R[reg] = value % XMod]

SignedWrite(cpu, reg, value, sf) ==
    IF reg = ZR_REG
    THEN cpu
    ELSE [cpu EXCEPT !.R[reg] = Signed(value % Width(sf), sf)]

\* A write of size SF32 clears the upper half of the register; a write to
\* the zero register is dropped.  value may be any integer: uint64_t
\* arithmetic wraps, and both widths divide 2^64.
set_register_value(cpu, reg, value, sf) ==
    IF reg = ZR_REG
    THEN cpu
    ELSE [cpu EXCEPT !.R[reg] = value % Width(sf)]

set_NZ_flags(cpu, result, sf) ==
    [cpu EXCEPT !.PSTATE.N = SignBit(result, sf) = 1,
                !.PSTATE.Z = result % Width(sf) = 0]
=============================================================================
