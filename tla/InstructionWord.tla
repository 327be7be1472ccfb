-------------------------- MODULE InstructionWord --------------------------
(***************************************************************************)
(* A 32-bit instruction word as the set of its one bits, and the macros    *)
(* that compose and select its fields.  A field is its lowest bit and its  *)
(* number of bits; a test is a mask and the value under it.                *)
(*                                                                         *)
(* The three programs have these macros, the fields and the tests each in  *)
(* headers of their own: utils.h, the headers of the emulator and their    *)
(* copies in disassembler/.  The macros are the same text; the fields and  *)
(* tests are modelled three times, in Encoder, Decoder and Disassembler,   *)
(* as the programs have them.                                              *)
(***************************************************************************)
EXTENDS Integers, FiniteSetsExt, TLC

Word == SUBSET (0 .. 31)

\* The one bits of a number, and the number of a set of bits.
Bits(n) == {k \in 0 .. 30 : (n \div 2^k) % 2 = 1}
Number(bits) == MapThenSumSet(LAMBDA k : 2^k, bits)

\* The word of two half-words, for the 32-bit constants of the code.
Halves(high, low) == Bits(low) \cup {16 + k : k \in Bits(high)}

\* SET_BITS ors the value, cut to the field, into the word: it never clears.
SetBits(word, field, value) ==
    word \cup {field[1] + k : k \in Bits(value % 2^field[2])}

SelectBits(word, field) ==
    Number({k \in 0 .. field[2] - 1 : field[1] + k \in word})

CheckBits(number, test) == Bits(number) \cap Bits(test[1]) = Bits(test[2])
CheckWord(word, test) == word \cap test[1] = test[2]

\* SIGN_EXT of a field to 64 bits.
SignExt(value, size) ==
    IF value < 2^(size - 1) THEN value ELSE value - 2^size
=============================================================================
