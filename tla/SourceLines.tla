---------------------------- MODULE SourceLines ----------------------------
(***************************************************************************)
(* The lines of an assembly source as the assembler tells them apart, once *)
(* comments and surrounding blanks are removed (preprocess_line of         *)
(* assemble.c, strip_line of utils.c).  What an instruction without a      *)
(* label assembles to does not depend on the rest of the source, so such a *)
(* line carries its word.                                                  *)
(***************************************************************************)
EXTENDS Integers, Sequences

CONSTANTS
    Symbols,    \* the names a source uses
    Words,      \* assembled words, without the offset of a branch or literal
    AddrMod,    \* values of a uint64_t: 2^64
    FieldMods   \* values of the offset fields: 2^26 and 2^19

WORD_SIZE_BYTES == 4

ASSUME FieldAssumption ==
    /\ AddrMod \in Nat \ {0}
    /\ \A f \in FieldMods :
          /\ f \in Nat \ {0} /\ f % 2 = 0
          /\ AddrMod % (f * WORD_SIZE_BYTES) = 0

Address == 0 .. AddrMod - 1

\* The operand of a branch or of a load literal: a symbol or a number.
Target == [symbol : Symbols] \cup [number : Address]
IsSymbol(target) == "symbol" \in DOMAIN target

\* "invalid" lines are those some assemble function refuses with exit, for
\* their opcode or operands; an "unended" line has no newline within
\* MAX_LINE_LENGTH or before the end of the file.
Line ==
    [kind : {"empty", "invalid", "unended"}]
        \cup [kind : {"label"}, symbol : Symbols]
        \cup [kind : {"plain"}, word : Words]
        \cup [kind : {"branch", "literal"}, word : Words, field : FieldMods,
              target : Target]

\* The lines that do not take a word of the binary.
NoCodeKinds == {"empty", "label"}

\* A word of the binary, with the value of its offset field.
Word == [word : Words, field : FieldMods \cup {1}, simm : Nat]
PlainWord(w) == [word |-> w, field |-> 1, simm |-> 0]
=============================================================================
