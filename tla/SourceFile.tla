----------------------------- MODULE SourceFile -----------------------------
(***************************************************************************)
(* The source file as the assembler reads it: from characters to the lines *)
(* of SourceLines (read_file and preprocess_line of assemble.c, strip_line *)
(* and is_symbol of utils.c, the operand of a branch), and the assembler   *)
(* of that file.  Characters are their codes.                              *)
(***************************************************************************)
EXTENDS Assembler, FiniteSets

CONSTANTS
    Files,              \* the files considered
    MAX_LINE_LENGTH,    \* 1024 in the code
    Branches,           \* opcodes of branches with a target, and their words
    Operations          \* the other instructions there are, by their tokens

ASSUME FileAssumption ==
    /\ Files \subseteq Seq(1 .. 127)
    /\ MAX_LINE_LENGTH \in Nat /\ MAX_LINE_LENGTH > 1
    /\ \A opcode \in DOMAIN Branches :
          Branches[opcode] \in [word : Words, field : FieldMods]
    /\ \A tokens \in DOMAIN Operations : Operations[tokens] \in Line

VARIABLE file

-----------------------------------------------------------------------------
(* Characters (ctype.h, in the C locale).                                  *)

Newline == 10
Space == 32
Dollar == 36
Dot == 46
Slash == 47
Zero == 48
Colon == 58
Underscore == 95

isspace(c) == c = Space \/ c \in 9 .. 13
isdigit(c) == c \in 48 .. 57
isupper(c) == c \in 65 .. 90
isalpha(c) == isupper(c) \/ c \in 97 .. 122
tolower(c) == IF isupper(c) THEN c + 32 ELSE c

-----------------------------------------------------------------------------
(* Lines.                                                                  *)

\* A fault of preprocess_line: the last two slashes begin the comment.
LastComment(buffer) ==
    LET slashes == {i \in 1 .. Len(buffer) - 1 :
                       buffer[i] = Slash /\ buffer[i + 1] = Slash}
    IN  IF slashes = {} THEN buffer
        ELSE SubSeq(buffer, 1,
                    (CHOOSE i \in slashes : \A j \in slashes : j <= i) - 1)

\* The line up to the first two slashes.
preprocess_line(buffer) ==
    LET slashes == {i \in 1 .. Len(buffer) - 1 :
                       buffer[i] = Slash /\ buffer[i + 1] = Slash}
    IN  IF slashes = {} THEN buffer
        ELSE SubSeq(buffer, 1,
                    (CHOOSE i \in slashes : \A j \in slashes : i <= j) - 1)

\* Without the blanks around it, in lower case.
strip_line(line_) ==
    LET visible(c) == ~isspace(c)
        first == SelectInSeq(line_, visible)
        last == SelectLastInSeq(line_, visible)
    IN  IF first = 0 THEN <<>>
        ELSE [i \in 1 .. last - first + 1 |-> tolower(line_[first + i - 1])]

is_symbol(s) ==
    /\ s # <<>>
    /\ isalpha(s[1]) \/ s[1] \in {Underscore, Dot}
    /\ \A i \in 2 .. Len(s) :
          isalpha(s[i]) \/ isdigit(s[i]) \/ s[i] \in {Underscore, Dot, Dollar}

is_symbol_declaration(s) == Last(s) = Colon /\ is_symbol(Front(s))

\* The tokens that strtok finds between spaces.
Tokens(s) ==
    LET bounds == {i \in 0 .. Len(s) + 1 :
                      i \in DOMAIN s => s[i] = Space}
        next(i) == CHOOSE j \in bounds :
                      j > i /\ \A k \in bounds : k > i => j <= k
        begins(i) == i - 1 \in bounds /\ i \notin bounds
        begin == SelectSeq([i \in DOMAIN s |-> i], begins)
    IN  [k \in DOMAIN begin |-> SubSeq(s, begin[k], next(begin[k]) - 1)]

\* The number a string begins with, 0 if it begins with none; numbers are
\* decimal here.
strtoll(s) ==
    LET stop == SelectInSeq(s, LAMBDA c : ~isdigit(c))
        digits == IF stop = 0 THEN s ELSE SubSeq(s, 1, stop - 1)
    IN  FoldLeft(LAMBDA n, c : n * 10 + c - Zero, 0, digits)

\* The target of a branch is a symbol or else a number, whatever it is.
BranchTarget(token) ==
    LET target_str == strip_line(token)
    IN  IF is_symbol(target_str)
        THEN [symbol |-> target_str]
        ELSE [number |-> strtoll(target_str) % AddrMod]

\* The instruction of a line, which has at least one token; further tokens
\* of a branch are not looked at, and one without a target ends the program.
Instruction(tokens) ==
    LET opcode == tokens[1]
    IN  IF opcode \in DOMAIN Branches /\ Len(tokens) > 1
        THEN [kind |-> "branch", word |-> Branches[opcode].word,
              field |-> Branches[opcode].field,
              target |-> BranchTarget(tokens[2])]
        ELSE IF tokens \in DOMAIN Operations
        THEN Operations[tokens]
        ELSE [kind |-> "invalid"]

\* What both passes see of a line.
process_line(buffer) ==
    LET s == strip_line(preprocess_line(buffer))
    IN  IF s = <<>> THEN [kind |-> "empty"]
        ELSE IF is_symbol_declaration(s)
        THEN [kind |-> "label", symbol |-> Front(s)]
        ELSE Instruction(Tokens(s))

-----------------------------------------------------------------------------
(* The file.                                                               *)

\* fgets: up to a newline, as many characters as the buffer holds before its
\* terminating zero.
fgets(f, from) ==
    LET full == from + MAX_LINE_LENGTH - 2
        end == IF full < Len(f) THEN full ELSE Len(f)
        newline == SelectInSubSeq(f, from, end, LAMBDA c : c = Newline)
    IN  SubSeq(f, from, IF newline = 0 THEN end ELSE newline)

\* A fault of read_file: a line that does not end is taken as far as it goes.
NotTested(f) ==
    LET reading[from \in 1 .. Len(f) + 1] ==
            IF from > Len(f) THEN <<>>
            ELSE LET buffer == fgets(f, from)
                 IN  <<process_line(buffer)>> \o reading[from + Len(buffer)]
    IN  reading[1]

\* The lines that follow an unended one are not read.
read_file(f) ==
    LET reading[from \in 1 .. Len(f) + 1] ==
            IF from > Len(f) THEN <<>>
            ELSE LET buffer == fgets(f, from)
                 IN  IF Last(buffer) # Newline
                     THEN <<[kind |-> "unended"]>>
                     ELSE <<process_line(Front(buffer))>>
                             \o reading[from + Len(buffer)]
    IN  reading[1]

\* The assembler of a file.
FileInit ==
    /\ file \in Files
    /\ program = read_file(file)
    /\ Init

FileNext == Next /\ UNCHANGED file

FileSpec == FileInit /\ [][FileNext]_<<vars, file>>

-----------------------------------------------------------------------------
(* A file, character by character.                                         *)

SameLine(i, j) == \A n \in i .. j - 1 : file[n] # Newline

Commented(i) ==
    /\ file[i] # Newline
    /\ \E j \in 1 .. i :
          SameLine(j, i) /\ file[j] = Slash /\ j < Len(file)
              /\ file[j + 1] = Slash

Inked(i) == ~isspace(file[i]) /\ ~Commented(i)

\* A newline ends something, a blank is between two characters, and nothing
\* is in a comment.
Matters(i) ==
    /\ ~Commented(i)
    /\ \E j \in 1 .. i : SameLine(j, i) /\ Inked(j)
    /\ file[i] = Newline \/ \E j \in i .. Len(file) : SameLine(i, j) /\ Inked(j)

\* The file without comments, indentation and empty lines, in lower case.
Bare ==
    LET kept[i \in 1 .. Len(file) + 1] ==
            IF i > Len(file) THEN <<>>
            ELSE IF Matters(i) THEN <<tolower(file[i])>> \o kept[i + 1]
            ELSE kept[i + 1]
    IN  kept[1]

Newlines == {i \in DOMAIN file : file[i] = Newline}

\* Every line ends, and with its comment and newline it fits the buffer.
LinesFit ==
    /\ file # <<>> => Last(file) = Newline
    /\ \A i \in DOMAIN file :
          i + MAX_LINE_LENGTH - 2 <= Len(file) =>
              Newlines \cap i .. i + MAX_LINE_LENGTH - 2 # {}

\* The binary is that of the bare file, and the file is refused only if the
\* bare file is or a line does not fit: comments, blanks, empty lines and the
\* case of letters change nothing, in either pass (preprocess_line,
\* strip_line; Report.tex:134 on comments), although labels are compared as
\* strings and addresses count lines.
LayoutIsImmaterial ==
    LET bare == read_file(Bare)
    IN  /\ phase = "done" =>
              output = <<Abstract!Translation(bare, base_address)>>
        /\ phase = "refused" /\ LinesFit =>
              \E i \in DOMAIN bare : Abstract!Refused(bare, base_address, i)

\* A line is read in one piece or the program ends before the second pass
\* (assemble.c:112): a binary is never made from the pieces of a long line,
\* nor from a file whose last line breaks off.
LinesReadWhole ==
    phase \in {"second", "writing", "done"} =>
        LinesFit /\ Len(program) = Cardinality(Newlines)
=============================================================================
