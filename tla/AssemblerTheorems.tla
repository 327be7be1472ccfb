------------------------- MODULE AssemblerTheorems -------------------------
(***************************************************************************)
(* The assembler for every source, base address, field width and number of *)
(* buckets: type correctness, a buffer filled exactly, an end, and, when no*)
(* symbols collide, branches that reach their labels and the translation   *)
(* of the source as a whole; and, for every file and length of the line    *)
(* buffer, lines read in one piece, and a binary that comments, blanks,    *)
(* empty lines and capitals do not change.                                 *)
(***************************************************************************)
EXTENDS SourceFile, SymbolTableFacts, FiniteSetTheorems, SequenceTheorems,
        WellFoundedInduction

(***************************************************************************)
(* The remainder and the quotient of a positive number.                    *)
(***************************************************************************)
\* Division with remainder.
LEMMA DivisionParts ==
    ASSUME NEW m \in Nat \ {0}, NEW a \in Int
    PROVE  /\ a = m * (a \div m) + (a % m)
           /\ a % m \in 0 .. m - 1
           /\ a \div m \in Int
    BY SMT

\* The quotient and the remainder are the only ones there are.
LEMMA DivisionUnique ==
    ASSUME NEW m \in Nat \ {0}, NEW q \in Int, NEW r \in 0 .. m - 1
    PROVE  (m * q + r) % m = r /\ (m * q + r) \div m = q
<1> DEFINE a == m * q + r
<1>1. a \in Int
    OBVIOUS
<1>2. /\ a = m * (a \div m) + (a % m)
      /\ a % m \in 0 .. m - 1
      /\ a \div m \in Int
    BY <1>1, SMT
<1>3. QED
    BY <1>2, Z3

\* A multiple of the modulus added makes no difference.
LEMMA ModShift ==
    ASSUME NEW m \in Nat \ {0}, NEW a \in Int, NEW q \in Int
    PROVE  (a + m * q) % m = a % m
<1>1. /\ a = m * (a \div m) + (a % m)
      /\ a % m \in 0 .. m - 1
      /\ a \div m \in Int
    BY SMT
<1>2. a + m * q = m * ((a \div m) + q) + (a % m)
    BY <1>1, Z3
<1>3. (a \div m) + q \in Int
    BY <1>1
<1>4. (m * ((a \div m) + q) + (a % m)) % m = a % m
    BY <1>1, <1>3, DivisionUnique
<1>5. QED
    BY <1>2, <1>4

\* The difference of two words, and their sum, modulo the modulus.
LEMMA DifferenceMod ==
    ASSUME NEW m \in Nat \ {0}, NEW x \in 0 .. m - 1, NEW y \in 0 .. m - 1
    PROVE  (x - y) % m = IF x >= y THEN x - y ELSE x - y + m
<1>1. CASE x >= y
    BY <1>1, SMT
<1>2. CASE x < y
    BY <1>2, SMT
<1>3. QED
    BY <1>1, <1>2

-----------------------------------------------------------------------------
(* The bytes before a line.                                                *)
CodeBefore(p, i) == {j \in DOMAIN p : p[j].kind \notin NoCodeKinds /\ j < i}
Bytes(p, i) == 4 * Cardinality(CodeBefore(p, i))

LEMMA SameCardinality == \A S : Abstract!Cardinality(S) = Cardinality(S)
    BY DEF Abstract!Cardinality, Cardinality

LEMMA OffsetIsBytes ==
    ASSUME NEW p, NEW i PROVE Abstract!Offset(p, i) = Bytes(p, i)
<1>1. {j \in Abstract!CodeLines(p) : j < i} = CodeBefore(p, i)
    BY DEF Abstract!CodeLines, CodeBefore, Abstract!NoCodeKinds, NoCodeKinds
<1>2. QED
    BY <1>1, SameCardinality
    DEF Abstract!Offset, Bytes, Abstract!WORD_SIZE_BYTES

LEMMA CodeIsFinite ==
    ASSUME NEW p \in Seq(Line), NEW i \in Nat
    PROVE  IsFiniteSet(CodeBefore(p, i))
<1>1. Len(p) \in Nat /\ DOMAIN p = 1 .. Len(p)
    OBVIOUS
<1>2. IsFiniteSet(1 .. Len(p))
    BY <1>1, FS_Interval
<1>3. QED
    BY <1>1, <1>2, FS_Subset DEF CodeBefore

\* A number of bytes is a number of words.
LEMMA BytesAreWords ==
    ASSUME NEW p \in Seq(Line), NEW i \in Nat
    PROVE  Bytes(p, i) \in Nat /\ Bytes(p, i) % 4 = 0
<1> DEFINE n == Cardinality(CodeBefore(p, i))
<1>1. n \in Nat
    BY CodeIsFinite, FS_CardinalityType
<1> HIDE DEF n
<1>2. 4 * n \in Nat /\ (4 * n) % 4 = 0
    BY <1>1
<1>3. QED
    BY <1>2 DEF Bytes, n

LEMMA NoBytesBefore ==
    ASSUME NEW p \in Seq(Line) PROVE Bytes(p, 1) = 0
<1>1. DOMAIN p \subseteq Nat \ {0}
    OBVIOUS
<1>2. CodeBefore(p, 1) = {}
    BY <1>1 DEF CodeBefore
<1>3. Cardinality(CodeBefore(p, 1)) = 0
    BY <1>2, FS_EmptySet, Zenon
<1>4. QED
    BY <1>3 DEF Bytes

\* A line of code takes a word, another line nothing.
LEMMA NextBytes ==
    ASSUME NEW p \in Seq(Line), NEW i \in DOMAIN p
    PROVE  Bytes(p, i + 1) = IF p[i].kind \in NoCodeKinds
                             THEN Bytes(p, i) ELSE Bytes(p, i) + 4
<1>1. i \in Nat /\ DOMAIN p \subseteq Nat
    OBVIOUS
<1>2. CASE p[i].kind \in NoCodeKinds
  <2>1. CodeBefore(p, i + 1) = CodeBefore(p, i)
    BY <1>1, <1>2 DEF CodeBefore
  <2>2. QED
    BY <1>2, <2>1 DEF Bytes
<1>3. CASE p[i].kind \notin NoCodeKinds
  <2>1. CodeBefore(p, i + 1) = CodeBefore(p, i) \cup {i}
    BY <1>1, <1>3 DEF CodeBefore
  <2>2. i \notin CodeBefore(p, i)
    BY <1>1 DEF CodeBefore
  <2>3. IsFiniteSet(CodeBefore(p, i))
    BY <1>1, CodeIsFinite
  <2>4. Cardinality(CodeBefore(p, i + 1)) = Cardinality(CodeBefore(p, i)) + 1
    BY <2>1, <2>2, <2>3, FS_AddElement
  <2>5. Cardinality(CodeBefore(p, i)) \in Nat
    BY <2>3, FS_CardinalityType
  <2>6. QED
    BY <1>3, <2>4, <2>5 DEF Bytes
<1>4. QED
    BY <1>2, <1>3

LEMMA BytesGrow ==
    ASSUME NEW p \in Seq(Line), NEW i \in Nat, NEW j \in Nat, i <= j
    PROVE  Bytes(p, i) <= Bytes(p, j)
<1>1. CodeBefore(p, i) \subseteq CodeBefore(p, j)
    BY DEF CodeBefore
<1>2. IsFiniteSet(CodeBefore(p, i)) /\ IsFiniteSet(CodeBefore(p, j))
    BY CodeIsFinite
<1>3. Cardinality(CodeBefore(p, i)) <= Cardinality(CodeBefore(p, j))
    BY <1>1, <1>2, FS_Subset
<1>4. Cardinality(CodeBefore(p, i)) \in Nat /\ Cardinality(CodeBefore(p, j)) \in Nat
    BY <1>2, FS_CardinalityType
<1>5. QED
    BY <1>3, <1>4 DEF Bytes

\* Two lines of code are a word apart, or more.
LEMMA BytesApart ==
    ASSUME NEW p \in Seq(Line), NEW i \in DOMAIN p, NEW j \in Nat, i < j,
           p[i].kind \notin NoCodeKinds
    PROVE  Bytes(p, i) + 4 <= Bytes(p, j)
<1>1. i \in Nat /\ i + 1 <= j
    OBVIOUS
<1>2. Bytes(p, i + 1) = Bytes(p, i) + 4
    BY NextBytes
<1>3. QED
    BY <1>1, <1>2, BytesGrow

\* The fields of a line, by its kind.
LEMMA LineFields ==
    ASSUME NEW l \in Line
    PROVE  /\ l.kind \in {"empty", "invalid", "unended", "label", "plain",
                          "branch", "literal"}
           /\ l.kind = "label" => l.symbol \in Symbols
           /\ l.kind \in {"plain", "branch", "literal"} => l.word \in Words
           /\ l.kind \in {"branch", "literal"} =>
                 l.field \in FieldMods /\ l.target \in Target
    BY DEF Line

-----------------------------------------------------------------------------
(* The buffer.                                                             *)

Size == Bytes(program, Len(program) + 1)

\* The next word belongs after those of the lines read, in both passes.
AddressInv ==
    /\ address = Bytes(program, line)
    /\ phase = "opening" => line = 1
    /\ phase \in {"writing", "done"} => line = Len(program) + 1

\* The buffer has a place for every line of code, written up to the address.
BufferInv ==
    phase \in {"second", "writing", "done"} =>
        /\ memory \in [Offsets(Size) -> Word \cup {Unwritten}]
        /\ \A a \in Offsets(Size) : a < address => memory[a] # Unwritten

OutputInv == output = IF phase = "done" THEN <<memory>> ELSE <<>>

AssemblerInv ==
    /\ TypeOK /\ WellFormed(symbol_table)
    /\ AddressInv /\ BufferInv /\ OutputInv

LEMMA InputFacts ==
    ASSUME TypeOK
    PROVE  /\ program \in Seq(Line) /\ Len(program) \in Nat
           /\ DOMAIN program = 1 .. Len(program)
           /\ line \in Nat \ {0} /\ base_address \in Address
<1>1. program \in Seq(Line) /\ base_address \in Address
    BY SourceAssumption DEF TypeOK
<1>2. QED
    BY <1>1 DEF TypeOK

\* The place of the line being assembled is in the buffer.
LEMMA PlaceInBuffer ==
    ASSUME TypeOK, AddressInv, line <= Len(program),
           program[line].kind \notin NoCodeKinds
    PROVE  /\ address \in Offsets(Size)
           /\ Bytes(program, line + 1) = address + 4
           /\ \A a \in Offsets(Size) : a < address + 4 => a <= address
<1>1. program \in Seq(Line) /\ Len(program) \in Nat /\ line \in DOMAIN program
      /\ line \in Nat
    BY InputFacts
<1>2. Bytes(program, line + 1) = address + 4
    BY <1>1, NextBytes DEF AddressInv
<1>3. address + 4 <= Size
    BY <1>1, <1>2, BytesGrow DEF Size
<1>4. address \in Nat /\ address % 4 = 0 /\ Size \in Nat
  <2>1. Bytes(program, line) \in Nat /\ Bytes(program, line) % 4 = 0
    BY <1>1, BytesAreWords
  <2>2. Len(program) + 1 \in Nat
    BY <1>1
  <2>3. Bytes(program, Len(program) + 1) \in Nat
    BY <1>1, <2>2, BytesAreWords
  <2>4. QED
    BY <2>1, <2>3 DEF AddressInv, Size
<1>5. address \in Offsets(Size)
    BY <1>3, <1>4 DEF Offsets, WORD_SIZE_BYTES
<1>6. ASSUME NEW a \in Offsets(Size), a < address + 4 PROVE a <= address
    BY <1>4, <1>6 DEF Offsets, WORD_SIZE_BYTES
<1>7. QED
    BY <1>2, <1>5, <1>6

LEMMA InitialAssembler == Init => AssemblerInv
<1> SUFFICES ASSUME Init PROVE AssemblerInv
    OBVIOUS
<1>1. program \in Seq(Line) /\ Len(program) \in Nat
    BY SourceAssumption DEF Init
<1>2. WellFormed(symbol_table)
    BY CreatedIsWellFormed DEF Init
<1>3. DOMAIN memory = {}
    BY DEF Init, NoMemory
<1>4. TypeOK
    BY <1>1, <1>2, <1>3 DEF Init, TypeOK, WellFormed
<1>5. AddressInv
    BY <1>1, NoBytesBefore DEF Init, AddressInv
<1>6. QED
    BY <1>2, <1>4, <1>5 DEF Init, AssemblerInv, BufferInv, OutputInv

\* What is found is an address, and so is what a line jumps to.
LEMMA TargetIsAddress ==
    ASSUME WellFormed(symbol_table), NEW t \in Target, Found(t)
    PROVE  TargetAddress(t) \in Address
<1>1. CASE IsSymbol(t)
  <2> DEFINE k == t.symbol
             chain == symbol_table.entries[hash(k)]
  <2>1. k \in Keys
    BY <1>1, SourceAssumption DEF Target, IsSymbol
  <2>2. symbol_table \in Table /\ Len(chain) <= 1
    BY <2>1, HashIsBucket DEF WellFormed
  <2>3. hashmap_find_entry(symbol_table, k) = 1 /\ chain[1] \in Entry
    BY <1>1, <2>1, <2>2, FindFacts DEF Found
  <2>4. chain[1].value \in Address
    BY <2>3, SourceAssumption DEF Entry
  <2>5. QED
    BY <1>1, <2>3, <2>4 DEF TargetAddress
<1>2. CASE ~IsSymbol(t)
    BY <1>2 DEF Target, IsSymbol, TargetAddress
<1>3. QED
    BY <1>1, <1>2

LEMMA FieldFacts ==
    ASSUME NEW f \in FieldMods
    PROVE  /\ f \in Nat \ {0} /\ f % 2 = 0 /\ AddrMod \in Nat \ {0}
           /\ AddrMod % (f * 4) = 0
    BY FieldAssumption DEF WORD_SIZE_BYTES

LEMMA TransferWord ==
    ASSUME NEW f \in FieldMods, NEW w \in Words, NEW d \in Int
    PROVE  [word |-> w, field |-> f, simm |-> ((d % AddrMod) \div 4) % f] \in Word
<1>1. f \in Nat \ {0} /\ AddrMod \in Nat \ {0}
    BY FieldFacts
<1> DEFINE e == (d % AddrMod) \div 4
<1>2. e \in Int
    BY <1>1
<1> HIDE DEF e
<1>3. e % f \in Nat
    BY <1>1, <1>2
<1>4. QED
    BY <1>3 DEF Word, e

\* A word is written at its place.
LEMMA EmitKeeps ==
    ASSUME AssemblerInv, phase = "second", line <= Len(program),
           program[line].kind \notin NoCodeKinds,
           NEW w \in Word, Emit(w)
    PROVE  AssemblerInv'
<1> USE DEF AssemblerInv
<1>1. program \in Seq(Line) /\ Len(program) \in Nat /\ line \in Nat
    BY InputFacts
<1>2. /\ address \in Offsets(Size)
      /\ Bytes(program, line + 1) = address + 4
      /\ \A a \in Offsets(Size) : a < address + 4 => a <= address
    BY PlaceInBuffer
<1>3. /\ memory \in [Offsets(Size) -> Word \cup {Unwritten}]
      /\ \A a \in Offsets(Size) : a < address => memory[a] # Unwritten
    BY DEF BufferInv
<1>4. memory' = [a \in Offsets(Size) |-> IF a = address THEN w ELSE memory[a]]
  <2>1. DOMAIN memory \cup {address} = Offsets(Size)
    BY <1>2, <1>3
  <2>2. QED
    BY <2>1 DEF Emit
<1>5. /\ address' = address + 4 /\ line' = line + 1
      /\ UNCHANGED <<program, base_address, phase, symbol_table, output>>
      /\ Size' = Size
    BY DEF Emit, WORD_SIZE_BYTES, input, Size
<1>6. w # Unwritten
    BY DEF Word, Unwritten
<1>7. BufferInv'
  <2>1. memory' \in [Offsets(Size) -> Word \cup {Unwritten}]
    BY <1>3, <1>4
  <2>2. ASSUME NEW a \in Offsets(Size), a < address'
        PROVE  memory'[a] # Unwritten
    <3>1. a <= address /\ a \in Int /\ address \in Int
      BY <1>2, <1>5, <2>2 DEF Offsets
    <3>2. QED
      BY <1>3, <1>4, <1>6, <3>1
  <2> HIDE DEF Size
  <2>3. QED
    BY <1>5, <2>1, <2>2 DEF BufferInv
<1>8. AddressInv'
    BY <1>2, <1>5 DEF AddressInv
<1>9. TypeOK'
  <2>1. address' \in Nat /\ line' \in 1 .. Len(program) + 1
    BY <1>1, <1>5 DEF TypeOK
  <2>2. DOMAIN memory' \subseteq Nat
        /\ \A a \in DOMAIN memory' : memory'[a] \in Word \cup {Unwritten}
    <3>1. Offsets(Size) \subseteq Nat
      BY DEF Offsets
    <3>2. QED
      BY <1>3, <1>4, <3>1
  <2>3. output' = <<>>
    BY <1>5 DEF OutputInv
  <2>4. QED
    BY <1>5, <2>1, <2>2, <2>3 DEF TypeOK
<1>10. QED
    BY <1>5, <1>7, <1>8, <1>9 DEF OutputInv

\* The words of the three kinds of lines of code.
LEMMA PlainIsWord ==
    ASSUME NEW w \in Words PROVE PlainWord(w) \in Word
    BY DEF PlainWord, Word

LEMMA OffsetIsWord ==
    ASSUME AssemblerInv, NEW l \in Line, l.kind \in {"branch", "literal"},
           Found(l.target)
    PROVE  [word |-> l.word, field |-> l.field,
            simm |-> TargetOffset(l.target, l.field)] \in Word
<1>1. l.word \in Words /\ l.field \in FieldMods /\ l.target \in Target
    BY LineFields
<1> DEFINE d == TargetAddress(l.target) - (base_address + address)
<1>2. d \in Int
  <2>1. TargetAddress(l.target) \in Int
    BY <1>1, TargetIsAddress DEF AssemblerInv, Address
  <2>2. base_address \in Int /\ address \in Int
    BY InputFacts DEF AssemblerInv, TypeOK, Address
  <2>3. QED
    BY <2>1, <2>2
<1>3. TargetOffset(l.target, l.field) = ((d % AddrMod) \div 4) % l.field
    BY DEF TargetOffset, WORD_SIZE_BYTES
<1> HIDE DEF d
<1>4. QED
    BY <1>1, <1>2, <1>3, TransferWord

LEMMA AssemblerInductive == AssemblerInv /\ [Next]_vars => AssemblerInv'
<1> SUFFICES ASSUME AssemblerInv, [Next]_vars PROVE AssemblerInv'
    OBVIOUS
<1> USE DEF AssemblerInv
<1>0. /\ program \in Seq(Line) /\ Len(program) \in Nat
      /\ DOMAIN program = 1 .. Len(program)
      /\ line \in Nat \ {0} /\ base_address \in Address
    BY InputFacts
<1>1. ASSUME UNCHANGED <<input, line, address, symbol_table, memory, output>>,
             phase' \in {"first", "second", "refused", "failed"},
             phase' # phase => phase' # "second", phase # "done"
      PROVE  AssemblerInv'
  <2>1. TypeOK' /\ WellFormed(symbol_table)'
    BY <1>1 DEF TypeOK, input, Ended, WellFormed
  <2>2. AddressInv'
    BY <1>1 DEF AddressInv, input
  <2>3. Size' = Size
    BY <1>1 DEF Size, input
  <2> HIDE DEF Size
  <2>4. BufferInv'
    BY <1>1, <2>3 DEF BufferInv
  <2>5. QED
    BY <1>1, <2>1, <2>2, <2>4 DEF OutputInv, TypeOK
<1>2. ASSUME Refuse, phase \in {"first", "second"} PROVE AssemblerInv'
    BY <1>1, <1>2 DEF Refuse
<1>3. CASE OpenInput
    BY <1>1, <1>3 DEF OpenInput
<1>4. CASE LineTooLong
    BY <1>2, <1>4 DEF LineTooLong, Reading
\* A line that changes no word: the pass goes on.
<1>5. ASSUME NEW table, WellFormed(table), symbol_table' = table,
             line <= Len(program), line' = line + 1,
             phase \in {"first", "second"},
             address' = Bytes(program, line + 1),
             UNCHANGED <<input, phase, memory, output>>,
             phase = "second" => address' = address
      PROVE  AssemblerInv'
  <2>1. address' \in Nat
    BY <1>0, <1>5, BytesAreWords
  <2>2. TypeOK'
    BY <1>0, <1>5, <2>1 DEF TypeOK, input, WellFormed
  <2>3. AddressInv'
    BY <1>0, <1>5 DEF AddressInv, input
  <2>4. Size' = Size
    BY <1>5 DEF Size, input
  <2> HIDE DEF Size
  <2>5. BufferInv'
    BY <1>5, <2>4 DEF BufferInv
  <2>6. QED
    BY <1>5, <2>2, <2>3, <2>5 DEF OutputInv
<1>6. CASE build_symbol_table
  <2>1. line <= Len(program) /\ line \in DOMAIN program /\ line' = line + 1
        /\ phase = "first" /\ UNCHANGED <<input, phase, memory, output>>
    BY <1>0, <1>6 DEF build_symbol_table, Reading
  <2>2. address' = Bytes(program, line + 1)
    BY <1>6, <2>1, <1>0, NextBytes
    DEF build_symbol_table, Reading, AddressInv, NoCodeKinds, WORD_SIZE_BYTES
  <2>3. WellFormed(symbol_table')
    <3>1. CASE UNCHANGED symbol_table
      BY <3>1
    <3>2. ASSUME Reading("first", {"label"}),
                 symbol_table' = hashmap_set(symbol_table, program[line].symbol,
                                             (base_address + address) % AddrMod)
          PROVE  WellFormed(symbol_table')
      <4> DEFINE v == (base_address + address) % AddrMod
      <4>1. program[line] \in Line /\ program[line].kind = "label"
        BY <1>0, <2>1, <3>2 DEF Reading
      <4>2. program[line].symbol \in Keys
        BY <4>1, LineFields, SourceAssumption
      <4>3. v \in Values
        <5>1. base_address + address \in Int /\ AddrMod \in Nat \ {0}
          BY <1>0, FieldAssumption DEF TypeOK, Address
        <5>2. QED
          BY <5>1, SourceAssumption DEF Address
      <4> HIDE DEF v
      <4>4. WellFormed(hashmap_set(symbol_table, program[line].symbol, v))
        BY <4>2, <4>3, SetIsWellFormed
      <4>5. QED
        BY <3>2, <4>4 DEF v
    <3>3. QED
      BY <1>6, <3>1, <3>2 DEF build_symbol_table
  <2>4. QED
    BY <1>5, <2>1, <2>2, <2>3
<1>7. CASE StartSecondPass
  <2>1. /\ phase = "first" /\ line = Len(program) + 1
        /\ memory' = [a \in Offsets(address) |-> Unwritten]
        /\ address' = 0 /\ line' = 1 /\ phase' = "second"
        /\ UNCHANGED <<input, symbol_table, output>>
    BY <1>0, <1>7 DEF StartSecondPass, TypeOK
  <2>2. address = Size /\ Size' = Size
    BY <2>1 DEF AddressInv, Size, input
  <2>3. memory' \in [Offsets(Size) -> Word \cup {Unwritten}]
    BY <2>1, <2>2
  <2>4. \A a \in Offsets(Size) : a \in Nat /\ ~(a < 0)
    BY DEF Offsets
  <2> HIDE DEF Size
  <2>5. BufferInv'
    BY <2>1, <2>2, <2>3, <2>4 DEF BufferInv
  <2>6. AddressInv'
    BY <1>0, <2>1, NoBytesBefore DEF AddressInv, input
  <2>7. TypeOK'
    BY <1>0, <2>1, <2>2, <2>3, <2>4 DEF TypeOK, input, OutputInv
  <2>8. QED
    BY <2>1, <2>5, <2>6, <2>7 DEF OutputInv
<1>8. CASE SkipLine
  <2>1. line <= Len(program) /\ line \in DOMAIN program /\ line' = line + 1
        /\ phase = "second" /\ program[line].kind \in NoCodeKinds
        /\ UNCHANGED <<input, phase, address, symbol_table, memory, output>>
    BY <1>0, <1>8 DEF SkipLine, Reading
  <2>2. address' = Bytes(program, line + 1)
    BY <1>0, <2>1, NextBytes DEF AddressInv
  <2>3. QED
    BY <1>5, <2>1, <2>2
<1>9. ASSUME NEW kind \in {"plain", "branch", "literal", "invalid"},
             Reading("second", {kind})
      PROVE  /\ phase = "second" /\ line <= Len(program)
             /\ program[line] \in Line /\ program[line].kind = kind
             /\ program[line].kind \notin NoCodeKinds
    BY <1>0, <1>9 DEF Reading, NoCodeKinds
<1>10. CASE AssemblePlain
  <2>1. program[line].word \in Words
    BY <1>9, <1>10, LineFields DEF AssemblePlain
  <2>2. PlainWord(program[line].word) \in Word
    BY <2>1, PlainIsWord
  <2>3. QED
    BY <1>9, <1>10, <2>2, EmitKeeps DEF AssemblePlain
<1>11. CASE AssembleBranch \/ AssembleLiteral
  <2> DEFINE l == program[line]
             w == [word |-> l.word, field |-> l.field,
                   simm |-> TargetOffset(l.target, l.field)]
  <2>1. /\ phase = "second" /\ line <= Len(program) /\ l \in Line
        /\ l.kind \in {"branch", "literal"} /\ l.kind \notin NoCodeKinds
        /\ Found(l.target) /\ Emit(w)
    BY <1>9, <1>11 DEF AssembleBranch, AssembleLiteral
  <2>2. w \in Word
    BY <2>1, OffsetIsWord
  <2> HIDE DEF w
  <2>3. QED
    BY <2>1, <2>2, EmitKeeps
<1>12. CASE InvalidLine \/ SymbolNotFound \/ NotWordAligned
    BY <1>2, <1>12 DEF InvalidLine, SymbolNotFound, NotWordAligned, Reading
<1>13. ASSUME UNCHANGED <<input, line, address, symbol_table, memory>>,
              phase \in {"second", "writing"},
              phase' \in {"writing", "done", "failed"},
              output' = IF phase' = "done" THEN <<memory>> ELSE <<>>,
              line = Len(program) + 1
       PROVE  AssemblerInv'
  <2>1. TypeOK' /\ WellFormed(symbol_table)'
    BY <1>13 DEF TypeOK, input, Ended, WellFormed
  <2>2. AddressInv'
    BY <1>13 DEF AddressInv, input
  <2>3. Size' = Size
    BY <1>13 DEF Size, input
  <2> HIDE DEF Size
  <2>4. BufferInv'
    BY <1>13, <2>3 DEF BufferInv
  <2>5. QED
    BY <1>13, <2>1, <2>2, <2>4 DEF OutputInv
<1>14. CASE EndSecondPass
  <2>1. line = Len(program) + 1
    BY <1>0, <1>14 DEF EndSecondPass, TypeOK
  <2>2. QED
    BY <1>13, <1>14, <2>1 DEF EndSecondPass, OutputInv
<1>15. CASE write_file
    BY <1>13, <1>15 DEF write_file, AddressInv, OutputInv
<1>16. CASE Terminated \/ UNCHANGED vars
  <2>1. UNCHANGED vars
    BY <1>16 DEF Terminated
  <2>2. Size' = Size
    BY <2>1 DEF vars, Size
  <2> HIDE DEF Size
  <2>3. QED
    BY <2>1, <2>2
    DEF vars, TypeOK, WellFormed, AddressInv, BufferInv, OutputInv
<1>17. QED
    BY <1>3, <1>4, <1>6, <1>7, <1>8, <1>10, <1>11, <1>12, <1>14, <1>15, <1>16
    DEF Next

LEMMA AssemblerInvariant == Spec => []AssemblerInv
    BY InitialAssembler, AssemblerInductive, PTL DEF Spec

\* The state of the assembler is what the types say, malloc's garbage and
\* failures included.
THEOREM TypeCorrect == Spec => []TypeOK
<1>1. AssemblerInv => TypeOK
    BY DEF AssemblerInv
<1>2. QED
    BY <1>1, AssemblerInvariant, PTL

-----------------------------------------------------------------------------
(* The end of the assembler.                                               *)

\* The steps it still takes at most: one per line in either pass, and one
\* each to open the source, to begin and to end the second pass, to write.
StepsLeft ==
    CASE phase = "opening" -> 2 * Len(program) + 4
      [] phase = "first"   -> 2 * Len(program) + 4 - line
      [] phase = "second"  -> Len(program) + 3 - line
      [] phase = "writing" -> 1
      [] phase \in Ended   -> 0

StepsRange ==
    /\ StepsLeft \in Nat
    /\ phase = "opening" => StepsLeft = 2 * Len(program) + 4
    /\ phase = "first" => StepsLeft = 2 * Len(program) + 4 - line
    /\ phase = "second" => StepsLeft = Len(program) + 3 - line
    /\ phase \in {"first", "second"} => StepsLeft >= 2
    /\ phase = "writing" => StepsLeft = 1
    /\ phase \in Ended => StepsLeft = 0

LEMMA StepsOfPhase == TypeOK => StepsRange
<1> SUFFICES ASSUME TypeOK PROVE StepsRange
    OBVIOUS
<1>1. line \in 1 .. Len(program) + 1 /\ Len(program) \in Nat
    BY InputFacts DEF TypeOK
<1> USE DEF StepsLeft, StepsRange, Ended
<1>2. CASE phase = "opening"
    BY <1>1, <1>2
<1>3. CASE phase = "first"
    BY <1>1, <1>3
<1>4. CASE phase = "second"
    BY <1>1, <1>4
<1>5. CASE phase = "writing"
    BY <1>5
<1>6. CASE phase \in Ended
    BY <1>6
<1>7. QED
    BY <1>2, <1>3, <1>4, <1>5, <1>6 DEF TypeOK

LEMMA StepsOfNext == TypeOK' => StepsRange'
    BY StepsOfPhase, PTL

\* The assembler ends, at the latest after opening the source, one step per
\* line of each pass and three more (assemble.c:166): no step of a pass leaves
\* the line where it is, and the second pass begins but once.
THEOREM EveryStepIsNearer ==
    Spec => /\ [](StepsLeft \in Nat)
            /\ [][StepsLeft' < StepsLeft]_vars
<1>1. AssemblerInv => StepsLeft \in Nat
    BY StepsOfPhase DEF AssemblerInv, StepsRange
<1>2. AssemblerInv /\ AssemblerInv' /\ [Next]_vars
          => [StepsLeft' < StepsLeft]_vars
  <2> SUFFICES ASSUME AssemblerInv, AssemblerInv', Next
               PROVE  StepsLeft' < StepsLeft \/ UNCHANGED vars
    OBVIOUS
  <2>1. StepsRange /\ StepsRange'
    BY StepsOfPhase, StepsOfNext DEF AssemblerInv
  <2>2. Len(program) \in Nat /\ line \in Nat \ {0}
    BY InputFacts DEF AssemblerInv
  <2> USE DEF StepsRange
  <2>3. ASSUME phase \in {"opening", "first", "second", "writing"},
               phase' \in Ended
        PROVE  StepsLeft' < StepsLeft
    BY <2>1, <2>2, <2>3
  <2>4. ASSUME phase \in {"first", "second"}, UNCHANGED <<input, phase>>,
               line' = line + 1
        PROVE  StepsLeft' < StepsLeft
    <3>1. Len(program)' = Len(program)
      BY <2>4 DEF input
    <3>2. QED
      BY <2>1, <2>2, <2>4, <3>1
  <2>5. CASE OpenInput
    <3>1. Len(program)' = Len(program) /\ line' = line
      BY <2>5 DEF OpenInput, input
    <3>2. QED
      BY <2>1, <2>2, <2>3, <2>5, <3>1 DEF OpenInput, Ended
  <2>6. CASE LineTooLong \/ InvalidLine \/ SymbolNotFound \/ NotWordAligned
    BY <2>3, <2>6 DEF LineTooLong, InvalidLine, SymbolNotFound,
       NotWordAligned, Reading, Refuse, Ended
  <2>7. CASE build_symbol_table
    BY <2>4, <2>7 DEF build_symbol_table, Reading
  <2>8. CASE StartSecondPass
    <3>1. /\ Len(program)' = Len(program) /\ line' = 1
          /\ phase = "first" /\ phase' = "second"
      BY <2>8 DEF StartSecondPass, input
    <3>2. line \in 1 .. Len(program) + 1
      BY DEF AssemblerInv, TypeOK
    <3>3. QED
      BY <2>1, <2>2, <3>1, <3>2
  <2>9. CASE SkipLine
    BY <2>4, <2>9 DEF SkipLine, Reading
  <2>10. CASE AssemblePlain
    BY <2>4, <2>10 DEF AssemblePlain, Reading, Emit
  <2>11. CASE AssembleBranch
    BY <2>4, <2>11 DEF AssembleBranch, Reading, Emit
  <2>12. CASE AssembleLiteral
    BY <2>4, <2>12 DEF AssembleLiteral, Reading, Emit
  <2>13. CASE EndSecondPass
    BY <2>1, <2>13 DEF EndSecondPass
  <2>14. CASE write_file
    BY <2>3, <2>14 DEF write_file, Ended
  <2>15. CASE Terminated
    BY <2>15 DEF Terminated
  <2>16. QED
    BY <2>5, <2>6, <2>7, <2>8, <2>9, <2>10, <2>11, <2>12, <2>13, <2>14,
       <2>15 DEF Next
<1>3. QED
    BY <1>1, <1>2, AssemblerInvariant, PTL DEF Spec

-----------------------------------------------------------------------------
\* The buffer measured by the first pass (assemble.c:170) has a place for
\* every word of the second, and none is left unwritten.
THEOREM BufferIsExactHolds == Spec => []BufferIsExact
<1>1. AssemblerInv => BufferIsExact
  <2> SUFFICES ASSUME AssemblerInv PROVE BufferIsExact
    OBVIOUS
  <2> USE DEF AssemblerInv
  <2>1. ASSUME phase = "second", line <= Len(program),
               program[line].kind \notin NoCodeKinds
        PROVE  address \in DOMAIN memory
    BY <2>1, PlaceInBuffer DEF BufferInv
  <2>2. ASSUME phase = "writing", NEW a \in DOMAIN memory
        PROVE  a < address /\ memory[a] # Unwritten
    <3>1. address = Size
      BY <2>2 DEF AddressInv, Size
    <3>2. a \in Offsets(Size)
      BY <2>2 DEF BufferInv
    <3>3. a < Size
      <4>1. Size \in Int
        BY <3>1 DEF TypeOK
      <4>2. QED
        BY <3>2, <4>1 DEF Offsets
    <3>4. QED
      BY <2>2, <3>1, <3>2, <3>3 DEF BufferInv
  <2>3. QED
    BY <2>1, <2>2 DEF BufferIsExact
<1>2. QED
    BY <1>1, AssemblerInvariant, PTL

-----------------------------------------------------------------------------
(* The symbols.                                                            *)

\* The declarations of a symbol before a line.
Declared(p, symbol, n) == {i \in Abstract!Declarations(p, symbol) : i < n}

\* A table has the last declaration of every symbol before a line.
Records(t, p, b, n) ==
    \A k \in Symbols :
        LET chain == t.entries[hash(k)]
            d == Declared(p, k, n)
        IN  IF d = {}
            THEN chain = <<>>
            ELSE /\ chain # <<>>
                 /\ \E i \in d : /\ \A j \in d : j <= i
                                 /\ chain[1].value = (b + Bytes(p, i)) % AddrMod

LEMMA NothingRecorded ==
    ASSUME NEW p \in Seq(Line), NEW b PROVE Records(hashmap_create, p, b, 1)
<1>1. DOMAIN p \subseteq Nat \ {0}
    OBVIOUS
<1>2. ASSUME NEW k \in Symbols
      PROVE  Declared(p, k, 1) = {} /\ hashmap_create.entries[hash(k)] = <<>>
  <2>1. hash(k) \in Buckets
    BY SourceAssumption, HashIsBucket
  <2>2. hashmap_create.entries[hash(k)] = <<>>
    BY <2>1 DEF hashmap_create
  <2>3. QED
    BY <1>1, <2>2 DEF Declared, Abstract!Declarations
<1>3. QED
    BY <1>2 DEF Records

LEMMA OtherLine ==
    ASSUME NEW p \in Seq(Line), NEW n \in DOMAIN p, p[n].kind # "label",
           NEW t, NEW b, Records(t, p, b, n)
    PROVE  Records(t, p, b, n + 1)
<1>1. DOMAIN p \subseteq Nat
    OBVIOUS
<1>2. \A k \in Symbols : Declared(p, k, n + 1) = Declared(p, k, n)
    BY <1>1 DEF Declared, Abstract!Declarations
<1>3. QED
    BY <1>2 DEF Records

LEMMA LabelLine ==
    ASSUME NoCollisions, NEW p \in Seq(Line), NEW n \in DOMAIN p,
           p[n].kind = "label", NEW t, WellFormed(t), NEW b \in Int,
           Records(t, p, b, n)
    PROVE  Records(hashmap_set(t, p[n].symbol, (b + Bytes(p, n)) % AddrMod),
                   p, b, n + 1)
<1> DEFINE s == p[n].symbol
           v == (b + Bytes(p, n)) % AddrMod
           u == hashmap_set(t, s, v)
           e == [key |-> s, value |-> v]
<1>1. DOMAIN p \subseteq Nat /\ p[n] \in Line /\ n \in Nat
    OBVIOUS
<1>2. s \in Keys /\ s \in Symbols
    BY <1>1, LineFields, SourceAssumption
<1>3. v \in Values
  <2>1. Bytes(p, n) \in Int /\ AddrMod \in Nat \ {0}
    BY <1>1, BytesAreWords, FieldAssumption
  <2>2. QED
    BY <2>1, SourceAssumption DEF Address
<1> HIDE DEF v, s, u, e
<1>4. u.entries = [t.entries EXCEPT ![hash(s)] = <<e>>]
  <2>0. ASSUME NEW k \in Keys, NEW w \in Values
        PROVE  hashmap_set(t, k, w).entries
                   = [t.entries EXCEPT ![hash(k)] = <<[key |-> k, value |-> w]>>]
    <3>1. Alone(k)
      BY DEF NoCollisions
    <3>2. QED
      BY <3>1, SetOwnEntry
  <2>1. hashmap_set(t, s, v).entries
            = [t.entries EXCEPT ![hash(s)] = <<[key |-> s, value |-> v]>>]
    BY <1>2, <1>3, <2>0
  <2>2. QED
    BY <2>1 DEF u, e
<1>5. e.value = v /\ <<e>> # <<>>
    BY DEF e
<1>6. ASSUME NEW k \in Symbols
      PROVE  u.entries[hash(k)] = IF k = s THEN <<e>> ELSE t.entries[hash(k)]
  <2>1. k \in Keys /\ hash(k) \in Buckets /\ hash(s) \in Buckets
    BY <1>2, SourceAssumption, HashIsBucket
  <2>2. t.entries \in [Buckets -> Seq(Entry)]
    BY DEF WellFormed, Table
  <2>3. hash(k) = hash(s) => k = s
    BY <1>2, <2>1 DEF NoCollisions, Alone
  <2>4. QED
    BY <1>4, <2>1, <2>2, <2>3
<1>7. ASSUME NEW k \in Symbols, k # s
      PROVE  Declared(p, k, n + 1) = Declared(p, k, n)
    BY <1>1, <1>7 DEF Declared, Abstract!Declarations, s
<1>8. n \in Declared(p, s, n + 1) /\ \A j \in Declared(p, s, n + 1) : j <= n
    BY <1>1 DEF Declared, Abstract!Declarations, s
<1>9. ASSUME NEW k \in Symbols
      PROVE  LET chain == u.entries[hash(k)]
                 d == Declared(p, k, n + 1)
             IN  IF d = {}
                 THEN chain = <<>>
                 ELSE /\ chain # <<>>
                      /\ \E i \in d :
                            /\ \A j \in d : j <= i
                            /\ chain[1].value = (b + Bytes(p, i)) % AddrMod
  <2>1. CASE k = s
    <3>1. u.entries[hash(k)] = <<e>>
      BY <1>6, <2>1
    <3>2. u.entries[hash(k)] # <<>> /\ u.entries[hash(k)][1].value = v
      BY <1>5, <3>1
    <3>3. QED
      BY <1>8, <2>1, <3>2 DEF v
  <2>2. CASE k # s
    <3>1. u.entries[hash(k)] = t.entries[hash(k)]
      BY <1>6, <2>2
    <3>2. QED
      BY <1>7, <2>2, <3>1 DEF Records
  <2>3. QED
    BY <2>1, <2>2
<1>10. Records(u, p, b, n + 1)
    BY <1>9 DEF Records
<1>11. QED
    BY <1>10 DEF u, s, v

\* What a target means in the translation.
LEMMA RecordedTarget ==
    ASSUME NoCollisions, WellFormed(symbol_table), NEW p \in Seq(Line), NEW b,
           Records(symbol_table, p, b, Len(p) + 1), NEW target \in Target
    PROVE  /\ Found(target) <=> ~(/\ Abstract!IsSymbol(target)
                                  /\ Abstract!Declarations(p, target.symbol) = {})
           /\ Found(target) => TargetAddress(target) = Abstract!Value(p, b, target)
<1>1. CASE IsSymbol(target)
  <2> DEFINE k == target.symbol
             d == Abstract!Declarations(p, k)
             chain == symbol_table.entries[hash(k)]
  <2>1. k \in Symbols /\ k \in Keys /\ Abstract!IsSymbol(target)
    BY <1>1, SourceAssumption DEF Target, IsSymbol, Abstract!IsSymbol
  <2>2. Declared(p, k, Len(p) + 1) = d /\ d \subseteq Nat
    <3>1. Len(p) \in Nat /\ DOMAIN p = 1 .. Len(p)
      OBVIOUS
    <3>2. QED
      BY <3>1 DEF Declared, Abstract!Declarations
  <2>3. hashmap_find_entry(symbol_table, k) = IF chain = <<>> THEN 0 ELSE 1
    BY <2>1, FindOwnEntry DEF NoCollisions
  <2>4. CASE d = {}
    <3>1. chain = <<>>
      BY <2>1, <2>2, <2>4 DEF Records
    <3>2. ~Found(target)
      BY <1>1, <2>3, <3>1 DEF Found
    <3>3. QED
      BY <2>1, <2>4, <3>2
  <2>5. CASE d # {}
    <3>1. PICK i \in d : /\ chain # <<>> /\ \A j \in d : j <= i
                         /\ chain[1].value = (b + Bytes(p, i)) % AddrMod
      BY <2>1, <2>2, <2>5 DEF Records
    <3>2. Found(target)
      BY <1>1, <2>3, <3>1 DEF Found
    <3>3. TargetAddress(target) = (b + Bytes(p, i)) % AddrMod
      BY <1>1, <2>3, <3>1 DEF TargetAddress
    <3>4. (CHOOSE m \in d : \A j \in d : j <= m) = i
      <4> HIDE DEF d
      <4>1. ASSUME NEW m \in d, \A j \in d : j <= m PROVE m = i
        BY <2>2, <3>1, <4>1
      <4>2. QED
        BY <3>1, <4>1
    <3>5. Abstract!Value(p, b, target) = (b + Abstract!Offset(p, i)) % AddrMod
      BY <2>1, <3>4 DEF Abstract!Value, Abstract!AddressOf
    <3>6. QED
      BY <2>5, <3>2, <3>3, <3>5, OffsetIsBytes
  <2>6. QED
    BY <2>4, <2>5
<1>2. CASE ~IsSymbol(target)
    BY <1>2 DEF IsSymbol, Abstract!IsSymbol, Found, TargetAddress, Abstract!Value
<1>3. QED
    BY <1>1, <1>2

-----------------------------------------------------------------------------
(* The words.                                                              *)

\* Reducing a distance to an address does not change the bits of its field.
LEMMA FieldOfDistance ==
    ASSUME NEW f \in FieldMods, NEW d \in Int
    PROVE  ((d % AddrMod) \div 4) % f = (d \div 4) % f
<1>1. f \in Nat \ {0} /\ AddrMod \in Nat \ {0} /\ AddrMod % (f * 4) = 0
    BY FieldFacts
<1> DEFINE n == AddrMod \div (f * 4)
           c == d \div AddrMod
           r == d % AddrMod
<1>2. AddrMod = (f * 4) * n /\ n \in Int
  <2> DEFINE g == f * 4
  <2>1. g \in Nat \ {0} /\ AddrMod \in Int
    BY <1>1
  <2> HIDE DEF g
  <2>2. AddrMod = g * (AddrMod \div g) + (AddrMod % g) /\ AddrMod \div g \in Int
    BY <2>1, DivisionParts
  <2>3. AddrMod % g = 0
    BY <1>1 DEF g
  <2>4. AddrMod = g * (AddrMod \div g)
    BY <2>1, <2>2, <2>3
  <2>5. QED
    BY <2>2, <2>4 DEF g
<1>3. d = AddrMod * c + r /\ r \in Int /\ c \in Int
  <2>1. AddrMod \in Nat \ {0}
    BY <1>1
  <2>2. /\ d = AddrMod * (d \div AddrMod) + (d % AddrMod)
        /\ d % AddrMod \in 0 .. AddrMod - 1
        /\ d \div AddrMod \in Int
    BY <2>1, DivisionParts
  <2> HIDE DEF n
  <2>3. QED
    BY <2>1, <2>2
<1> HIDE DEF n, c, r
<1> DEFINE s == r \div 4
           e == r % 4
<1>4. r = 4 * s + e /\ e \in 0 .. 3 /\ s \in Int
    BY <1>3, DivisionParts
<1> HIDE DEF s, e
<1>5. d = 4 * (s + f * (n * c)) + e
    BY <1>1, <1>2, <1>3, <1>4, Z3
<1>6. n * c \in Int /\ f * (n * c) \in Int
    BY <1>1, <1>2, <1>3, Z3
<1>7. d \div 4 = s + f * (n * c)
  <2> DEFINE q == s + f * (n * c)
  <2>1. q \in Int
    BY <1>4, <1>6
  <2> HIDE DEF q
  <2>2. (4 * q + e) \div 4 = q
    BY <1>4, <2>1, DivisionUnique
  <2>3. QED
    BY <1>5, <2>2 DEF q
<1>8. (s + f * (n * c)) % f = s % f
    BY <1>1, <1>4, <1>6, ModShift
<1>9. QED
    BY <1>7, <1>8 DEF r, s

\* The word of a line with a target, as the code computes it.
LEMMA TranslatedTarget ==
    ASSUME NoCollisions, AssemblerInv, line <= Len(program),
           Records(symbol_table, program, base_address, Len(program) + 1),
           program[line].kind \in {"branch", "literal"},
           Found(program[line].target)
    PROVE  [word |-> program[line].word, field |-> program[line].field,
            simm |-> TargetOffset(program[line].target, program[line].field)]
               = Abstract!Translated(program, base_address, line)
<1> DEFINE l == program[line]
           d == TargetAddress(l.target) - (base_address + address)
<1>1. program \in Seq(Line) /\ line \in DOMAIN program /\ l \in Line
      /\ base_address \in Int /\ address \in Int /\ line \in Nat
    BY InputFacts DEF AssemblerInv, Address, TypeOK
<1>2. l.field \in FieldMods /\ l.target \in Target
    BY <1>1, LineFields
<1>3. TargetAddress(l.target) \in Int
    BY <1>2, TargetIsAddress DEF AssemblerInv, Address
<1>4. d \in Int
    BY <1>1, <1>3
<1>5. d = Abstract!Distance(program, base_address, line)
  <2>1. TargetAddress(l.target) = Abstract!Value(program, base_address, l.target)
    BY <1>1, <1>2, RecordedTarget DEF AssemblerInv
  <2>2. address = Abstract!Offset(program, line)
    BY OffsetIsBytes DEF AssemblerInv, AddressInv
  <2>3. QED
    BY <2>1, <2>2 DEF Abstract!Distance
<1>6. TargetOffset(l.target, l.field) = ((d % AddrMod) \div 4) % l.field
    BY DEF TargetOffset, WORD_SIZE_BYTES
<1> HIDE DEF d
<1>7. TargetOffset(l.target, l.field) = (d \div 4) % l.field
    BY <1>2, <1>4, <1>6, FieldOfDistance
<1>8. QED
    BY <1>5, <1>7 DEF Abstract!Translated, Abstract!WORD_SIZE_BYTES

(* What has been read is recorded, what has been assembled is translated.  *)
Scanned == IF phase \in {"opening", "first"} THEN line ELSE Len(program) + 1

RecordedInv ==
    phase \in {"opening", "first", "second", "writing", "done"} =>
        Records(symbol_table, program, base_address, Scanned)

\* The lines up to one are translated, one after the other.
TranslatedUpTo(m, p, b, n) ==
    /\ \A i \in DOMAIN p : i < n => ~Abstract!Refused(p, b, i)
    /\ \A i \in Abstract!CodeLines(p) :
          i < n => m[Bytes(p, i)] = Abstract!Translated(p, b, i)
    /\ \A a \in Offsets(Bytes(p, n)) :
          \E i \in Abstract!CodeLines(p) : i < n /\ Bytes(p, i) = a

TranslatedInv ==
    phase \in {"second", "writing", "done"} =>
        TranslatedUpTo(memory, program, base_address, line)

LEMMA CodeLine ==
    ASSUME NEW p, NEW i
    PROVE  i \in Abstract!CodeLines(p) <=>
               i \in DOMAIN p /\ p[i].kind \notin NoCodeKinds
    BY DEF Abstract!CodeLines, Abstract!NoCodeKinds, NoCodeKinds

\* A line without code, and a line of code written at its place.
LEMMA NoCodeTranslated ==
    ASSUME NEW p \in Seq(Line), NEW n \in DOMAIN p, p[n].kind \in NoCodeKinds,
           NEW b, NEW m, TranslatedUpTo(m, p, b, n)
    PROVE  TranslatedUpTo(m, p, b, n + 1)
<1>1. DOMAIN p \subseteq Nat
    OBVIOUS
<1>2. ~Abstract!Refused(p, b, n)
    BY DEF Abstract!Refused, NoCodeKinds
<1>3. Bytes(p, n + 1) = Bytes(p, n)
    BY NextBytes
<1>4. \A i \in DOMAIN p : i < n + 1 <=> i < n \/ i = n
    BY <1>1
<1>5. \A i \in Abstract!CodeLines(p) : i \in DOMAIN p /\ i # n
    BY CodeLine
<1>6. QED
    BY <1>2, <1>3, <1>4, <1>5 DEF TranslatedUpTo

LEMMA LastPlace ==
    ASSUME NEW s \in Nat, s % 4 = 0, NEW a \in Offsets(s + 4)
    PROVE  a \in Offsets(s) \/ a = s
<1>1. a \in Nat /\ a < s + 4 /\ a % 4 = 0
    BY DEF Offsets, WORD_SIZE_BYTES
<1>2. a <= s
    BY <1>1
<1>3. QED
    BY <1>1, <1>2 DEF Offsets, WORD_SIZE_BYTES

LEMMA CodeTranslated ==
    ASSUME NEW p \in Seq(Line), NEW n \in DOMAIN p, p[n].kind \notin NoCodeKinds,
           NEW b, NEW m, TranslatedUpTo(m, p, b, n), ~Abstract!Refused(p, b, n),
           NEW u, u = [a \in DOMAIN m |-> IF a = Bytes(p, n)
                                         THEN Abstract!Translated(p, b, n)
                                         ELSE m[a]],
           Offsets(Bytes(p, n + 1)) \subseteq DOMAIN m
    PROVE  TranslatedUpTo(u, p, b, n + 1)
<1>1. DOMAIN p \subseteq Nat /\ n \in Nat /\ n + 1 \in Nat
    OBVIOUS
<1>2. Bytes(p, n + 1) = Bytes(p, n) + 4
    BY NextBytes
<1>3. \A i \in DOMAIN p : i < n + 1 <=> i < n \/ i = n
    BY <1>1
<1>4. \A i \in Abstract!CodeLines(p) : i \in DOMAIN p
    BY CodeLine
<1>5. Bytes(p, n) \in Nat /\ Bytes(p, n) % 4 = 0
    BY <1>1, BytesAreWords
<1>6. ASSUME NEW i \in Abstract!CodeLines(p), i < n
      PROVE  Bytes(p, i) \in Offsets(Bytes(p, n + 1)) /\ Bytes(p, i) # Bytes(p, n)
  <2>1. i \in DOMAIN p /\ p[i].kind \notin NoCodeKinds /\ i \in Nat
    BY <1>1, CodeLine
  <2>2. Bytes(p, i) + 4 <= Bytes(p, n)
    BY <1>1, <1>6, <2>1, BytesApart
  <2>3. Bytes(p, i) \in Nat /\ Bytes(p, i) % 4 = 0
    BY <2>1, BytesAreWords
  <2>4. QED
    BY <1>2, <1>5, <2>2, <2>3 DEF Offsets, WORD_SIZE_BYTES
<1>7. Bytes(p, n) \in Offsets(Bytes(p, n + 1))
    BY <1>2, <1>5 DEF Offsets, WORD_SIZE_BYTES
<1>8. ASSUME NEW i \in Abstract!CodeLines(p), i < n + 1
      PROVE  u[Bytes(p, i)] = Abstract!Translated(p, b, i)
  <2>1. CASE i < n
    <3>1. Bytes(p, i) \in DOMAIN m /\ Bytes(p, i) # Bytes(p, n)
      BY <1>6, <2>1
    <3>2. u[Bytes(p, i)] = m[Bytes(p, i)]
      BY <3>1
    <3>3. QED
      BY <2>1, <3>2 DEF TranslatedUpTo
  <2>2. CASE i = n
    BY <1>7, <2>2
  <2>3. QED
    BY <1>3, <1>4, <1>8, <2>1, <2>2
<1>9. ASSUME NEW a \in Offsets(Bytes(p, n + 1))
      PROVE  \E i \in Abstract!CodeLines(p) : i < n + 1 /\ Bytes(p, i) = a
  <2>1. CASE a \in Offsets(Bytes(p, n))
    BY <1>3, <1>4, <2>1 DEF TranslatedUpTo
  <2>2. CASE a = Bytes(p, n)
    <3>1. n \in Abstract!CodeLines(p) /\ n < n + 1
      BY <1>1, CodeLine
    <3>2. QED
      BY <2>2, <3>1
  <2>3. a \in Offsets(Bytes(p, n)) \/ a = Bytes(p, n)
    BY <1>2, <1>5, LastPlace
  <2>4. QED
    BY <2>1, <2>2, <2>3
<1>10. \A i \in DOMAIN p : i < n + 1 => ~Abstract!Refused(p, b, i)
    BY <1>3 DEF TranslatedUpTo
<1>11. QED
    BY <1>8, <1>9, <1>10 DEF TranslatedUpTo

-----------------------------------------------------------------------------
(* The two passes, when no symbols collide.                                *)

TranslationInv == RecordedInv /\ TranslatedInv

LEMMA InitialTranslation == Init => TranslationInv
<1> SUFFICES ASSUME Init PROVE TranslationInv
    OBVIOUS
<1>1. program \in Seq(Line)
    BY SourceAssumption DEF Init
<1>2. QED
    BY <1>1, NothingRecorded
    DEF Init, TranslationInv, RecordedInv, TranslatedInv, Scanned

LEMMA TranslationInductive ==
    ASSUME NoCollisions
    PROVE  AssemblerInv /\ TranslationInv /\ [Next]_vars => TranslationInv'
<1> SUFFICES ASSUME AssemblerInv, TranslationInv, [Next]_vars
             PROVE  TranslationInv'
    OBVIOUS
<1> USE DEF TranslationInv
<1>0. /\ program \in Seq(Line) /\ Len(program) \in Nat
      /\ DOMAIN program = 1 .. Len(program)
      /\ line \in Nat \ {0} /\ base_address \in Address /\ base_address \in Int
    BY InputFacts DEF AssemblerInv, Address
<1>1. ASSUME phase' \in {"refused", "failed"} PROVE TranslationInv'
    BY <1>1 DEF RecordedInv, TranslatedInv
<1>2. ASSUME UNCHANGED <<input, line, address, symbol_table, memory>>,
             \/ phase = "opening" /\ phase' = "first"
             \/ phase = "second" /\ phase' = "writing"
             \/ phase = "writing" /\ phase' = "done"
             \/ phase' = phase
      PROVE  TranslationInv'
    BY <1>2 DEF RecordedInv, TranslatedInv, Scanned, input
<1>3. CASE build_symbol_table
  <2>1. /\ line <= Len(program) /\ line \in DOMAIN program /\ line' = line + 1
        /\ phase = "first" /\ UNCHANGED <<program, base_address, phase>>
    BY <1>0, <1>3 DEF build_symbol_table, Reading, input
  <2>2. Records(symbol_table, program, base_address, line)
    BY <2>1 DEF RecordedInv, Scanned
  <2>3. CASE Reading("first", {"label"})
    <3> DEFINE u == hashmap_set(symbol_table, program[line].symbol,
                                (base_address + address) % AddrMod)
    <3>1. program[line].kind = "label" /\ symbol_table' = u
      BY <1>3, <2>3 DEF build_symbol_table, Reading
    <3>2. address = Bytes(program, line)
      BY DEF AssemblerInv, AddressInv
    <3>3. Records(u, program, base_address, line + 1)
      BY <1>0, <2>1, <2>2, <3>1, <3>2, LabelLine DEF AssemblerInv
    <3> HIDE DEF u
    <3>4. Records(symbol_table', program, base_address, line + 1)
      BY <3>1, <3>3
    <3>5. QED
      BY <2>1, <3>4 DEF RecordedInv, TranslatedInv, Scanned
  <2>4. CASE ~Reading("first", {"label"})
    <3>1. program[line].kind # "label" /\ symbol_table' = symbol_table
      BY <1>3, <2>1, <2>4 DEF build_symbol_table, Reading
    <3>2. Records(symbol_table, program, base_address, line + 1)
      BY <1>0, <2>1, <2>2, <3>1, OtherLine
    <3>3. QED
      BY <2>1, <3>1, <3>2 DEF RecordedInv, TranslatedInv, Scanned
  <2>5. QED
    BY <2>3, <2>4
<1>4. CASE StartSecondPass
  <2>1. /\ phase = "first" /\ line = Len(program) + 1
        /\ line' = 1 /\ phase' = "second"
        /\ UNCHANGED <<program, base_address, symbol_table>>
    BY <1>0, <1>4 DEF StartSecondPass, AssemblerInv, TypeOK, input
  <2>2. RecordedInv'
    BY <2>1 DEF RecordedInv, Scanned
  <2>3. Offsets(Bytes(program, 1)) = {}
    BY <1>0, NoBytesBefore DEF Offsets
  <2>4. \A i \in Abstract!CodeLines(program) : i \in DOMAIN program
    BY CodeLine
  <2>5. \A i \in DOMAIN program : ~(i < 1)
    BY <1>0
  <2>6. TranslatedUpTo(memory', program, base_address, 1)
    BY <2>3, <2>4, <2>5 DEF TranslatedUpTo
  <2>7. QED
    BY <2>1, <2>2, <2>6 DEF TranslatedInv
<1>5. CASE SkipLine
  <2>1. /\ line \in DOMAIN program /\ program[line].kind \in NoCodeKinds
        /\ phase = "second" /\ line' = line + 1
        /\ UNCHANGED <<program, base_address, phase, symbol_table, memory>>
    BY <1>0, <1>5 DEF SkipLine, Reading, input
  <2>2. TranslatedUpTo(memory, program, base_address, line + 1)
    BY <1>0, <2>1, NoCodeTranslated DEF TranslatedInv
  <2>3. QED
    BY <2>1, <2>2 DEF RecordedInv, TranslatedInv, Scanned
\* A line of code is assembled to its translation.
<1>6. ASSUME phase = "second", line <= Len(program),
             program[line].kind \notin NoCodeKinds,
             ~Abstract!Refused(program, base_address, line),
             Emit(Abstract!Translated(program, base_address, line))
      PROVE  TranslationInv'
  <2> DEFINE w == Abstract!Translated(program, base_address, line)
  <2>1. /\ line \in DOMAIN program /\ line' = line + 1
        /\ UNCHANGED <<program, base_address, phase, symbol_table>>
        /\ address = Bytes(program, line)
    BY <1>0, <1>6 DEF Emit, input, AssemblerInv, AddressInv
  <2>2. DOMAIN memory = Offsets(Size) /\ address \in Offsets(Size)
    BY <1>6, PlaceInBuffer DEF AssemblerInv, BufferInv
  <2>3. memory' = [a \in DOMAIN memory |->
                      IF a = Bytes(program, line) THEN w ELSE memory[a]]
    <3>1. DOMAIN memory \cup {address} = DOMAIN memory
      BY <2>2
    <3>2. QED
      BY <1>6, <2>1, <3>1 DEF Emit
  <2>4. Offsets(Bytes(program, line + 1)) \subseteq DOMAIN memory
    <3>1. line + 1 \in Nat /\ Len(program) + 1 \in Nat /\ line + 1 <= Len(program) + 1
      BY <1>0, <1>6
    <3>2. Bytes(program, line + 1) <= Size /\ Bytes(program, line + 1) \in Nat
          /\ Size \in Nat
      BY <1>0, <3>1, BytesGrow, BytesAreWords DEF Size
    <3> HIDE DEF Size
    <3>3. QED
      BY <2>2, <3>2 DEF Offsets
  <2>5. TranslatedUpTo(memory, program, base_address, line)
    BY <1>6 DEF TranslatedInv
  <2>6. TranslatedUpTo(memory', program, base_address, line + 1)
    <3> DEFINE u == [a \in DOMAIN memory |->
                        IF a = Bytes(program, line) THEN w ELSE memory[a]]
    <3>1. TranslatedUpTo(u, program, base_address, line + 1)
      BY <1>0, <1>6, <2>1, <2>4, <2>5, CodeTranslated
    <3> HIDE DEF u
    <3>2. memory' = u
      BY <2>3 DEF u
    <3>3. QED
      BY <3>1, <3>2
  <2>7. QED
    BY <1>6, <2>1, <2>6 DEF RecordedInv, TranslatedInv, Scanned
<1>7. CASE AssemblePlain
  <2>1. phase = "second" /\ line <= Len(program) /\ program[line].kind = "plain"
    BY <1>7 DEF AssemblePlain, Reading
  <2>2. Abstract!Translated(program, base_address, line)
            = PlainWord(program[line].word)
    BY <2>1 DEF Abstract!Translated, Abstract!PlainWord, PlainWord
  <2>3. ~Abstract!Refused(program, base_address, line)
    BY <2>1 DEF Abstract!Refused
  <2>4. QED
    BY <1>6, <1>7, <2>1, <2>2, <2>3 DEF AssemblePlain, NoCodeKinds
<1>8. ASSUME phase = "second", line <= Len(program),
             program[line].kind \in {"branch", "literal"}
      PROVE  /\ Found(program[line].target) =>
                    [word |-> program[line].word, field |-> program[line].field,
                     simm |-> TargetOffset(program[line].target,
                                           program[line].field)]
                        = Abstract!Translated(program, base_address, line)
             /\ Abstract!Refused(program, base_address, line)
                    <=> \/ ~Found(program[line].target)
                        \/ /\ program[line].kind = "branch"
                           /\ ~IsAligned(program[line].target)
  <2> DEFINE t == program[line].target
  <2>1. Records(symbol_table, program, base_address, Len(program) + 1)
    BY <1>8 DEF RecordedInv, Scanned
  <2>2. program[line] \in Line /\ line \in DOMAIN program
    BY <1>0, <1>8
  <2>3. t \in Target
    BY <1>8, <2>2, LineFields
  <2>4. /\ Found(t) <=> ~(/\ Abstract!IsSymbol(t)
                          /\ Abstract!Declarations(program, t.symbol) = {})
        /\ Found(t) =>
              TargetAddress(t) = Abstract!Value(program, base_address, t)
    BY <1>0, <2>1, <2>3, RecordedTarget DEF AssemblerInv
  <2>5. Found(t) =>
            [word |-> program[line].word, field |-> program[line].field,
             simm |-> TargetOffset(t, program[line].field)]
                = Abstract!Translated(program, base_address, line)
    BY <1>8, <2>1, TranslatedTarget
  <2>6. Found(t) => (IsAligned(t)
            <=> Abstract!Value(program, base_address, t) % 4 = 0)
    BY <2>4 DEF IsAligned, WORD_SIZE_BYTES
  <2>7. QED
    BY <1>8, <2>4, <2>5, <2>6 DEF Abstract!Refused, Abstract!WORD_SIZE_BYTES
<1>9. CASE AssembleBranch \/ AssembleLiteral
  <2> DEFINE l == program[line]
  <2>1. /\ phase = "second" /\ line <= Len(program)
        /\ l.kind \in {"branch", "literal"} /\ Found(l.target)
        /\ l.kind = "branch" => IsAligned(l.target)
        /\ Emit([word |-> l.word, field |-> l.field,
                 simm |-> TargetOffset(l.target, l.field)])
    BY <1>9 DEF AssembleBranch, AssembleLiteral, Reading
  <2>2. QED
    BY <1>6, <1>8, <2>1 DEF NoCodeKinds
<1>10. CASE OpenInput \/ write_file \/ EndSecondPass
    BY <1>1, <1>2, <1>10 DEF OpenInput, write_file, EndSecondPass
<1>11. CASE LineTooLong \/ InvalidLine \/ SymbolNotFound \/ NotWordAligned
    BY <1>1, <1>11 DEF LineTooLong, InvalidLine, SymbolNotFound, NotWordAligned,
                       Refuse
<1>12. CASE Terminated \/ UNCHANGED vars
    BY <1>2, <1>12 DEF Terminated, vars, input
<1>13. QED
    BY <1>3, <1>4, <1>5, <1>7, <1>9, <1>10, <1>11, <1>12 DEF Next

LEMMA TranslationInvariant ==
    ASSUME NoCollisions PROVE Spec => []TranslationInv
<1>1. AssemblerInv /\ TranslationInv /\ [Next]_vars => TranslationInv'
    BY TranslationInductive
<1>2. QED
    BY <1>1, InitialTranslation, AssemblerInvariant, PTL DEF Spec

\* The buffer is the translation once every line has been assembled.
LEMMA BufferIsTranslation ==
    ASSUME AssemblerInv, TranslationInv, phase \in {"writing", "done"}
    PROVE  /\ memory = Abstract!Translation(program, base_address)
           /\ \A i \in DOMAIN program :
                 ~Abstract!Refused(program, base_address, i)
<1> DEFINE p == program
           code == Abstract!CodeLines(p)
<1>1. p \in Seq(Line) /\ Len(p) \in Nat /\ DOMAIN p = 1 .. Len(p)
      /\ line = Len(p) + 1
    BY InputFacts DEF AssemblerInv, AddressInv
<1>2. memory \in [Offsets(Size) -> Word \cup {Unwritten}]
    BY DEF AssemblerInv, BufferInv
<1>3. TranslatedUpTo(memory, p, base_address, line) /\ Size = Bytes(p, line)
    BY <1>1 DEF TranslationInv, TranslatedInv, Size
<1>4. \A i \in DOMAIN p : i < line /\ i \in Nat
    BY <1>1
<1>5. \A i \in code : i \in DOMAIN p /\ p[i].kind \notin NoCodeKinds
    BY CodeLine
<1>6. ASSUME NEW i \in code
      PROVE  Bytes(p, i) \in Offsets(Size)
             /\ memory[Bytes(p, i)] = Abstract!Translated(p, base_address, i)
  <2>1. i \in DOMAIN p /\ i < line /\ line \in Nat /\ i \in Nat
    BY <1>1, <1>4, <1>5
  <2>2. Bytes(p, i) + 4 <= Size
    BY <1>1, <1>3, <1>5, <2>1, BytesApart
  <2>3. Bytes(p, i) \in Nat /\ Bytes(p, i) % 4 = 0 /\ Size \in Nat
    BY <1>1, <1>3, <2>1, BytesAreWords
  <2>4. Bytes(p, i) \in Offsets(Size)
    BY <2>2, <2>3 DEF Offsets, WORD_SIZE_BYTES
  <2>5. QED
    BY <1>3, <2>1, <2>4 DEF TranslatedUpTo
<1>7. ASSUME NEW i \in code, NEW j \in code, Bytes(p, i) = Bytes(p, j)
      PROVE  i = j
  <2>1. i \in Nat /\ j \in Nat
    BY <1>4, <1>5
  <2>2. Bytes(p, i) \in Nat
    BY <1>1, <2>1, BytesAreWords
  <2>3. ~(i < j) /\ ~(j < i)
    BY <1>1, <1>5, <1>7, <2>1, <2>2, BytesApart
  <2>4. QED
    BY <2>1, <2>3
<1>8. \A i : Abstract!Offset(p, i) = Bytes(p, i)
    BY OffsetIsBytes
<1>9. {Abstract!Offset(p, i) : i \in code} = Offsets(Size)
    BY <1>3, <1>6, <1>8 DEF TranslatedUpTo
<1>10. ASSUME NEW a \in Offsets(Size)
       PROVE  memory[a] = Abstract!Translated(p, base_address,
                              CHOOSE i \in code : Abstract!Offset(p, i) = a)
  <2>1. PICK i \in code : Bytes(p, i) = a
    BY <1>3 DEF TranslatedUpTo
  <2>2. \A j \in code : Abstract!Offset(p, j) = a <=> j = i
    BY <1>7, <1>8, <2>1
  <2>3. (CHOOSE j \in code : Abstract!Offset(p, j) = a) = i
    BY <2>2
  <2>4. QED
    BY <1>6, <2>1, <2>3
<1>11. memory = Abstract!Translation(p, base_address)
    BY <1>2, <1>9, <1>10 DEF Abstract!Translation
<1>12. QED
    BY <1>3, <1>4, <1>11 DEF TranslatedUpTo

\* Without collisions the two passes (assemble.c:166) are the translation of
\* the source as a whole, or its refusal as a whole.
THEOREM AssemblyIsImplemented ==
    ASSUME CollisionFree
    PROVE  Spec => ImplementsAssembly
<1>0. NoCollisions
    BY DEF CollisionFree, NoCollisions, Alone
<1>1. Init => Abstract!Init
    BY DEF Init, Abstract!Init, Result
<1>2. AssemblerInv /\ TranslationInv /\ [Next]_vars
          => [Abstract!Next]_(Abstract!vars)
  <2> SUFFICES ASSUME AssemblerInv, TranslationInv, [Next]_vars
               PROVE  [Abstract!Next]_(Abstract!vars)
    OBVIOUS
  <2>0. program \in Seq(Line) /\ DOMAIN program = 1 .. Len(program)
        /\ Len(program) \in Nat /\ line \in Nat \ {0}
    BY InputFacts DEF AssemblerInv
  <2>1. ASSUME UNCHANGED <<program, base_address>>,
               phase \in {"opening", "first", "second", "writing"},
               phase' \in {"opening", "first", "second", "writing"}
        PROVE  UNCHANGED Abstract!vars
    BY <2>1 DEF Abstract!vars, Result
  <2>2. ASSUME Refuse, phase \in {"first", "second"},
               line <= Len(program),
               Abstract!Refused(program, base_address, line)
        PROVE  Abstract!Refuse
    <3>1. line \in DOMAIN program
      BY <2>0, <2>2
    <3>2. Result = <<"none">> /\ Result' = <<"refused">>
          /\ UNCHANGED <<program, base_address>>
      BY <2>2 DEF Refuse, Result, input
    <3>3. QED
      BY <2>2, <3>1, <3>2 DEF Abstract!Refuse
  <2>3. ASSUME phase \in {"opening", "writing"}, phase' = "failed",
               UNCHANGED <<program, base_address>>
        PROVE  Abstract!Fail
    BY <2>3 DEF Abstract!Fail, Result
  <2>4. CASE OpenInput
    BY <2>1, <2>3, <2>4 DEF OpenInput, input, Abstract!Next
  <2>5. CASE LineTooLong \/ InvalidLine
    <3>1. Abstract!Refused(program, base_address, line)
      BY <2>5 DEF LineTooLong, InvalidLine, Reading, Abstract!Refused
    <3>2. QED
      BY <2>2, <2>5, <3>1 DEF LineTooLong, InvalidLine, Reading, Abstract!Next
  <2>6. CASE SymbolNotFound \/ NotWordAligned
    <3> DEFINE t == program[line].target
    <3>1. /\ phase = "second" /\ line <= Len(program) /\ Refuse
          /\ program[line].kind \in {"branch", "literal"}
          /\ \/ ~Found(t)
             \/ program[line].kind = "branch" /\ Found(t) /\ ~IsAligned(t)
      BY <2>6 DEF SymbolNotFound, NotWordAligned, Reading
    <3>2. t \in Target
      BY <2>0, <3>1, LineFields
    <3>3. Records(symbol_table, program, base_address, Len(program) + 1)
      BY <3>1 DEF TranslationInv, RecordedInv, Scanned
    <3>4. /\ Found(t) <=> ~(/\ Abstract!IsSymbol(t)
                            /\ Abstract!Declarations(program, t.symbol) = {})
          /\ Found(t) =>
                TargetAddress(t) = Abstract!Value(program, base_address, t)
      BY <1>0, <2>0, <3>2, <3>3, RecordedTarget DEF AssemblerInv
    <3>5. Abstract!Refused(program, base_address, line)
      BY <3>1, <3>4
      DEF Abstract!Refused, IsAligned, WORD_SIZE_BYTES, Abstract!WORD_SIZE_BYTES
    <3>6. QED
      BY <2>2, <3>1, <3>5 DEF Abstract!Next
  <2>7. CASE build_symbol_table \/ SkipLine \/ StartSecondPass \/ EndSecondPass
    BY <2>1, <2>7 DEF build_symbol_table, SkipLine, StartSecondPass,
                      EndSecondPass, Reading, input
  <2>8. CASE AssemblePlain \/ AssembleBranch \/ AssembleLiteral
    BY <2>1, <2>8 DEF AssemblePlain, AssembleBranch, AssembleLiteral, Emit,
                      Reading, input
  <2>9. CASE write_file
    <3>1. phase = "writing" /\ UNCHANGED <<program, base_address, memory>>
      BY <2>9 DEF write_file, input
    <3>2. CASE phase' = "failed"
      BY <2>3, <3>1, <3>2 DEF Abstract!Next
    <3>3. CASE phase' = "done" /\ output' = <<memory>>
      <4>1. Result = <<"none">> /\ Result' = <<"done", memory>>
        BY <3>1, <3>3 DEF Result
      <4>2. Abstract!Translate
        BY <3>1, <4>1, BufferIsTranslation DEF Abstract!Translate
      <4>3. QED
        BY <4>2 DEF Abstract!Next
    <3>4. QED
      BY <2>9, <3>2, <3>3 DEF write_file
  <2>10. CASE Terminated \/ UNCHANGED vars
    BY <2>10 DEF Terminated, vars, Abstract!vars, Result
  <2>11. QED
    BY <2>4, <2>5, <2>6, <2>7, <2>8, <2>9, <2>10 DEF Next
<1>3. Spec => []TranslationInv
    BY <1>0, TranslationInvariant
<1>4. QED
    BY <1>1, <1>2, <1>3, AssemblerInvariant, PTL
    DEF Spec, ImplementsAssembly, Abstract!Spec

-----------------------------------------------------------------------------
(* Branches and load literals.                                             *)

\* Numbers of the range of a field that differ by a multiple are the same.
LEMMA SameField ==
    ASSUME NEW h \in Nat \ {0}, NEW m \in -h .. h - 1, NEW n \in -h .. h - 1,
           NEW z \in Int, m - n = (2 * h) * z
    PROVE  m = n
<1>1. CASE z >= 1
    BY <1>1, Z3
<1>2. CASE z <= -1
    BY <1>2, Z3
<1>3. CASE z = 0
    BY <1>3
<1>4. QED
    BY <1>1, <1>2, <1>3

\* An address is a sum modulo 2^64 exactly when the difference is 0 modulo it.
LEMMA SameAddress ==
    ASSUME NEW m \in Nat \ {0}, NEW x \in Int, NEW v \in 0 .. m - 1
    PROVE  x % m = v <=> (v - x) % m = 0
<1> DEFINE q == x \div m
           r == x % m
<1>1. x = m * q + r /\ r \in 0 .. m - 1 /\ q \in Int
    BY DivisionParts
<1> HIDE DEF q, r
<1>2. v - x = (v - r) + m * (-q) /\ -q \in Int /\ v - r \in Int
    BY <1>1, Z3
<1>3. (v - x) % m = (v - r) % m
    BY <1>2, ModShift
<1>4. (v - r) % m = IF v >= r THEN v - r ELSE v - r + m
    BY <1>1, DifferenceMod
<1>5. QED
    BY <1>1, <1>3, <1>4 DEF r

\* A multiple of the modulus, with its quotient.
LEMMA NoRemainder ==
    ASSUME NEW m \in Nat \ {0}, NEW x \in Int
    PROVE  x % m = 0 <=> \E k \in Int : x = m * k
<1>1. ASSUME x % m = 0 PROVE \E k \in Int : x = m * k
  <2>1. x = m * (x \div m) + (x % m) /\ x \div m \in Int
    BY DivisionParts
  <2> DEFINE k == x \div m
  <2> HIDE DEF k
  <2>2. k \in Int /\ x = m * k + (x % m)
    BY <2>1 DEF k
  <2>3. x = m * k
    <3>1. m * k \in Int
      BY <2>2
    <3>2. QED
      BY <1>1, <2>2, <3>1
  <2>4. QED
    BY <2>2, <2>3
<1>2. ASSUME NEW k \in Int, x = m * k PROVE x % m = 0
  <2>1. (m * k + 0) % m = 0
    BY DivisionUnique
  <2>2. m * k + 0 = m * k
    BY <1>2
  <2>3. QED
    BY <1>2, <2>1, <2>2
<1>3. QED
    BY <1>1, <1>2

\* What the emulator adds for a field is the distance exactly when some
\* number of the range of the field is.
LEMMA FieldReaches ==
    ASSUME NEW f \in FieldMods, NEW x \in Int, NEW v \in Address
    PROVE  LET d == v - x
               s == (d \div 4) % f
               n == IF s < f \div 2 THEN s ELSE s - f
           IN  (x + n * 4) % AddrMod = v
                   <=> /\ d % 4 = 0
                       /\ \E m \in -(f \div 2) .. f \div 2 - 1 :
                             (d - m * 4) % AddrMod = 0
<1> DEFINE h == f \div 2
           d == v - x
           e == d \div 4
           r == d % 4
           c == e \div f
           s == e % f
           n == IF s < h THEN s ELSE s - f
           z == IF s < h THEN c ELSE c + 1
<1>1. f \in Nat \ {0} /\ AddrMod \in Nat \ {0} /\ f % 2 = 0
      /\ AddrMod % (f * 4) = 0 /\ f * 4 \in Nat \ {0}
    BY FieldFacts
<1>2. f = 2 * h /\ h \in Nat \ {0}
    BY <1>1
<1>3. d \in Int /\ v \in 0 .. AddrMod - 1
    BY DEF Address
<1> HIDE DEF d
<1>4. d = 4 * e + r /\ r \in 0 .. 3 /\ e \in Int
    BY <1>3, DivisionParts
<1> HIDE DEF e, r
<1>5. e = f * c + s /\ s \in 0 .. f - 1 /\ c \in Int
    BY <1>1, <1>4, DivisionParts
<1> HIDE DEF c, s, h
<1>6. e = f * z + n /\ n \in -h .. h - 1 /\ z \in Int
    BY <1>1, <1>2, <1>5, Z3
<1> HIDE DEF n, z
<1>7. PICK q \in Int : AddrMod = (f * 4) * q
  <2>1. AddrMod \in Int
    BY <1>1
  <2>2. QED
    BY <1>1, <2>1, NoRemainder
<1>8. (x + n * 4) % AddrMod = v <=> (d - n * 4) % AddrMod = 0
  <2> DEFINE y == x + n * 4
  <2>1. y \in Int /\ n \in Int
    BY <1>2, <1>6
  <2>2. v - y = d - n * 4
    BY <1>3, <2>1 DEF d
  <2> HIDE DEF y
  <2>3. y % AddrMod = v <=> (v - y) % AddrMod = 0
    BY <1>1, <1>3, <2>1, SameAddress
  <2>4. QED
    BY <2>2, <2>3 DEF y
<1>9. ASSUME (d - n * 4) % AddrMod = 0 PROVE d % 4 = 0
  <2>1. d - n * 4 \in Int /\ n \in Int
    BY <1>2, <1>3, <1>6
  <2>2. PICK k \in Int : d - n * 4 = AddrMod * k
    BY <1>1, <1>9, <2>1, NoRemainder
  <2>3. d = 4 * (n + f * (q * k))
    BY <1>1, <1>3, <1>7, <2>1, <2>2, Z3
  <2>4. n + f * (q * k) \in Int
    BY <1>1, <1>7, <2>1, Z3
  <2>5. QED
    BY <1>3, <2>3, <2>4, NoRemainder
<1>10. ASSUME d % 4 = 0, NEW m \in -h .. h - 1, (d - m * 4) % AddrMod = 0
       PROVE  m = n
  <2>1. d - m * 4 \in Int /\ m \in Int /\ n \in Int
    BY <1>2, <1>3, <1>6
  <2>2. PICK k \in Int : d - m * 4 = AddrMod * k
    BY <1>1, <1>10, <2>1, NoRemainder
  <2>3. r = 0
    BY <1>10 DEF r
  <2>4. e = m + f * (q * k)
    BY <1>1, <1>4, <1>7, <2>1, <2>2, <2>3, Z3
  <2>5. m - n = f * (z - q * k) /\ z - q * k \in Int
    BY <1>1, <1>6, <1>7, <2>1, <2>4, Z3
  <2>6. m - n = (2 * h) * (z - q * k)
    BY <1>2, <2>5
  <2> DEFINE y == z - q * k
  <2> HIDE DEF y
  <2>7. y \in Int /\ m - n = (2 * h) * y
    BY <2>5, <2>6 DEF y
  <2>8. QED
    BY <1>2, <1>6, <2>7, SameField
<1>11. (x + n * 4) % AddrMod = v
           <=> d % 4 = 0 /\ \E m \in -h .. h - 1 : (d - m * 4) % AddrMod = 0
    BY <1>6, <1>8, <1>9, <1>10
<1>12. QED
    BY <1>11 DEF n, s, e, d, h

\* BranchesReachLabels (assemble_branch.c:41,56, assemble_dt.c:90): when no
\* symbols collide, the program at its base address goes where its source
\* says exactly when the distance fits the field.
THEOREM BranchesReachLabelsHolds ==
    ASSUME CollisionFree
    PROVE  Spec => []BranchesReachLabels
<1>0. NoCollisions
    BY DEF CollisionFree, NoCollisions, Alone
<1>1. AssemblerInv /\ TranslationInv => BranchesReachLabels
  <2> SUFFICES ASSUME AssemblerInv, TranslationInv, phase = "done",
                      NEW i \in DOMAIN program,
                      program[i].kind \in {"branch", "literal"}
               PROVE  LET a == Abstract!Offset(program, i)
                          f == program[i].field
                          d == Abstract!Distance(program, base_address, i)
                          reaches == Reached(a)
                                       = Abstract!Value(program, base_address,
                                                        program[i].target)
                      IN  reaches <=>
                            /\ d % WORD_SIZE_BYTES = 0
                            /\ \E n \in -(f \div 2) .. f \div 2 - 1 :
                                  (d - n * WORD_SIZE_BYTES) % AddrMod = 0
    BY DEF BranchesReachLabels
  <2> DEFINE a == Bytes(program, i)
             f == program[i].field
             t == program[i].target
             v == Abstract!Value(program, base_address, t)
             x == base_address + a
             d == v - x
             s == (d \div 4) % f
  <2>1. /\ program \in Seq(Line) /\ i \in Nat /\ i < line
        /\ program[i] \in Line /\ base_address \in Int
    BY InputFacts DEF AssemblerInv, AddressInv, Address
  <2>2. f \in FieldMods /\ t \in Target
    BY <2>1, LineFields
  <2>3. a \in Int
    BY <2>1, BytesAreWords
  <2>4. v \in Address
    <3>1. Records(symbol_table, program, base_address, Len(program) + 1)
      BY DEF TranslationInv, RecordedInv, Scanned
    <3>2. ~Abstract!Refused(program, base_address, i)
      BY BufferIsTranslation
    <3>3. /\ Found(t) <=> ~(/\ Abstract!IsSymbol(t)
                            /\ Abstract!Declarations(program, t.symbol) = {})
          /\ Found(t) =>
                TargetAddress(t) = Abstract!Value(program, base_address, t)
      BY <1>0, <2>1, <2>2, <3>1, RecordedTarget DEF AssemblerInv
    <3>4. Found(t)
      BY <3>2, <3>3 DEF Abstract!Refused
    <3>5. TargetAddress(t) \in Address
      BY <2>2, <3>4, TargetIsAddress DEF AssemblerInv
    <3>6. QED
      BY <3>3, <3>4, <3>5
  <2>5. Abstract!Offset(program, i) = a
    BY OffsetIsBytes
  <2>6. Abstract!Distance(program, base_address, i) = d
    BY <2>5 DEF Abstract!Distance
  <2>7. memory[a] = Abstract!Translated(program, base_address, i)
    <3>1. TranslatedUpTo(memory, program, base_address, line)
      BY DEF TranslationInv, TranslatedInv
    <3>2. i \in Abstract!CodeLines(program)
      BY CodeLine DEF NoCodeKinds
    <3>3. QED
      BY <2>1, <3>1, <3>2 DEF TranslatedUpTo
  <2>8. memory[a].field = f /\ memory[a].simm = s
    BY <2>6, <2>7 DEF Abstract!Translated, Abstract!WORD_SIZE_BYTES
  <2>9. output[1] = memory
    BY DEF AssemblerInv, OutputInv
  <2>10. Reached(a) = (x + (IF s < f \div 2 THEN s ELSE s - f) * 4) % AddrMod
    BY <2>8, <2>9 DEF Reached, SignExtended, WORD_SIZE_BYTES
  <2>11. x \in Int
    BY <2>1, <2>3
  <2> HIDE DEF x, v, f, a
  <2>12. (x + (IF s < f \div 2 THEN s ELSE s - f) * 4) % AddrMod = v
            <=> /\ d % 4 = 0
                /\ \E m \in -(f \div 2) .. f \div 2 - 1 :
                      (d - m * 4) % AddrMod = 0
    BY <2>2, <2>4, <2>11, FieldReaches
  <2>13. QED
    BY <2>5, <2>6, <2>10, <2>12 DEF WORD_SIZE_BYTES, v, f, t
<1>2. Spec => []TranslationInv
    BY <1>0, TranslationInvariant
<1>3. QED
    BY <1>1, <1>2, AssemblerInvariant, PTL

-----------------------------------------------------------------------------
(***************************************************************************)
(* The source file: read_file takes it apart by a recursive function, whose*)
(* values are known by induction from the end of the file.                 *)
(***************************************************************************)
\* A set of numbers that is not empty has a least element.
LEMMA LeastElement ==
    ASSUME NEW T, T \subseteq Nat, T # {}
    PROVE  \E x \in T : \A y \in T : x <= y
<1> DEFINE R == {ss \in Nat \X Nat : ss[1] < ss[2]}
<1>1. IsWellFoundedOn(R, Nat)
    BY NatLessThanWellFounded DEF OpToRel
<1>2. PICK x \in T : \A y \in T : <<y, x>> \notin R
    BY <1>1, WFMin
<1>3. ASSUME NEW y \in T PROVE x <= y
  <2>1. x \in Nat /\ y \in Nat
    OBVIOUS
  <2>2. <<y, x>> \notin R
    BY <1>2
  <2>3. ~ (y < x)
    BY <2>1, <2>2
  <2>4. QED
    BY <2>1, <2>3
<1>4. QED
    BY <1>3

\* Induction from the end of a file to its beginning.
LEMMA Backward ==
    ASSUME NEW n \in Nat, NEW T, n + 1 \in T,
           \A k \in 1 .. n : k + 1 .. n + 1 \subseteq T => k \in T
    PROVE  1 .. n + 1 \subseteq T
<1> DEFINE D == {d \in 0 .. n : n + 1 - d \notin T}
<1> SUFFICES ASSUME D # {} PROVE FALSE
  <2>1. ASSUME NEW k \in 1 .. n + 1, k \notin T PROVE n + 1 - k \in D
    <3>1. n + 1 - k \in 0 .. n /\ n + 1 - (n + 1 - k) = k
      OBVIOUS
    <3>2. QED BY <2>1, <3>1
  <2>2. QED BY <2>1
<1>1. PICK d \in D : \A e \in D : d <= e
  <2>1. D \subseteq Nat
    OBVIOUS
  <2> HIDE DEF D
  <2>2. QED BY <2>1, LeastElement
<1>2. d \in 0 .. n /\ n + 1 - d \notin T
  OBVIOUS
<1>3. d # 0
  BY <1>2
<1>4. n + 1 - d \in 1 .. n
  BY <1>2, <1>3
<1>5. ASSUME NEW k \in (n + 1 - d) + 1 .. n + 1 PROVE k \in T
  <2>1. n + 1 - k \in 0 .. n /\ n + 1 - k < d /\ n + 1 - (n + 1 - k) = k
    BY <1>2
  <2>2. n + 1 - k \notin D
    BY <1>1, <1>2, <2>1
  <2>3. QED BY <2>1, <2>2
<1>6. QED BY <1>2, <1>4, <1>5

\* Where fgets stops: at the first newline, unless the buffer or the file
\* ends before.
Stops(f, from, e) ==
    /\ e \in from .. Len(f) /\ e <= from + MAX_LINE_LENGTH - 2
    /\ \A i \in from .. e - 1 : f[i] # Newline
    /\ f[e] = Newline \/ e = Len(f) \/ e = from + MAX_LINE_LENGTH - 2

LEMMA BufferStops ==
    ASSUME NEW f \in Seq(1 .. 127), NEW from \in 1 .. Len(f)
    PROVE  \E e : Stops(f, from, e) /\ fgets(f, from) = SubSeq(f, from, e)
<1> DEFINE full == from + MAX_LINE_LENGTH - 2
           end == IF full < Len(f) THEN full ELSE Len(f)
           I == {i \in from .. end : f[i] = Newline}
           newline == SelectInSubSeq(f, from, end, LAMBDA c : c = Newline)
           e == IF newline = 0 THEN end ELSE newline
<1>1. Len(f) \in Nat /\ MAX_LINE_LENGTH \in Nat /\ MAX_LINE_LENGTH > 1
  BY FileAssumption
<1>2. end \in from .. Len(f) /\ end <= full /\ (end = full \/ end = Len(f))
  BY <1>1
<1>3. newline = IF I # {} THEN Min(I) ELSE 0
  BY DEF SelectInSubSeq
<1>4. /\ e \in from .. end /\ \A i \in from .. e - 1 : f[i] # Newline
      /\ f[e] = Newline \/ e = end
  <2>1. CASE I = {}
    <3>1. e = end
      BY <1>3, <2>1
    <3>2. \A i \in from .. end : f[i] # Newline
      BY <2>1
    <3> HIDE DEF end, e
    <3>3. QED BY <1>2, <3>1, <3>2
  <2>2. CASE I # {}
    <3>1. I \subseteq Nat
      BY <1>2
    <3>2. \E x \in I : \A y \in I : x <= y
      <4> HIDE DEF I
      <4>1. QED BY <2>2, <3>1, LeastElement
    <3>3. Min(I) \in I /\ \A y \in I : Min(I) <= y
      <4> HIDE DEF I
      <4>1. QED BY <3>2 DEF Min
    <3>4. newline = Min(I) /\ newline \in from .. end /\ f[newline] = Newline
      BY <1>3, <2>2, <3>3
    <3>5. e = newline
      BY <1>2, <3>4
    <3> HIDE DEF newline, e, end
    <3>6. ASSUME NEW i \in from .. e - 1, f[i] = Newline PROVE FALSE
      <4>1. i \in I
        BY <1>2, <3>4, <3>5, <3>6
      <4>2. newline <= i
        BY <3>3, <3>4, <4>1
      <4>3. QED BY <1>2, <3>4, <3>5, <4>2
    <3>7. QED BY <3>4, <3>5, <3>6
  <2>3. QED BY <2>1, <2>2
<1>5. fgets(f, from) = SubSeq(f, from, e)
  BY DEF fgets
<1> HIDE DEF e, newline, end
<1>6. e \in from .. Len(f) /\ e <= full
  BY <1>1, <1>2, <1>4
<1>7. Stops(f, from, e)
  BY <1>2, <1>4, <1>6 DEF Stops
<1>8. QED BY <1>5, <1>7

\* There is one such place.
LEMMA StopsOnce ==
    ASSUME NEW f \in Seq(1 .. 127), NEW from \in 1 .. Len(f), NEW e,
           Stops(f, from, e)
    PROVE  fgets(f, from) = SubSeq(f, from, e)
<1>1. PICK d : Stops(f, from, d) /\ fgets(f, from) = SubSeq(f, from, d)
    BY BufferStops
<1>2. Len(f) \in Nat /\ MAX_LINE_LENGTH \in Nat /\ from \in Nat
    BY FileAssumption
<1>3. d \in from .. Len(f) /\ e \in from .. Len(f)
    BY <1>1 DEF Stops
<1>4. ASSUME NEW x, NEW y, Stops(f, from, x), Stops(f, from, y), x < y
      PROVE  FALSE
  <2>1. x \in from .. y - 1 /\ x # Len(f) /\ x # from + MAX_LINE_LENGTH - 2
    BY <1>2, <1>4 DEF Stops
  <2>2. f[x] # Newline
    BY <1>4, <2>1 DEF Stops
  <2>3. QED BY <1>4, <2>1, <2>2 DEF Stops
<1>5. ~(d < e) /\ ~(e < d)
    BY <1>1, <1>4
<1>6. d = e
    BY <1>2, <1>3, <1>5
<1>7. QED BY <1>1, <1>6

\* The characters of a line.
LEMMA PartOf ==
    ASSUME NEW f \in Seq(1 .. 127), NEW i \in Int, NEW j \in Int,
           1 <= i, j <= Len(f), i <= j + 1
    PROVE  /\ SubSeq(f, i, j) \in Seq(1 .. 127)
           /\ Len(SubSeq(f, i, j)) = j - i + 1
           /\ \A k \in 1 .. j - i + 1 : SubSeq(f, i, j)[k] = f[i + k - 1]
<1>1. \A k \in i .. j : f[k] \in 1 .. 127
  <2>1. i .. j \subseteq 1 .. Len(f)
    OBVIOUS
  <2>2. \A k \in 1 .. Len(f) : f[k] \in 1 .. 127
    BY ElementOfSeq
  <2>3. QED BY <2>1, <2>2
<1>2. /\ SubSeq(f, i, j) \in Seq(1 .. 127)
      /\ Len(SubSeq(f, i, j)) = IF i <= j THEN j - i + 1 ELSE 0
      /\ \A k \in 1 .. j - i + 1 : SubSeq(f, i, j)[k] = f[i + k - 1]
    BY <1>1, SubSeqProperties
<1>3. i = j + 1 \/ i <= j
    OBVIOUS
<1>4. QED BY <1>2, <1>3

\* fgets returns the characters up to there.
LEMMA BufferRead ==
    ASSUME NEW f \in Seq(1 .. 127), NEW from \in 1 .. Len(f)
    PROVE  \E e \in from .. Len(f) :
             LET buffer == fgets(f, from)
             IN  /\ buffer \in Seq(1 .. 127) /\ Len(buffer) = e - from + 1
                 /\ Last(buffer) = f[e] /\ e <= from + MAX_LINE_LENGTH - 2
                 /\ \A i \in from .. e - 1 : f[i] # Newline
<1> DEFINE buffer == fgets(f, from)
<1>1. PICK e : Stops(f, from, e) /\ buffer = SubSeq(f, from, e)
    BY BufferStops
<1>2. /\ e \in from .. Len(f) /\ e <= from + MAX_LINE_LENGTH - 2
      /\ \A i \in from .. e - 1 : f[i] # Newline
    BY <1>1 DEF Stops
<1>3. /\ from \in Int /\ e \in Int /\ 1 <= from /\ e <= Len(f) /\ from <= e + 1
      /\ e - from + 1 \in 1 .. e - from + 1 /\ from + (e - from + 1) - 1 = e
    BY <1>2
<1> HIDE DEF buffer
<1>4. /\ buffer \in Seq(1 .. 127) /\ Len(buffer) = e - from + 1
      /\ \A k \in 1 .. e - from + 1 : buffer[k] = f[from + k - 1]
    BY <1>1, <1>3, PartOf
<1>5. Last(buffer) = f[e]
    BY <1>3, <1>4 DEF Last
<1>6. QED BY <1>2, <1>4, <1>5 DEF buffer

\* The recursive function of read_file.
ReadStep(f, r, from) ==
    IF from > Len(f) THEN <<>>
    ELSE LET buffer == fgets(f, from)
         IN  IF Last(buffer) # Newline
             THEN <<[kind |-> "unended"]>>
             ELSE <<process_line(Front(buffer))>> \o r[from + Len(buffer)]

Reads(f, r) == \A from \in 1 .. Len(f) + 1 : r[from] = ReadStep(f, r, from)
IsReading(f, r) == r = [from \in 1 .. Len(f) + 1 |-> ReadStep(f, r, from)]

\* read_file as the value of the recursive function it is defined by.
LEMMA ReadIsReading ==
    ASSUME NEW f
    PROVE  read_file(f) = (CHOOSE r : IsReading(f, r))[1]
BY DEF read_file, IsReading, ReadStep

\* A step depends on the rest of the file only.
LEMMA StepLooksAhead ==
    ASSUME NEW f \in Seq(1 .. 127), NEW from \in 1 .. Len(f) + 1, NEW r, NEW q,
           \A i \in from + 1 .. Len(f) + 1 : r[i] = q[i]
    PROVE  ReadStep(f, r, from) = ReadStep(f, q, from)
<1>1. CASE from > Len(f)
  BY <1>1 DEF ReadStep
<1>2. CASE ~(from > Len(f))
  <2>1. Len(f) \in Nat /\ from \in 1 .. Len(f)
    BY <1>2
  <2>2. PICK e \in from .. Len(f) : Len(fgets(f, from)) = e - from + 1
    BY <2>1, BufferRead
  <2>3. from + Len(fgets(f, from)) \in from + 1 .. Len(f) + 1
    BY <2>1, <2>2
  <2>4. r[from + Len(fgets(f, from))] = q[from + Len(fgets(f, from))]
    BY <2>3
  <2>5. QED BY <1>2, <2>4 DEF ReadStep
<1>3. QED BY <1>1, <1>2

\* Such a function exists: it is built from the end of the file.
LEMMA ReadingExists ==
    ASSUME NEW f \in Seq(1 .. 127)
    PROVE  \E r : IsReading(f, r)
<1> DEFINE n == Len(f)
           Partial(r, k) == /\ r = [from \in 1 .. n + 1 |-> r[from]]
                            /\ \A from \in k .. n + 1 :
                                  r[from] = ReadStep(f, r, from)
           T == {k \in 1 .. n + 1 : \E r : Partial(r, k)}
<1>1. n \in Nat
  OBVIOUS
<1> HIDE DEF n
<1>2. n + 1 \in T
  <2> DEFINE r == [from \in 1 .. n + 1 |-> <<>>]
  <2>1. n + 1 > Len(f) /\ n + 1 \in 1 .. n + 1
    BY <1>1 DEF n
  <2>2. r[n + 1] = ReadStep(f, r, n + 1)
    BY <2>1 DEF ReadStep
  <2>3. r = [from \in 1 .. n + 1 |-> r[from]]
    OBVIOUS
  <2>4. \A from \in n + 1 .. n + 1 : from = n + 1
    BY <1>1
  <2> HIDE DEF r
  <2>5. Partial(r, n + 1)
    BY <2>2, <2>3, <2>4
  <2>6. QED BY <2>1, <2>5
<1>3. ASSUME NEW k \in 1 .. n, k + 1 .. n + 1 \subseteq T
      PROVE  k \in T
  <2>1. k + 1 \in T
    BY <1>1, <1>3
  <2>2. PICK q : Partial(q, k + 1)
    BY <2>1
  <2> DEFINE r == [from \in 1 .. n + 1 |->
                      IF from = k THEN ReadStep(f, q, k) ELSE q[from]]
  <2>3. r = [from \in 1 .. n + 1 |-> r[from]]
    OBVIOUS
  <2>4. \A from \in k + 1 .. n + 1 : r[from] = q[from]
    BY <1>1
  <2>5. r[k] = ReadStep(f, q, k)
    BY <1>1
  <2> HIDE DEF r
  <2>6. \A from \in k .. n + 1 : ReadStep(f, r, from) = ReadStep(f, q, from)
    <3>1. SUFFICES ASSUME NEW from \in k .. n + 1
                   PROVE  ReadStep(f, r, from) = ReadStep(f, q, from)
      OBVIOUS
    <3>2. from \in 1 .. Len(f) + 1
      BY <1>1 DEF n
    <3>3. \A i \in from + 1 .. Len(f) + 1 : r[i] = q[i]
      BY <1>1, <2>4 DEF n
    <3>4. QED BY <3>2, <3>3, StepLooksAhead
  <2>7. \A from \in k .. n + 1 : r[from] = ReadStep(f, r, from)
    <3>1. SUFFICES ASSUME NEW from \in k .. n + 1
                   PROVE  r[from] = ReadStep(f, q, from)
      BY <2>6
    <3>2. CASE from = k
      BY <2>5, <3>2
    <3>3. CASE from # k
      <4>1. from \in k + 1 .. n + 1
        BY <1>1, <3>3
      <4>2. QED BY <2>2, <2>4, <4>1
    <3>4. QED BY <3>2, <3>3
  <2>8. Partial(r, k)
    BY <2>3, <2>7
  <2>9. k \in 1 .. n + 1
    BY <1>1
  <2>10. QED BY <2>8, <2>9
<1>4. 1 .. n + 1 \subseteq T
  <2> HIDE DEF T
  <2>1. QED BY <1>1, <1>2, <1>3, Backward
<1>5. 1 \in T
  BY <1>1, <1>4
<1>6. PICK r : Partial(r, 1)
  BY <1>5
<1>7. r = [from \in 1 .. Len(f) + 1 |-> ReadStep(f, r, from)]
  BY <1>6 DEF n
<1>8. QED BY <1>7 DEF IsReading

\* What read_file returns, by steps from the end of the file.
LEMMA ReadingFacts ==
    ASSUME NEW f \in Seq(1 .. 127)
    PROVE  \E r : /\ read_file(f) = r[1]
                  /\ \A from \in 1 .. Len(f) + 1 : r[from] = ReadStep(f, r, from)
<1> DEFINE r == CHOOSE x : IsReading(f, x)
<1>1. IsReading(f, r)
  BY ReadingExists
<1>2. read_file(f) = r[1]
  BY ReadIsReading
<1> HIDE DEF r
<1>3. \A from \in 1 .. Len(f) + 1 : r[from] = ReadStep(f, r, from)
  BY <1>1 DEF IsReading
<1>4. QED BY <1>2, <1>3

-----------------------------------------------------------------------------
\* The lines that can be read of a file, the newlines from a place on, and
\* whether every line from there on ends within the buffer.
Pieces == {process_line(b) : b \in Seq(1 .. 127)} \cup {[kind |-> "unended"]}
NewlinesFrom(f, from) == {i \in from .. Len(f) : f[i] = Newline}
FitsFrom(f, from) ==
    /\ from <= Len(f) => f[Len(f)] = Newline
    /\ \A i \in from .. Len(f) :
          i + MAX_LINE_LENGTH - 2 <= Len(f) =>
              \E j \in i .. i + MAX_LINE_LENGTH - 2 :
                  j <= Len(f) /\ f[j] = Newline

\* What was read from a place on, when no line broke off.
ReadWhole(f, lines, from) ==
    /\ lines \in Seq(Pieces)
    /\ (\A i \in 1 .. Len(lines) : lines[i].kind # "unended") =>
          /\ FitsFrom(f, from)
          /\ Len(lines) = Cardinality(NewlinesFrom(f, from))

\* One line more.
LEMMA LineMore ==
    ASSUME NEW x \in Pieces, NEW lines \in Seq(Pieces)
    PROVE  /\ <<x>> \o lines \in Seq(Pieces)
           /\ Len(<<x>> \o lines) = Len(lines) + 1
           /\ \A i \in 1 .. Len(lines) : (<<x>> \o lines)[i + 1] = lines[i]
<1> HIDE DEF Pieces
<1>1. <<x>> \in Seq(Pieces) /\ Len(<<x>>) = 1 /\ Len(lines) \in Nat
    OBVIOUS
<1>2. /\ <<x>> \o lines \in Seq(Pieces)
      /\ Len(<<x>> \o lines) = Len(<<x>>) + Len(lines)
      /\ \A i \in 1 .. Len(<<x>>) + Len(lines) :
            (<<x>> \o lines)[i] = IF i <= Len(<<x>>) THEN <<x>>[i]
                                  ELSE lines[i - Len(<<x>>)]
    BY <1>1, ConcatProperties
<1>3. \A i \in 1 .. Len(lines) :
         i + 1 \in 1 .. 1 + Len(lines) /\ ~(i + 1 <= 1) /\ (i + 1) - 1 = i
    BY <1>1
<1>4. QED BY <1>1, <1>2, <1>3

\* A line that ends at e, and the lines after it.
LEMMA FitsMore ==
    ASSUME NEW f \in Seq(1 .. 127), NEW from \in 1 .. Len(f),
           NEW e \in from .. Len(f), e <= from + MAX_LINE_LENGTH - 2,
           f[e] = Newline, \A i \in from .. e - 1 : f[i] # Newline,
           FitsFrom(f, e + 1)
    PROVE  /\ FitsFrom(f, from)
           /\ Cardinality(NewlinesFrom(f, from))
                 = Cardinality(NewlinesFrom(f, e + 1)) + 1
<1>1. Len(f) \in Nat /\ MAX_LINE_LENGTH \in Nat
    BY FileAssumption
<1>2. f[Len(f)] = Newline
  <2>1. CASE e = Len(f)
    BY <2>1
  <2>2. CASE e # Len(f)
    <3>1. e + 1 <= Len(f)
      BY <1>1, <2>2
    <3>2. QED BY <3>1 DEF FitsFrom
  <2>3. QED BY <2>1, <2>2
<1>3. ASSUME NEW i \in from .. Len(f), i + MAX_LINE_LENGTH - 2 <= Len(f)
      PROVE  \E j \in i .. i + MAX_LINE_LENGTH - 2 :
                 j <= Len(f) /\ f[j] = Newline
  <2>1. CASE i <= e
    <3>1. e \in i .. i + MAX_LINE_LENGTH - 2 /\ e <= Len(f)
      BY <1>1, <2>1
    <3>2. QED BY <3>1
  <2>2. CASE i > e
    <3>1. i \in e + 1 .. Len(f)
      BY <1>1, <2>2
    <3>2. QED BY <1>3, <3>1 DEF FitsFrom
  <2>3. QED BY <1>1, <2>1, <2>2
<1>4. FitsFrom(f, from)
    BY <1>2, <1>3 DEF FitsFrom
<1>5. NewlinesFrom(f, from) = NewlinesFrom(f, e + 1) \cup {e}
  <2>1. ASSUME NEW i \in NewlinesFrom(f, from)
        PROVE  i \in NewlinesFrom(f, e + 1) \cup {e}
    <3>1. i \in from .. Len(f) /\ f[i] = Newline
      BY DEF NewlinesFrom
    <3>2. i \notin from .. e - 1
      BY <3>1
    <3>3. i = e \/ i \in e + 1 .. Len(f)
      BY <1>1, <3>1, <3>2
    <3>4. QED BY <3>1, <3>3 DEF NewlinesFrom
  <2>2. ASSUME NEW i \in NewlinesFrom(f, e + 1) \cup {e}
        PROVE  i \in NewlinesFrom(f, from)
    <3>1. i \in from .. Len(f) /\ f[i] = Newline
      BY <1>1 DEF NewlinesFrom
    <3>2. QED BY <3>1 DEF NewlinesFrom
  <2>3. QED BY <2>1, <2>2
<1>6. e \notin NewlinesFrom(f, e + 1) /\ IsFiniteSet(NewlinesFrom(f, e + 1))
  <2>1. IsFiniteSet(e + 1 .. Len(f))
    BY <1>1, FS_Interval
  <2>2. NewlinesFrom(f, e + 1) \subseteq e + 1 .. Len(f)
    BY DEF NewlinesFrom
  <2>3. e \notin e + 1 .. Len(f)
    BY <1>1
  <2>4. QED BY <2>1, <2>2, <2>3, FS_Subset
<1>7. QED BY <1>4, <1>5, <1>6, FS_AddElement

\* read_file tells of every line that breaks off.
LEMMA ReadsWhole ==
    ASSUME NEW f \in Seq(1 .. 127)
    PROVE  ReadWhole(f, read_file(f), 1)
<1> DEFINE n == Len(f)
<1>1. PICK r : /\ read_file(f) = r[1]
               /\ \A from \in 1 .. n + 1 : r[from] = ReadStep(f, r, from)
    BY ReadingFacts
<1> DEFINE T == {from \in 1 .. n + 1 : ReadWhole(f, r[from], from)}
<1>2. n \in Nat
    OBVIOUS
<1>3. n + 1 \in T
  <2>1. n + 1 \in 1 .. n + 1 /\ n + 1 > Len(f) /\ n + 1 .. Len(f) = {}
    BY <1>2
  <2>2. r[n + 1] = <<>>
    BY <1>1, <2>1 DEF ReadStep
  <2>3. <<>> \in Seq(Pieces) /\ Len(<<>>) = 0
    OBVIOUS
  <2>4. NewlinesFrom(f, n + 1) = {} /\ FitsFrom(f, n + 1)
    BY <2>1, <1>2 DEF NewlinesFrom, FitsFrom
  <2>5. Cardinality(NewlinesFrom(f, n + 1)) = 0
    BY <2>4, FS_EmptySet
  <2>6. QED BY <2>1, <2>2, <2>3, <2>4, <2>5 DEF ReadWhole
<1>4. ASSUME NEW from \in 1 .. n, from + 1 .. n + 1 \subseteq T
      PROVE  from \in T
  <2> DEFINE buffer == fgets(f, from)
  <2>1. PICK e \in from .. Len(f) :
            /\ buffer \in Seq(1 .. 127) /\ Len(buffer) = e - from + 1
            /\ Last(buffer) = f[e] /\ e <= from + MAX_LINE_LENGTH - 2
            /\ \A i \in from .. e - 1 : f[i] # Newline
    BY BufferRead
  <2>2. /\ from \in 1 .. n + 1 /\ ~(from > Len(f))
        /\ from + Len(buffer) = e + 1 /\ e + 1 \in from + 1 .. n + 1
    BY <1>2, <2>1
  <2>3. r[from] = IF Last(buffer) # Newline
                  THEN <<[kind |-> "unended"]>>
                  ELSE <<process_line(Front(buffer))>> \o r[e + 1]
    BY <1>1, <2>2 DEF ReadStep
  <2>4. Front(buffer) \in Seq(1 .. 127)
    <3>1. Len(buffer) \in Nat \ {0}
      BY <1>2, <2>1
    <3> HIDE DEF buffer
    <3>2. \A i \in 1 .. Len(buffer) - 1 : buffer[i] \in 1 .. 127
      <4>1. \A i \in 1 .. Len(buffer) : buffer[i] \in 1 .. 127
        BY <2>1, ElementOfSeq
      <4>2. 1 .. Len(buffer) - 1 \subseteq 1 .. Len(buffer)
        BY <3>1
      <4>3. QED BY <4>1, <4>2
    <3>3. 1 \in Int /\ Len(buffer) - 1 \in Int
      BY <3>1
    <3>4. QED BY <3>2, <3>3, SubSeqProperties DEF Front
  <2>5. ReadWhole(f, r[e + 1], e + 1)
    BY <1>4, <2>2
  <2> HIDE DEF buffer, T
  <2>6. CASE f[e] # Newline
    <3>1. r[from] = <<[kind |-> "unended"]>>
      BY <2>1, <2>3, <2>6
    <3>2. [kind |-> "unended"] \in Pieces
      BY DEF Pieces
    <3>3. r[from] \in Seq(Pieces) /\ Len(r[from]) = 1
          /\ r[from][1].kind = "unended"
      BY <3>1, <3>2
    <3>4. ReadWhole(f, r[from], from)
      BY <3>3 DEF ReadWhole
    <3>5. QED BY <2>2, <3>4 DEF T
  <2>7. CASE f[e] = Newline
    <3> DEFINE x == process_line(Front(buffer))
               rest == r[e + 1]
    <3>1. r[from] = <<x>> \o rest
      BY <2>1, <2>3, <2>7
    <3>2. x \in Pieces
      BY <2>4 DEF Pieces
    <3>3. rest \in Seq(Pieces)
      BY <2>5 DEF ReadWhole
    <3> HIDE DEF x, rest
    <3>4. /\ r[from] \in Seq(Pieces) /\ Len(r[from]) = Len(rest) + 1
          /\ \A i \in 1 .. Len(rest) : r[from][i + 1] = rest[i]
      BY <3>1, <3>2, <3>3, LineMore
    <3>5. ASSUME \A i \in 1 .. Len(r[from]) : r[from][i].kind # "unended"
          PROVE  /\ FitsFrom(f, from)
                 /\ Len(r[from]) = Cardinality(NewlinesFrom(f, from))
      <4>1. Len(rest) \in Nat
        BY <3>3
      <4>2. \A i \in 1 .. Len(rest) : rest[i].kind # "unended"
        <5>1. \A i \in 1 .. Len(rest) : i + 1 \in 1 .. Len(r[from])
          BY <3>4, <4>1
        <5>2. QED BY <3>4, <3>5, <5>1
      <4>3. /\ FitsFrom(f, e + 1)
            /\ Len(rest) = Cardinality(NewlinesFrom(f, e + 1))
        BY <2>5, <4>2 DEF ReadWhole, rest
      <4>4. /\ FitsFrom(f, from)
            /\ Cardinality(NewlinesFrom(f, from))
                  = Cardinality(NewlinesFrom(f, e + 1)) + 1
        BY <2>1, <2>7, <4>3, FitsMore
      <4>5. QED BY <3>4, <4>3, <4>4
    <3>6. ReadWhole(f, r[from], from)
      BY <3>4, <3>5 DEF ReadWhole
    <3>7. QED BY <2>2, <3>6 DEF T
  <2>8. QED BY <2>6, <2>7
<1>5. 1 .. n + 1 \subseteq T
  <2> HIDE DEF T, n
  <2>1. QED BY <1>2, <1>3, <1>4, Backward
<1>6. 1 \in T
  BY <1>2, <1>5
<1>7. QED BY <1>1, <1>6

-----------------------------------------------------------------------------
\* The lines of the program that the first pass has been through.
Passed(i) ==
    \/ phase = "first" /\ i < line
    \/ phase \in {"second", "writing", "done"}

\* The program is that of the file, and no line that was passed broke off.
FileInv ==
    /\ file \in Files /\ program \in Programs /\ program = read_file(file)
    /\ line \in Nat /\ (phase = "opening" => line = 1)
    /\ \A i \in 1 .. Len(program) : Passed(i) => program[i].kind # "unended"

\* The invariant holds when the assembler is given the file.
LEMMA InitialFile == FileInit => FileInv
<1> SUFFICES ASSUME FileInit PROVE FileInv
    OBVIOUS
<1>1. /\ file \in Files /\ program = read_file(file) /\ program \in Programs
      /\ phase = "opening" /\ line = 1
    BY DEF FileInit, Init
<1>2. \A i : ~Passed(i)
    BY <1>1 DEF Passed
<1>3. QED BY <1>1, <1>2 DEF FileInv

\* A step that passes no line that broke off keeps it.
LEMMA PassingKeeps ==
    ASSUME FileInv, file' = file, program' = program, line' \in Nat,
           phase' # "opening",
           \A i \in 1 .. Len(program) :
               Passed(i)' => Passed(i) \/ program[i].kind # "unended"
    PROVE  FileInv'
<1>1. /\ file' \in Files /\ program' \in Programs /\ program' = read_file(file')
    BY DEF FileInv
<1>2. \A i \in 1 .. Len(program') : Passed(i)' => program'[i].kind # "unended"
    BY DEF FileInv
<1>3. QED BY <1>1, <1>2 DEF FileInv

\* The only line the first pass does not go past is one that broke off.
LEMMA FileInductive ==
    FileInv /\ [FileNext]_<<vars, file>> => FileInv'
<1> SUFFICES ASSUME FileInv, [FileNext]_<<vars, file>> PROVE FileInv'
    OBVIOUS
<1>1. line \in Nat /\ line + 1 \in Nat /\ Len(program) \in Nat
    BY SourceAssumption DEF FileInv
<1>2. ASSUME UNCHANGED <<vars, file>> PROVE FileInv'
  <2>1. /\ file' = file /\ program' = program /\ line' = line /\ phase' = phase
    BY <1>2 DEF vars
  <2>2. QED BY <2>1 DEF FileInv, Passed
<1>3. ASSUME file' = file, Next PROVE FileInv'
  <2>1. ASSUME OpenInput PROVE FileInv'
    <3>1. /\ program' = program /\ line' = line /\ line = 1
          /\ phase' \in {"first", "failed"}
      BY <2>1 DEF OpenInput, input, FileInv
    <3>2. \A i \in 1 .. Len(program) : ~(i < line') /\ ~Passed(i)'
      BY <1>1, <3>1 DEF Passed
    <3>3. QED BY <1>1, <1>3, <3>1, <3>2, PassingKeeps
  <2>2. ASSUME Refuse PROVE FileInv'
    <3>1. program' = program /\ line' = line /\ phase' = "refused"
      BY <2>2 DEF Refuse, input
    <3>2. \A i : ~Passed(i)'
      BY <3>1 DEF Passed
    <3>3. QED BY <1>1, <1>3, <3>1, <3>2, PassingKeeps
  <2>3. ASSUME build_symbol_table PROVE FileInv'
    <3>1. /\ program' = program /\ line' = line + 1 /\ phase = "first"
          /\ phase' = phase /\ program[line].kind # "unended"
      BY <2>3 DEF build_symbol_table, Reading, input
    <3>2. ASSUME NEW i \in 1 .. Len(program), Passed(i)'
          PROVE  Passed(i) \/ program[i].kind # "unended"
      <4>1. i < line \/ i = line
        BY <1>1, <3>1, <3>2 DEF Passed
      <4>2. QED BY <3>1, <4>1 DEF Passed
    <3>3. QED BY <1>1, <1>3, <3>1, <3>2, PassingKeeps
  <2>4. ASSUME StartSecondPass PROVE FileInv'
    <3>1. /\ program' = program /\ line' = 1 /\ phase = "first"
          /\ phase' = "second" /\ line > Len(program)
      BY <2>4 DEF StartSecondPass, input
    <3>2. \A i \in 1 .. Len(program) : Passed(i)
      BY <1>1, <3>1 DEF Passed
    <3>3. QED BY <1>3, <3>1, <3>2, PassingKeeps
  <2>5. ASSUME program' = program, line' \in Nat,
               phase \in {"second", "writing"}, phase' # "opening"
        PROVE  FileInv'
    <3>1. \A i : Passed(i)
      BY <2>5 DEF Passed
    <3>2. QED BY <1>3, <2>5, <3>1, PassingKeeps
  <2>6. ASSUME NEW word, Emit(word), phase = "second" PROVE FileInv'
    <3>1. program' = program /\ line' = line + 1 /\ phase' = phase
      BY <2>6 DEF Emit, input
    <3>2. QED BY <1>1, <2>5, <2>6, <3>1
  <2>7. ASSUME AssemblePlain \/ AssembleBranch \/ AssembleLiteral PROVE FileInv'
    <3>1. phase = "second" /\ \E word : Emit(word)
      BY <2>7 DEF AssemblePlain, AssembleBranch, AssembleLiteral, Reading
    <3>2. QED BY <2>6, <3>1
  <2>8. ASSUME SkipLine PROVE FileInv'
    <3>1. /\ program' = program /\ line' = line + 1 /\ phase = "second"
          /\ phase' = phase
      BY <2>8 DEF SkipLine, Reading, input
    <3>2. QED BY <1>1, <2>5, <3>1
  <2>9. ASSUME EndSecondPass PROVE FileInv'
    <3>1. /\ program' = program /\ line' = line /\ phase = "second"
          /\ phase' = "writing"
      BY <2>9 DEF EndSecondPass, input
    <3>2. QED BY <1>1, <2>5, <3>1
  <2>10. ASSUME write_file PROVE FileInv'
    <3>1. /\ program' = program /\ line' = line /\ phase = "writing"
          /\ phase' # "opening"
      BY <2>10 DEF write_file, input
    <3>2. QED BY <1>1, <2>5, <3>1
  <2>11. ASSUME Terminated PROVE FileInv'
    BY <1>2, <1>3, <2>11 DEF Terminated
  <2>12. ASSUME LineTooLong \/ InvalidLine \/ SymbolNotFound \/ NotWordAligned
         PROVE  FileInv'
    <3>1. Refuse
      BY <2>12 DEF LineTooLong, InvalidLine, SymbolNotFound, NotWordAligned
    <3>2. QED BY <2>2, <3>1
  <2>13. QED BY <1>3, <2>1, <2>3, <2>4, <2>7, <2>8, <2>9, <2>10, <2>11, <2>12
             DEF Next
<1>4. QED BY <1>2, <1>3 DEF FileNext

\* A line is read in one piece or the program ends before the second pass
\* (read_file, which exits on a line that does not end within the buffer): of
\* every file, with lines of every length, the lines of the second pass are
\* those between the newlines.
THEOREM LinesReadWholeHolds == FileSpec => []LinesReadWhole
<1>1. FileInv => LinesReadWhole
  <2> SUFFICES ASSUME FileInv, phase \in {"second", "writing", "done"}
               PROVE  LinesFit /\ Len(program) = Cardinality(Newlines)
    BY DEF LinesReadWhole
  <2>1. file \in Seq(1 .. 127) /\ program = read_file(file)
    BY FileAssumption DEF FileInv
  <2>2. \A i \in 1 .. Len(program) : program[i].kind # "unended"
    BY DEF FileInv, Passed
  <2>3. /\ FitsFrom(file, 1)
        /\ Len(program) = Cardinality(NewlinesFrom(file, 1))
    BY <2>1, <2>2, ReadsWhole DEF ReadWhole
  <2>4. Len(file) \in Nat /\ DOMAIN file = 1 .. Len(file)
        /\ MAX_LINE_LENGTH \in Nat
    BY <2>1, FileAssumption
  <2>5. NewlinesFrom(file, 1) = Newlines
    BY <2>4 DEF NewlinesFrom, Newlines
  <2>6. file # <<>> => Last(file) = Newline
    <3>1. file # <<>> => 1 <= Len(file)
      BY <2>1, <2>4
    <3>2. QED BY <2>3, <3>1 DEF FitsFrom, Last
  <2>7. ASSUME NEW i \in DOMAIN file, i + MAX_LINE_LENGTH - 2 <= Len(file)
        PROVE  Newlines \cap i .. i + MAX_LINE_LENGTH - 2 # {}
    <3>1. PICK j \in i .. i + MAX_LINE_LENGTH - 2 :
              j <= Len(file) /\ file[j] = Newline
      BY <2>3, <2>4, <2>7 DEF FitsFrom
    <3>2. j \in 1 .. Len(file)
      BY <2>4, <3>1
    <3>3. j \in Newlines
      BY <2>4, <3>1, <3>2 DEF Newlines
    <3>4. QED BY <3>1, <3>3
  <2>8. QED BY <2>3, <2>5, <2>6, <2>7 DEF LinesFit
<1>2. QED BY <1>1, InitialFile, FileInductive, PTL DEF FileSpec

\* FileSpec is Spec beside the file its lines were cut from, so the theorems
\* above can be cited for it.
LEMMA FileIsAssembled == FileSpec => Spec
<1>1. FileInit => Init
    BY DEF FileInit
<1>2. [FileNext]_<<vars, file>> => [Next]_vars
    BY DEF FileNext
<1>3. QED BY <1>1, <1>2, PTL DEF FileSpec, Spec

-----------------------------------------------------------------------------
(***************************************************************************)
(* What a refusal tells of the source, from the abstract specification.    *)
(***************************************************************************)
HasRefused(p, b) == \E i \in DOMAIN p : Abstract!Refused(p, b, i)
Refusal == Result = <<"refused">> => HasRefused(program, base_address)

\* A source is refused for one of its lines: the abstract specification
\* refuses for no other reason, and the assembler implements it.
LEMMA RefusedForALine ==
    ASSUME CollisionFree PROVE Spec => []Refusal
<1>1. Abstract!Init => Refusal
    BY DEF Abstract!Init, Refusal
<1>2. Refusal /\ [Abstract!Next]_(Abstract!vars) => Refusal'
  <2> SUFFICES ASSUME Refusal, [Abstract!Next]_(Abstract!vars),
                      Result' = <<"refused">>
               PROVE  HasRefused(program, base_address)'
    BY DEF Refusal
  <2>1. CASE Abstract!Refuse
    <3>1. /\ HasRefused(program, base_address)
          /\ program' = program /\ base_address' = base_address
      BY <2>1 DEF Abstract!Refuse, HasRefused
    <3>2. QED BY <3>1
  <2>2. CASE Abstract!Translate
    BY <2>2 DEF Abstract!Translate
  <2>3. CASE Abstract!Fail
    BY <2>3 DEF Abstract!Fail
  <2>4. CASE UNCHANGED Abstract!vars
    <3>1. /\ Result = <<"refused">>
          /\ program' = program /\ base_address' = base_address
      BY <2>4 DEF Abstract!vars
    <3>2. HasRefused(program, base_address)
      BY <3>1 DEF Refusal
    <3>3. QED BY <3>1, <3>2
  <2>5. QED BY <2>1, <2>2, <2>3, <2>4 DEF Abstract!Next
<1>3. Abstract!Spec => []Refusal
    BY <1>1, <1>2, PTL DEF Abstract!Spec
<1>4. Spec => Abstract!Spec
    BY AssemblyIsImplemented DEF ImplementsAssembly
<1>5. QED
    BY <1>3, <1>4, PTL

-----------------------------------------------------------------------------
(***************************************************************************)
(* A source and the same source with empty lines taken out.                *)
(***************************************************************************)
\* Line k of q is line h[k] of p, in the same order, and the lines of p that
\* are left out are empty.
Thinned(p, q, h) ==
    /\ h \in [1 .. Len(q) -> 1 .. Len(p)]
    /\ \A j, k \in 1 .. Len(q) : j < k => h[j] < h[k]
    /\ \A k \in 1 .. Len(q) : q[k] = p[h[k]]
    /\ \A i \in 1 .. Len(p) :
          p[i].kind # "empty" => \E k \in 1 .. Len(q) : h[k] = i

\* The order of lines is the same in both.
LEMMA ThinnedOrder ==
    ASSUME NEW p \in Seq(Line), NEW q \in Seq(Line), NEW h, Thinned(p, q, h),
           NEW j \in DOMAIN q, NEW k \in DOMAIN q
    PROVE  /\ h[j] \in DOMAIN p /\ h[j] \in Nat /\ j \in Nat
           /\ h[k] \in DOMAIN p /\ h[k] \in Nat /\ k \in Nat
           /\ p[h[k]] = q[k]
           /\ (h[j] < h[k] <=> j < k)
           /\ (h[j] = h[k] <=> j = k)
<1>1. /\ Len(q) \in Nat /\ DOMAIN q = 1 .. Len(q)
      /\ Len(p) \in Nat /\ DOMAIN p = 1 .. Len(p)
    OBVIOUS
<1>2. /\ h[j] \in 1 .. Len(p) /\ h[k] \in 1 .. Len(p) /\ p[h[k]] = q[k]
      /\ j < k => h[j] < h[k]
      /\ k < j => h[k] < h[j]
    BY <1>1 DEF Thinned
<1>3. j \in Nat /\ k \in Nat /\ h[j] \in Nat /\ h[k] \in Nat
    BY <1>1, <1>2
<1>4. QED
    BY <1>1, <1>2, <1>3

\* A line has the same bytes before it.
LEMMA ThinnedBytes ==
    ASSUME NEW p \in Seq(Line), NEW q \in Seq(Line), NEW h, Thinned(p, q, h),
           NEW k \in DOMAIN q
    PROVE  Bytes(p, h[k]) = Bytes(q, k)
<1> DEFINE S == CodeBefore(q, k)
           T == CodeBefore(p, h[k])
           g == [j \in S |-> h[j]]
<1>1. ASSUME NEW j \in S PROVE h[j] \in T /\ j \in DOMAIN q
  <2>1. j \in DOMAIN q /\ q[j].kind \notin NoCodeKinds /\ j < k
    BY DEF CodeBefore
  <2>2. h[j] \in DOMAIN p /\ p[h[j]] = q[j] /\ h[j] < h[k]
    BY <2>1, ThinnedOrder
  <2>3. QED BY <2>1, <2>2 DEF CodeBefore
<1>2. ASSUME NEW i \in T PROVE \E j \in S : h[j] = i
  <2>1. i \in DOMAIN p /\ p[i].kind \notin NoCodeKinds /\ i < h[k]
    BY DEF CodeBefore
  <2>2. p[i].kind # "empty" /\ i \in 1 .. Len(p) /\ DOMAIN q = 1 .. Len(q)
    BY <2>1 DEF NoCodeKinds
  <2>3. PICK j \in DOMAIN q : h[j] = i
    BY <2>2 DEF Thinned
  <2>4. p[i] = q[j] /\ j < k
    BY <2>1, <2>3, ThinnedOrder
  <2>5. j \in S
    BY <2>1, <2>4 DEF CodeBefore
  <2>6. QED BY <2>3, <2>5
<1>3. IsFiniteSet(S)
  <2>1. k \in Nat
    OBVIOUS
  <2>2. QED BY <2>1, CodeIsFinite
<1>4. ASSUME NEW i \in S, NEW j \in S, h[i] = h[j] PROVE i = j
    BY <1>1, <1>4, ThinnedOrder
<1> HIDE DEF S, T
<1>5. g \in [S -> T]
    BY <1>1
<1>6. g \in Surjection(S, T)
    BY <1>2, <1>5 DEF Surjection
<1>7. g \in Injection(S, T)
    BY <1>4, <1>5 DEF Injection, IsInjective
<1>8. ExistsBijection(S, T)
    BY <1>6, <1>7 DEF Bijection, ExistsBijection
<1>9. Cardinality(T) = Cardinality(S)
    BY <1>3, <1>8, FS_Bijection
<1>10. QED
    BY <1>9 DEF Bytes, S, T

\* A symbol has the same declarations.
LEMMA ThinnedDeclarations ==
    ASSUME NEW p \in Seq(Line), NEW q \in Seq(Line), NEW h, Thinned(p, q, h),
           NEW symbol
    PROVE  /\ \A k \in Abstract!Declarations(q, symbol) :
                 k \in DOMAIN q /\ h[k] \in Abstract!Declarations(p, symbol)
           /\ \A i \in Abstract!Declarations(p, symbol) :
                 \E k \in Abstract!Declarations(q, symbol) : h[k] = i
<1>1. ASSUME NEW k \in Abstract!Declarations(q, symbol)
      PROVE  k \in DOMAIN q /\ h[k] \in Abstract!Declarations(p, symbol)
  <2>1. k \in DOMAIN q /\ q[k].kind = "label" /\ q[k].symbol = symbol
    BY DEF Abstract!Declarations
  <2>2. h[k] \in DOMAIN p /\ p[h[k]] = q[k]
    BY <2>1, ThinnedOrder
  <2>3. QED BY <2>1, <2>2 DEF Abstract!Declarations
<1>2. ASSUME NEW i \in Abstract!Declarations(p, symbol)
      PROVE  \E k \in Abstract!Declarations(q, symbol) : h[k] = i
  <2>1. i \in DOMAIN p /\ p[i].kind = "label" /\ p[i].symbol = symbol
    BY DEF Abstract!Declarations
  <2>2. p[i].kind # "empty" /\ i \in 1 .. Len(p) /\ DOMAIN q = 1 .. Len(q)
    BY <2>1
  <2>3. PICK k \in DOMAIN q : h[k] = i
    BY <2>2 DEF Thinned
  <2>4. q[k] = p[i]
    BY <2>3, ThinnedOrder
  <2>5. QED BY <2>1, <2>3, <2>4 DEF Abstract!Declarations
<1>3. QED BY <1>1, <1>2

\* A set of lines that is not empty has a last one.
LEMMA LastLine ==
    ASSUME NEW n \in Nat, NEW D, D \subseteq 1 .. n, D # {}
    PROVE  \E i \in D : \A j \in D : j <= i
<1> DEFINE E == {n - i : i \in D}
<1>1. E \subseteq Nat /\ E # {}
  <2>1. \A i \in D : n - i \in Nat
    OBVIOUS
  <2>2. QED BY <2>1
<1>2. PICK x \in E : \A y \in E : x <= y
  <2> HIDE DEF E
  <2>1. QED BY <1>1, LeastElement
<1>3. PICK i \in D : x = n - i
    OBVIOUS
<1>4. ASSUME NEW j \in D PROVE j <= i
  <2>1. n - i <= n - j /\ i \in Nat /\ j \in Nat
    BY <1>2, <1>3
  <2>2. QED BY <2>1
<1>5. QED BY <1>3, <1>4

\* A declared symbol has the same address.
LEMMA ThinnedAddress ==
    ASSUME NEW p \in Seq(Line), NEW q \in Seq(Line), NEW h, Thinned(p, q, h),
           NEW symbol, Abstract!Declarations(q, symbol) # {}, NEW b
    PROVE  Abstract!AddressOf(p, b, symbol) = Abstract!AddressOf(q, b, symbol)
<1> DEFINE D == Abstract!Declarations(q, symbol)
           E == Abstract!Declarations(p, symbol)
<1>1. Len(q) \in Nat /\ D \subseteq 1 .. Len(q)
    BY DEF Abstract!Declarations
<1>2. PICK l \in D : \A j \in D : j <= l
    BY <1>1, LastLine
<1>3. l \in DOMAIN q /\ h[l] \in E
    BY ThinnedDeclarations
<1>4. ASSUME NEW i \in E PROVE i <= h[l] /\ i \in Nat /\ h[l] \in Nat
  <2>1. PICK k \in D : h[k] = i
    BY ThinnedDeclarations
  <2>2. k <= l /\ k \in DOMAIN q
    BY <1>2, ThinnedDeclarations
  <2>3. h[k] \in Nat /\ h[l] \in Nat /\ k \in Nat /\ l \in Nat
        /\ (h[k] = h[l] <=> k = l) /\ (h[k] < h[l] <=> k < l)
    BY <1>3, <2>2, ThinnedOrder
  <2>4. QED BY <2>1, <2>2, <2>3
<1> HIDE DEF D, E
<1>5. (CHOOSE i \in D : \A j \in D : j <= i) = l
  <2>1. ASSUME NEW i \in D, \A j \in D : j <= i PROVE i = l
    <3>1. i <= l /\ l <= i /\ i \in Nat /\ l \in Nat
      BY <1>1, <1>2, <2>1
    <3>2. QED BY <3>1
  <2>2. QED BY <1>2, <2>1
<1>6. (CHOOSE i \in E : \A j \in E : j <= i) = h[l]
  <2>1. ASSUME NEW i \in E, \A j \in E : j <= i PROVE i = h[l]
    <3>1. i <= h[l] /\ h[l] <= i /\ i \in Nat /\ h[l] \in Nat
      BY <1>3, <1>4, <2>1
    <3>2. QED BY <3>1
  <2>2. \A j \in E : j <= h[l]
    BY <1>4
  <2>3. QED BY <1>3, <2>1, <2>2
<1>7. Abstract!Offset(p, h[l]) = Abstract!Offset(q, l)
    BY <1>3, ThinnedBytes, OffsetIsBytes
<1>8. Abstract!AddressOf(q, b, symbol) = (b + Abstract!Offset(q, l)) % AddrMod
    BY <1>5 DEF Abstract!AddressOf, D
<1>9. Abstract!AddressOf(p, b, symbol)
          = (b + Abstract!Offset(p, h[l])) % AddrMod
    BY <1>6 DEF Abstract!AddressOf, E
<1>10. QED BY <1>7, <1>8, <1>9
\* The same lines are refused.
LEMMA ThinnedRefused ==
    ASSUME NEW p \in Seq(Line), NEW q \in Seq(Line), NEW h, Thinned(p, q, h),
           NEW k \in DOMAIN q, NEW b
    PROVE  Abstract!Refused(p, b, h[k]) <=> Abstract!Refused(q, b, k)
<1> DEFINE t == q[k].target
           s == t.symbol
<1>1. h[k] \in DOMAIN p /\ p[h[k]] = q[k]
    BY ThinnedOrder
<1>2. Abstract!Declarations(p, s) = {} <=> Abstract!Declarations(q, s) = {}
    BY ThinnedDeclarations
<1>3. Abstract!Declarations(q, s) # {} =>
          Abstract!AddressOf(p, b, s) = Abstract!AddressOf(q, b, s)
    BY ThinnedAddress
<1>4. ~(Abstract!IsSymbol(t) /\ Abstract!Declarations(q, s) = {}) =>
          Abstract!Value(p, b, t) = Abstract!Value(q, b, t)
    BY <1>3 DEF Abstract!Value
<1> HIDE DEF t, s
<1>5. /\ Abstract!Refused(q, b, k) <=>
            \/ q[k].kind \in {"invalid", "unended"}
            \/ /\ q[k].kind \in {"branch", "literal"}
               /\ Abstract!IsSymbol(t) /\ Abstract!Declarations(q, s) = {}
            \/ /\ q[k].kind = "branch"
               /\ Abstract!Value(q, b, t) % Abstract!WORD_SIZE_BYTES # 0
      /\ Abstract!Refused(p, b, h[k]) <=>
            \/ q[k].kind \in {"invalid", "unended"}
            \/ /\ q[k].kind \in {"branch", "literal"}
               /\ Abstract!IsSymbol(t) /\ Abstract!Declarations(p, s) = {}
            \/ /\ q[k].kind = "branch"
               /\ Abstract!Value(p, b, t) % Abstract!WORD_SIZE_BYTES # 0
    BY <1>1 DEF Abstract!Refused, t, s
<1>6. QED
    BY <1>2, <1>4, <1>5

\* An empty line is not.
LEMMA EmptyNotRefused ==
    ASSUME NEW p, NEW b, NEW i, p[i].kind = "empty"
    PROVE  ~Abstract!Refused(p, b, i)
BY DEF Abstract!Refused

\* A line that is not refused has the same translation.
LEMMA ThinnedTranslated ==
    ASSUME NEW p \in Seq(Line), NEW q \in Seq(Line), NEW h, Thinned(p, q, h),
           NEW k \in Abstract!CodeLines(q), NEW b, ~Abstract!Refused(q, b, k)
    PROVE  Abstract!Translated(p, b, h[k]) = Abstract!Translated(q, b, k)
<1> DEFINE t == q[k].target
           s == t.symbol
<1>0. k \in DOMAIN q /\ q[k].kind \notin NoCodeKinds /\ q[k] \in Line
    BY CodeLine
<1>1. h[k] \in DOMAIN p /\ p[h[k]] = q[k]
    BY <1>0, ThinnedOrder
<1>2. q[k].kind \in {"plain", "branch", "literal"}
    BY <1>0, LineFields DEF NoCodeKinds, Abstract!Refused
<1>3. CASE q[k].kind = "plain"
    BY <1>1, <1>3 DEF Abstract!Translated
<1>4. CASE q[k].kind \in {"branch", "literal"}
  <2>1. ~(Abstract!IsSymbol(t) /\ Abstract!Declarations(q, s) = {})
    BY <1>4 DEF Abstract!Refused
  <2>2. Abstract!Declarations(q, s) # {} =>
            Abstract!AddressOf(p, b, s) = Abstract!AddressOf(q, b, s)
    BY ThinnedAddress
  <2>3. Abstract!Value(p, b, t) = Abstract!Value(q, b, t)
    BY <2>1, <2>2 DEF Abstract!Value
  <2>4. Abstract!Offset(p, h[k]) = Abstract!Offset(q, k)
    BY <1>0, ThinnedBytes, OffsetIsBytes
  <2>5. Abstract!Distance(p, b, h[k]) = Abstract!Distance(q, b, k)
    BY <1>1, <2>3, <2>4 DEF Abstract!Distance
  <2>6. QED BY <1>1, <2>5 DEF Abstract!Translated
<1>5. QED BY <1>2, <1>3, <1>4

\* The lines of code are the same.
LEMMA ThinnedCode ==
    ASSUME NEW p \in Seq(Line), NEW q \in Seq(Line), NEW h, Thinned(p, q, h)
    PROVE  /\ \A k \in Abstract!CodeLines(q) :
                 k \in DOMAIN q /\ h[k] \in Abstract!CodeLines(p)
           /\ \A i \in Abstract!CodeLines(p) :
                 \E k \in Abstract!CodeLines(q) : h[k] = i
<1>1. ASSUME NEW k \in Abstract!CodeLines(q)
      PROVE  k \in DOMAIN q /\ h[k] \in Abstract!CodeLines(p)
  <2>1. k \in DOMAIN q /\ q[k].kind \notin Abstract!NoCodeKinds
    BY DEF Abstract!CodeLines
  <2>2. h[k] \in DOMAIN p /\ p[h[k]] = q[k]
    BY <2>1, ThinnedOrder
  <2>3. QED BY <2>1, <2>2 DEF Abstract!CodeLines
<1>2. ASSUME NEW i \in Abstract!CodeLines(p)
      PROVE  \E k \in Abstract!CodeLines(q) : h[k] = i
  <2>1. i \in DOMAIN p /\ p[i].kind \notin Abstract!NoCodeKinds
    BY DEF Abstract!CodeLines
  <2>2. p[i].kind # "empty" /\ i \in 1 .. Len(p) /\ DOMAIN q = 1 .. Len(q)
    BY <2>1 DEF Abstract!NoCodeKinds
  <2>3. PICK k \in DOMAIN q : h[k] = i
    BY <2>2 DEF Thinned
  <2>4. q[k] = p[i]
    BY <2>3, ThinnedOrder
  <2>5. QED BY <2>1, <2>3, <2>4 DEF Abstract!CodeLines
<1>3. QED BY <1>1, <1>2

\* Two lines of code are at different offsets.
LEMMA CodeApart ==
    ASSUME NEW p \in Seq(Line), NEW i \in Abstract!CodeLines(p),
           NEW j \in Abstract!CodeLines(p),
           Abstract!Offset(p, i) = Abstract!Offset(p, j)
    PROVE  i = j
<1>1. /\ i \in DOMAIN p /\ p[i].kind \notin NoCodeKinds
      /\ j \in DOMAIN p /\ p[j].kind \notin NoCodeKinds
    BY CodeLine
<1>2. i \in Nat /\ j \in Nat
    BY <1>1
<1>3. Bytes(p, i) = Bytes(p, j) /\ Bytes(p, i) \in Nat
    BY <1>2, OffsetIsBytes, BytesAreWords
<1>4. ~(i < j) /\ ~(j < i)
    BY <1>1, <1>2, <1>3, BytesApart
<1>5. QED BY <1>2, <1>4

\* A source that is not refused is translated as it is without empty lines.
LEMMA EmptyLinesImmaterial ==
    ASSUME NEW p \in Seq(Line), NEW q \in Seq(Line), NEW h, Thinned(p, q, h),
           NEW b, ~HasRefused(q, b)
    PROVE  Abstract!Translation(p, b) = Abstract!Translation(q, b)
<1> DEFINE P == Abstract!CodeLines(p)
           Q == Abstract!CodeLines(q)
           A == {Abstract!Offset(p, i) : i \in P}
           B == {Abstract!Offset(q, k) : k \in Q}
           at(a) == CHOOSE i \in P : Abstract!Offset(p, i) = a
           bt(a) == CHOOSE i \in Q : Abstract!Offset(q, i) = a
<1>1. \A k \in Q : k \in DOMAIN q /\ h[k] \in P
    BY ThinnedCode
<1>2. \A i \in P : \E k \in Q : h[k] = i
    BY ThinnedCode
<1>3. ASSUME NEW k \in Q PROVE Abstract!Offset(p, h[k]) = Abstract!Offset(q, k)
    BY <1>1, ThinnedBytes, OffsetIsBytes
<1>4. A = B
  <2>1. ASSUME NEW i \in P PROVE Abstract!Offset(p, i) \in B
    BY <1>2, <1>3
  <2>2. ASSUME NEW k \in Q PROVE Abstract!Offset(q, k) \in A
    BY <1>1, <1>3
  <2>3. QED BY <2>1, <2>2
<1>5. ASSUME NEW a \in B
      PROVE  Abstract!Translated(p, b, at(a)) = Abstract!Translated(q, b, bt(a))
  <2>1. PICK k \in Q : Abstract!Offset(q, k) = a
    OBVIOUS
  <2>2. bt(a) = k
    <3>1. ASSUME NEW j \in Q, Abstract!Offset(q, j) = a PROVE j = k
      BY <2>1, <3>1, CodeApart
    <3>2. QED BY <2>1, <3>1
  <2>3. at(a) = h[k]
    <3>1. h[k] \in P /\ Abstract!Offset(p, h[k]) = a
      BY <1>1, <1>3, <2>1
    <3>2. ASSUME NEW j \in P, Abstract!Offset(p, j) = a PROVE j = h[k]
      BY <3>1, <3>2, CodeApart
    <3>3. QED BY <3>1, <3>2
  <2>4. ~Abstract!Refused(q, b, k)
    BY <1>1 DEF HasRefused
  <2>5. Abstract!Translated(p, b, h[k]) = Abstract!Translated(q, b, k)
    BY <2>4, ThinnedTranslated
  <2>6. QED BY <2>2, <2>3, <2>5
<1>6. Abstract!Translation(p, b)
          = [a \in A |-> Abstract!Translated(p, b, at(a))]
    BY DEF Abstract!Translation
<1>7. Abstract!Translation(q, b)
          = [a \in B |-> Abstract!Translated(q, b, bt(a))]
    BY DEF Abstract!Translation
<1> HIDE DEF A, B, at, bt
<1>8. QED
    BY <1>4, <1>5, <1>6, <1>7

\* It is refused as it is without them.
LEMMA EmptyLinesNotRefused ==
    ASSUME NEW p \in Seq(Line), NEW q \in Seq(Line), NEW h, Thinned(p, q, h),
           NEW b
    PROVE  HasRefused(p, b) <=> HasRefused(q, b)
<1>1. ASSUME NEW k \in DOMAIN q, Abstract!Refused(q, b, k)
      PROVE  h[k] \in DOMAIN p /\ Abstract!Refused(p, b, h[k])
    BY <1>1, ThinnedOrder, ThinnedRefused
<1>2. ASSUME NEW i \in DOMAIN p, Abstract!Refused(p, b, i)
      PROVE  \E k \in DOMAIN q : Abstract!Refused(q, b, k)
  <2>1. p[i].kind # "empty"
    BY <1>2, EmptyNotRefused
  <2>2. i \in 1 .. Len(p) /\ DOMAIN q = 1 .. Len(q)
    OBVIOUS
  <2>3. PICK k \in DOMAIN q : h[k] = i
    BY <2>1, <2>2 DEF Thinned
  <2>4. QED BY <1>2, <2>3, ThinnedRefused
<1>3. QED BY <1>1, <1>2 DEF HasRefused

-----------------------------------------------------------------------------
(***************************************************************************)
(* Reading line by line.                                                   *)
(***************************************************************************)
\* A reading step after the characters x is that of the rest of the file.
LEMMA StopsAfter ==
    ASSUME NEW x \in Seq(1 .. 127), NEW g \in Seq(1 .. 127),
           NEW k \in 1 .. Len(g)
    PROVE  \E e \in k .. Len(g) :
              /\ Len(fgets(g, k)) = e - k + 1
              /\ fgets(x \o g, Len(x) + k) = fgets(g, k)
<1> DEFINE f == x \o g
           d == Len(x)
<1>1. /\ d \in Nat /\ Len(g) \in Nat /\ k \in Nat
      /\ MAX_LINE_LENGTH \in Nat
    BY FileAssumption
<1>2. /\ f \in Seq(1 .. 127) /\ Len(f) = d + Len(g)
      /\ \A i \in 1 .. d + Len(g) : f[i] = IF i <= d THEN x[i] ELSE g[i - d]
    BY ConcatProperties
<1> HIDE DEF f, d
<1>3. \A i \in 1 .. Len(g) : f[d + i] = g[i]
  <2>1. \A i \in 1 .. Len(g) :
           d + i \in 1 .. d + Len(g) /\ ~(d + i <= d) /\ (d + i) - d = i
    BY <1>1
  <2>2. QED BY <1>2, <2>1
<1>4. PICK e : Stops(g, k, e) /\ fgets(g, k) = SubSeq(g, k, e)
    BY BufferStops
<1>5. e \in k .. Len(g) /\ e \in Nat
    BY <1>1, <1>4 DEF Stops
<1>6. d + k \in 1 .. Len(f)
    BY <1>1, <1>2
<1> DEFINE y == d + k
           z == d + e
<1>7. Stops(f, y, z)
  <2>1. z \in y .. Len(f) /\ z <= y + MAX_LINE_LENGTH - 2
    BY <1>1, <1>2, <1>4, <1>5 DEF Stops
  <2>2. ASSUME NEW i \in y .. z - 1 PROVE f[i] # Newline
    <3>1. i - d \in k .. e - 1 /\ i - d \in 1 .. Len(g) /\ d + (i - d) = i
      BY <1>1, <1>5
    <3>2. g[i - d] # Newline
      BY <1>4, <3>1 DEF Stops
    <3>3. QED BY <1>3, <3>1, <3>2
  <2>3. f[z] = g[e]
    BY <1>1, <1>3, <1>5
  <2>4. f[z] = Newline \/ z = Len(f) \/ z = y + MAX_LINE_LENGTH - 2
    <3>1. g[e] = Newline \/ e = Len(g) \/ e = k + MAX_LINE_LENGTH - 2
      BY <1>4 DEF Stops
    <3>2. d + Len(g) = Len(f) /\ e \in Nat
      BY <1>2, <1>5
    <3>3. CASE g[e] = Newline
      BY <2>3, <3>3
    <3>4. CASE e = Len(g)
      BY <3>2, <3>4
    <3>5. CASE e = k + MAX_LINE_LENGTH - 2
      BY <1>1, <3>2, <3>5
    <3>6. QED BY <3>1, <3>3, <3>4, <3>5
  <2> HIDE DEF y, z
  <2>5. QED BY <2>1, <2>2, <2>4 DEF Stops
<1>8. fgets(f, d + k) = SubSeq(f, d + k, d + e)
    BY <1>2, <1>6, <1>7, StopsOnce
<1>9. SubSeq(f, d + k, d + e) = SubSeq(g, k, e)
  <2>1. d + k \in d + 1 .. d + Len(g) /\ d + e \in d + 1 .. d + Len(g)
        /\ (d + k) - d = k /\ (d + e) - d = e
    BY <1>1, <1>5
  <2>2. SubSeq(f, d + k, d + e) = SubSeq(g, (d + k) - d, (d + e) - d)
    BY <2>1, SubSeqOfConcat2 DEF f, d
  <2>3. QED BY <2>1, <2>2
<1>10. Len(SubSeq(g, k, e)) = e - k + 1
  <2>1. k \in Int /\ e \in Int /\ 1 <= k /\ e <= Len(g) /\ k <= e + 1
    BY <1>1, <1>5
  <2>2. QED BY <2>1, PartOf
<1>11. QED BY <1>4, <1>5, <1>8, <1>9, <1>10 DEF f, d

\* What is read after the characters x is what is read of the rest alone.
LEMMA ReadAfter ==
    ASSUME NEW x \in Seq(1 .. 127), NEW g \in Seq(1 .. 127), NEW r, NEW s,
           Reads(x \o g, r), Reads(g, s)
    PROVE  r[Len(x) + 1] = s[1]
<1> DEFINE f == x \o g
           d == Len(x)
           n == Len(g)
           T == {k \in 1 .. n + 1 : r[d + k] = s[k]}
<1>1. d \in Nat /\ n \in Nat
    OBVIOUS
<1>2. Len(f) = d + n
    BY ConcatProperties
<1> HIDE DEF f
<1>3. \A k \in 1 .. n + 1 : d + k \in 1 .. Len(f) + 1
    BY <1>1, <1>2
<1>4. \A k \in 1 .. n + 1 : /\ r[d + k] = ReadStep(f, r, d + k)
                            /\ s[k] = ReadStep(g, s, k)
    BY <1>3 DEF f, Reads
<1>5. n + 1 \in T
  <2>1. n + 1 \in 1 .. n + 1 /\ n + 1 > Len(g) /\ d + (n + 1) > Len(f)
    BY <1>1, <1>2
  <2>2. ReadStep(g, s, n + 1) = <<>> /\ ReadStep(f, r, d + (n + 1)) = <<>>
    BY <2>1 DEF ReadStep
  <2>3. QED BY <1>4, <2>1, <2>2
<1>6. ASSUME NEW k \in 1 .. n, k + 1 .. n + 1 \subseteq T PROVE k \in T
  <2> DEFINE buffer == fgets(g, k)
  <2>1. PICK e \in k .. n : /\ Len(buffer) = e - k + 1
                            /\ fgets(f, d + k) = buffer
    BY StopsAfter DEF f
  <2>2. /\ k \in 1 .. n + 1 /\ ~(k > Len(g)) /\ ~(d + k > Len(f))
        /\ k + Len(buffer) = e + 1 /\ d + k + Len(buffer) = d + (e + 1)
        /\ e + 1 \in k + 1 .. n + 1
    BY <1>1, <1>2, <2>1
  <2>3. r[d + (e + 1)] = s[e + 1]
    BY <1>6, <2>2
  <2> HIDE DEF buffer
  <2>4. ReadStep(g, s, k) = IF Last(buffer) # Newline
                            THEN <<[kind |-> "unended"]>>
                            ELSE <<process_line(Front(buffer))>> \o s[e + 1]
    BY <2>2 DEF ReadStep, buffer
  <2>5. ReadStep(f, r, d + k) = IF Last(buffer) # Newline
                            THEN <<[kind |-> "unended"]>>
                            ELSE <<process_line(Front(buffer))>>
                                    \o r[d + (e + 1)]
    BY <2>1, <2>2 DEF ReadStep
  <2>6. r[d + k] = s[k]
    BY <1>4, <2>2, <2>3, <2>4, <2>5
  <2>7. QED BY <2>2, <2>6
<1>7. 1 .. n + 1 \subseteq T
  <2> HIDE DEF T, n
  <2>1. QED BY <1>1, <1>5, <1>6, Backward
<1>8. QED BY <1>1, <1>7

\* A file that begins with a line that fits the buffer.
LEMMA ReadFirst ==
    ASSUME NEW s \in Seq(1 .. 127), NEW g \in Seq(1 .. 127),
           \A i \in 1 .. Len(s) : s[i] # Newline,
           Len(s) + 1 <= MAX_LINE_LENGTH - 1
    PROVE  read_file((s \o <<Newline>>) \o g)
               = <<process_line(s)>> \o read_file(g)
<1> DEFINE x == s \o <<Newline>>
           f == x \o g
           m == Len(s) + 1
<1>1. Newline \in 1 .. 127 /\ <<Newline>> \in Seq(1 .. 127)
      /\ Len(<<Newline>>) = 1 /\ <<Newline>>[1] = Newline
    BY DEF Newline
<1>2. Len(s) \in Nat /\ Len(g) \in Nat /\ m \in Nat /\ m >= 1
      /\ MAX_LINE_LENGTH \in Nat
    BY FileAssumption
<1>3. /\ x \in Seq(1 .. 127) /\ Len(x) = m
      /\ \A i \in 1 .. m : x[i] = IF i <= Len(s) THEN s[i]
                                  ELSE <<Newline>>[i - Len(s)]
    BY <1>1, ConcatProperties
<1>4. x[m] = Newline
    BY <1>1, <1>2, <1>3
<1>5. \A i \in 1 .. Len(s) : x[i] = s[i]
  <2>1. 1 .. Len(s) \subseteq 1 .. m
    BY <1>2
  <2>2. \A i \in 1 .. Len(s) : i <= Len(s)
    BY <1>2
  <2>3. QED BY <1>3, <2>1, <2>2
<1> HIDE DEF x, m
<1>6. /\ f \in Seq(1 .. 127) /\ Len(f) = m + Len(g)
      /\ \A i \in 1 .. m + Len(g) : f[i] = IF i <= m THEN x[i] ELSE g[i - m]
    BY <1>3, ConcatProperties
<1>7. \A i \in 1 .. m : f[i] = x[i]
  <2>1. 1 .. m \subseteq 1 .. m + Len(g)
    BY <1>2
  <2>2. \A i \in 1 .. m : i <= m
    BY <1>2
  <2>3. QED BY <1>6, <2>1, <2>2
<1>8. 1 \in 1 .. Len(f) /\ m \in 1 .. Len(f) /\ m \in 1 .. m
    BY <1>2, <1>6
<1>9. Stops(f, 1, m)
  <2>1. m <= 1 + MAX_LINE_LENGTH - 2
    BY <1>2 DEF m
  <2>2. ASSUME NEW i \in 1 .. m - 1 PROVE f[i] # Newline
    <3>1. i \in 1 .. Len(s) /\ i \in 1 .. m
      BY <1>2 DEF m
    <3>2. f[i] = s[i]
      BY <1>5, <1>7, <3>1
    <3>3. QED BY <3>1, <3>2
  <2>3. f[m] = Newline
    BY <1>4, <1>7, <1>8
  <2>4. QED BY <1>8, <2>1, <2>2, <2>3 DEF Stops
<1>10. fgets(f, 1) = x
  <2>1. fgets(f, 1) = SubSeq(f, 1, m)
    BY <1>6, <1>8, <1>9, StopsOnce
  <2>2. SubSeq(f, 1, m) = SubSeq(x, 1, m)
    <3>1. 1 \in 1 .. Len(x) /\ m \in 1 .. Len(x)
      BY <1>2, <1>3
    <3>2. QED BY <1>3, <3>1, SubSeqOfConcat1
  <2>3. SubSeq(x, 1, Len(x)) = x
    BY <1>3, SubSeqFull
  <2>4. QED BY <1>3, <2>1, <2>2, <2>3
<1>11. Last(x) = Newline
    BY <1>3, <1>4 DEF Last
<1>12. Front(x) = s
  <2>1. 1 \in Int /\ m - 1 \in Int /\ 1 <= 1 /\ m - 1 <= Len(x)
        /\ 1 <= (m - 1) + 1 /\ (m - 1) - 1 + 1 = Len(s)
    BY <1>2, <1>3 DEF m
  <2>2. /\ SubSeq(x, 1, m - 1) \in Seq(1 .. 127)
        /\ Len(SubSeq(x, 1, m - 1)) = (m - 1) - 1 + 1
        /\ \A k \in 1 .. (m - 1) - 1 + 1 :
              SubSeq(x, 1, m - 1)[k] = x[1 + k - 1]
    BY <1>3, <2>1, PartOf
  <2>3. \A k \in 1 .. Len(s) : SubSeq(x, 1, m - 1)[k] = s[k]
    <3>1. \A k \in 1 .. Len(s) : 1 + k - 1 = k
      BY <1>2
    <3>2. QED BY <1>5, <2>1, <2>2, <3>1
  <2>4. SubSeq(x, 1, m - 1) = s
    <3>1. Len(SubSeq(x, 1, m - 1)) = Len(s)
      BY <2>1, <2>2
    <3>2. QED BY <2>2, <2>3, <3>1, SeqEqual
  <2>5. QED BY <1>3, <2>4 DEF Front
<1>13. PICK r : read_file(f) = r[1] /\ Reads(f, r)
    BY <1>6, ReadingFacts DEF Reads
<1>14. PICK u : read_file(g) = u[1] /\ Reads(g, u)
    BY ReadingFacts DEF Reads
<1>15. r[m + 1] = u[1]
  <2>1. r[Len(x) + 1] = u[1]
    BY <1>3, <1>13, <1>14, ReadAfter
  <2>2. QED BY <1>3, <2>1
<1>16. 1 \in 1 .. Len(f) + 1 /\ ~(1 > Len(f)) /\ 1 + Len(x) = m + 1
    BY <1>2, <1>3, <1>6
<1>17. r[1] = <<process_line(s)>> \o r[m + 1]
    BY <1>10, <1>11, <1>12, <1>13, <1>16 DEF ReadStep, Reads
<1>18. QED BY <1>13, <1>14, <1>15, <1>17 DEF x

-----------------------------------------------------------------------------
(***************************************************************************)
(* The bare file, which is taken from the file by a recursive function.    *)
(***************************************************************************)
KeepStep(f, r, i) ==
    IF i > Len(f) THEN <<>>
    ELSE IF Matters(i) THEN <<tolower(f[i])>> \o r[i + 1]
    ELSE r[i + 1]

IsKeeping(r) == r = [i \in 1 .. Len(file) + 1 |-> KeepStep(file, r, i)]
Keeps(r) == \A i \in 1 .. Len(file) + 1 : r[i] = KeepStep(file, r, i)

LEMMA BareIsKeeping == Bare = (CHOOSE r : IsKeeping(r))[1]
BY DEF Bare, IsKeeping, KeepStep

\* Such a function exists: it is built from the end of the file.
LEMMA KeepingExists ==
    ASSUME file \in Seq(1 .. 127)
    PROVE  \E r : IsKeeping(r)
<1> DEFINE n == Len(file)
           Partial(r, k) == /\ r = [i \in 1 .. n + 1 |-> r[i]]
                            /\ \A i \in k .. n + 1 :
                                  r[i] = KeepStep(file, r, i)
           T == {k \in 1 .. n + 1 : \E r : Partial(r, k)}
<1>1. n \in Nat
  OBVIOUS
<1>0. ASSUME NEW r, NEW q, NEW i, r[i + 1] = q[i + 1]
      PROVE  KeepStep(file, r, i) = KeepStep(file, q, i)
  BY <1>0 DEF KeepStep
<1>2. n + 1 \in T
  <2> DEFINE r == [i \in 1 .. n + 1 |-> <<>>]
  <2>1. n + 1 > Len(file) /\ n + 1 \in 1 .. n + 1
    BY <1>1
  <2>2. r[n + 1] = KeepStep(file, r, n + 1)
    BY <2>1 DEF KeepStep
  <2>3. r = [i \in 1 .. n + 1 |-> r[i]]
    OBVIOUS
  <2>4. \A i \in n + 1 .. n + 1 : i = n + 1
    BY <1>1
  <2> HIDE DEF r, n
  <2>5. Partial(r, n + 1)
    BY <2>2, <2>3, <2>4
  <2>6. QED BY <2>1, <2>5
<1> HIDE DEF n
<1>3. ASSUME NEW k \in 1 .. n, k + 1 .. n + 1 \subseteq T
      PROVE  k \in T
  <2>1. k + 1 \in T
    BY <1>1, <1>3
  <2>2. PICK q : Partial(q, k + 1)
    BY <2>1
  <2> DEFINE r == [i \in 1 .. n + 1 |->
                      IF i = k THEN KeepStep(file, q, k) ELSE q[i]]
  <2>3. r = [i \in 1 .. n + 1 |-> r[i]]
    OBVIOUS
  <2>4. \A i \in k + 1 .. n + 1 : r[i] = q[i]
    BY <1>1
  <2>5. r[k] = KeepStep(file, q, k)
    BY <1>1
  <2> HIDE DEF r
  <2>6. r[k] = KeepStep(file, r, k)
    <3>1. r[k + 1] = q[k + 1]
      BY <1>1, <2>4
    <3>2. QED BY <1>0, <2>5, <3>1
  <2>7. ASSUME NEW i \in k + 1 .. n + 1 PROVE r[i] = KeepStep(file, r, i)
    <3>1. q[i] = KeepStep(file, q, i)
      BY <2>2
    <3>2. CASE i = n + 1
      <4>1. i > Len(file)
        BY <1>1, <3>2 DEF n
      <4>2. KeepStep(file, q, i) = <<>> /\ KeepStep(file, r, i) = <<>>
        BY <4>1 DEF KeepStep
      <4>3. QED BY <2>4, <3>1, <4>2
    <3>3. CASE i # n + 1
      <4>1. i + 1 \in k + 1 .. n + 1
        BY <1>1, <3>3
      <4>2. r[i + 1] = q[i + 1]
        BY <2>4, <4>1
      <4>3. KeepStep(file, r, i) = KeepStep(file, q, i)
        BY <1>0, <4>2
      <4>4. QED BY <2>4, <3>1, <4>3
    <3>4. QED BY <3>2, <3>3
  <2>8. \A i \in k .. n + 1 : r[i] = KeepStep(file, r, i)
    <3>1. \A i \in k .. n + 1 : i = k \/ i \in k + 1 .. n + 1
      BY <1>1
    <3>2. QED BY <2>6, <2>7, <3>1
  <2>9. Partial(r, k)
    BY <2>3, <2>8
  <2>10. k \in 1 .. n + 1
    BY <1>1
  <2>11. QED BY <2>9, <2>10
<1>4. 1 .. n + 1 \subseteq T
  <2> HIDE DEF T
  <2>1. QED BY <1>1, <1>2, <1>3, Backward
<1>5. 1 \in T
  BY <1>1, <1>4
<1>6. PICK r : Partial(r, 1)
  BY <1>5
<1>7. r = [i \in 1 .. Len(file) + 1 |-> KeepStep(file, r, i)]
  BY <1>6 DEF n
<1>8. QED BY <1>7 DEF IsKeeping

\* The bare file, by steps from the end of the file.
LEMMA BareFacts ==
    ASSUME file \in Seq(1 .. 127)
    PROVE  \E r : Bare = r[1] /\ Keeps(r)
<1> DEFINE r == CHOOSE x : IsKeeping(x)
<1>1. IsKeeping(r)
  BY KeepingExists
<1>2. Bare = r[1]
  BY BareIsKeeping
<1> HIDE DEF r
<1>3. Keeps(r)
  BY <1>1 DEF IsKeeping, Keeps
<1>4. QED BY <1>2, <1>3

\* A letter in lower case is a character, a letter, and not blank.
LEMMA LowerCharacter ==
    ASSUME NEW c \in 1 .. 127
    PROVE  /\ tolower(c) \in 1 .. 127
           /\ tolower(tolower(c)) = tolower(c)
           /\ isspace(tolower(c)) <=> isspace(c)
           /\ tolower(c) = Newline <=> c = Newline
           /\ tolower(c) = Slash <=> c = Slash
BY DEF tolower, isupper, isspace, Newline, Slash, Space

\* The characters from i to j, in lower case.
Lower(i, j) == [k \in 1 .. j - i + 1 |-> tolower(file[i + k - 1])]

LEMMA LowerIsText ==
    ASSUME file \in Seq(1 .. 127), NEW i \in Nat, NEW j \in Nat,
           1 <= i, i <= j + 1, j <= Len(file)
    PROVE  /\ Lower(i, j) \in Seq(1 .. 127) /\ Len(Lower(i, j)) = j - i + 1
           /\ \A k \in 1 .. j - i + 1 :
                 Lower(i, j)[k] = tolower(file[i + k - 1])
<1>1. j - i + 1 \in Nat /\ Len(file) \in Nat
  OBVIOUS
<1>2. ASSUME NEW k \in 1 .. j - i + 1 PROVE tolower(file[i + k - 1]) \in 1 .. 127
  <2>1. i + k - 1 \in 1 .. Len(file)
    BY <1>1
  <2>2. file[i + k - 1] \in 1 .. 127
    BY <2>1, ElementOfSeq
  <2>3. QED BY <2>2, LowerCharacter
<1>3. Lower(i, j) \in [1 .. j - i + 1 -> 1 .. 127]
  BY <1>2 DEF Lower
<1>4. Lower(i, j) \in Seq(1 .. 127) /\ Len(Lower(i, j)) = j - i + 1
  BY <1>1, <1>3
<1>5. QED BY <1>4 DEF Lower

\* What is kept from a place on is text.
LEMMA KeptIsText ==
    ASSUME file \in Seq(1 .. 127), NEW r, Keeps(r)
    PROVE  \A i \in 1 .. Len(file) + 1 : r[i] \in Seq(1 .. 127)
<1> DEFINE n == Len(file)
           T == {i \in 1 .. n + 1 : r[i] \in Seq(1 .. 127)}
<1>1. n \in Nat
  OBVIOUS
<1>2. n + 1 \in T
  <2>1. n + 1 > Len(file) /\ n + 1 \in 1 .. n + 1
    BY <1>1
  <2>2. r[n + 1] = <<>>
    BY <2>1 DEF Keeps, KeepStep
  <2>3. <<>> \in Seq(1 .. 127)
    OBVIOUS
  <2>4. QED BY <2>1, <2>2, <2>3
<1>3. ASSUME NEW i \in 1 .. n, i + 1 .. n + 1 \subseteq T PROVE i \in T
  <2>0. i + 1 \in i + 1 .. n + 1 /\ i \in 1 .. n + 1 /\ ~(i > Len(file))
    BY <1>1
  <2>1. i + 1 \in T /\ i \in 1 .. n + 1 /\ ~(i > Len(file))
    <3> HIDE DEF T
    <3>1. QED BY <1>3, <2>0
  <2>2. r[i] = IF Matters(i) THEN <<tolower(file[i])>> \o r[i + 1] ELSE r[i + 1]
    BY <2>1 DEF Keeps, KeepStep
  <2>3. r[i + 1] \in Seq(1 .. 127)
    BY <2>1
  <2>4. file[i] \in 1 .. 127
    BY ElementOfSeq
  <2>5. <<tolower(file[i])>> \in Seq(1 .. 127)
    <3>1. tolower(file[i]) \in 1 .. 127
      BY <2>4, LowerCharacter
    <3>2. QED BY <3>1
  <2>6. <<tolower(file[i])>> \o r[i + 1] \in Seq(1 .. 127)
    BY <2>3, <2>5, ConcatProperties
  <2>7. r[i] \in Seq(1 .. 127)
    BY <2>2, <2>3, <2>6
  <2>8. QED BY <2>1, <2>7
<1>4. 1 .. n + 1 \subseteq T
  <2> HIDE DEF T, n
  <2>1. QED BY <1>1, <1>2, <1>3, Backward
<1>5. QED BY <1>4

\* Characters that do not matter leave nothing.
LEMMA KeptNone ==
    ASSUME file \in Seq(1 .. 127), NEW r, Keeps(r), NEW i \in Nat, NEW j \in Nat,
           1 <= i, i <= j + 1, j <= Len(file), \A k \in i .. j : ~Matters(k)
    PROVE  r[i] = r[j + 1]
<1> DEFINE T == {k \in 1 .. j + 1 : i <= k => r[k] = r[j + 1]}
<1>1. j + 1 \in T
  OBVIOUS
<1>2. ASSUME NEW k \in 1 .. j, k + 1 .. j + 1 \subseteq T PROVE k \in T
  <2>1. k + 1 \in T /\ k \in 1 .. j + 1
    BY <1>2
  <2>2. ASSUME i <= k PROVE r[k] = r[j + 1]
    <3>1. k \in i .. j /\ i <= k + 1 /\ k \in 1 .. Len(file) + 1
          /\ ~(k > Len(file))
      BY <2>2
    <3>2. ~Matters(k)
      BY <3>1
    <3>3. r[k] = r[k + 1]
      BY <3>1, <3>2 DEF Keeps, KeepStep
    <3>4. r[k + 1] = r[j + 1]
      BY <2>1, <3>1
    <3>5. QED BY <3>3, <3>4
  <2>3. QED BY <2>1, <2>2
<1>3. 1 .. j + 1 \subseteq T
  <2> HIDE DEF T
  <2>1. QED BY <1>1, <1>2, Backward
<1>4. i \in T
  BY <1>3
<1>5. QED BY <1>4

\* Characters that matter stay, in lower case.
LEMMA KeptAll ==
    ASSUME file \in Seq(1 .. 127), NEW r, Keeps(r), NEW i \in Nat, NEW j \in Nat,
           1 <= i, i <= j + 1, j <= Len(file), \A k \in i .. j : Matters(k)
    PROVE  r[i] = Lower(i, j) \o r[j + 1]
<1> DEFINE T == {k \in 1 .. j + 1 : i <= k => r[k] = Lower(k, j) \o r[j + 1]}
           rest == r[j + 1]
<1>0. rest \in Seq(1 .. 127)
  <2>1. j + 1 \in 1 .. Len(file) + 1
    OBVIOUS
  <2>2. QED BY <2>1, KeptIsText
<1> HIDE DEF rest
<1>1. j + 1 \in T
  <2>1. Lower(j + 1, j) = <<>>
    <3>1. /\ Lower(j + 1, j) \in Seq(1 .. 127) /\ Len(Lower(j + 1, j)) = 0
      <4>1. j + 1 \in Nat /\ 1 <= j + 1 /\ j + 1 <= j + 1 /\ j - (j + 1) + 1 = 0
        OBVIOUS
      <4>2. QED BY <4>1, LowerIsText
    <3>2. QED BY <3>1, EmptySeq
  <2>2. <<>> \o rest = rest
    BY <1>0, ConcatEmptySeq
  <2>3. rest = Lower(j + 1, j) \o rest
    BY <2>1, <2>2
  <2>4. j + 1 \in 1 .. j + 1
    OBVIOUS
  <2>5. QED BY <2>3, <2>4 DEF rest
<1>2. ASSUME NEW k \in 1 .. j, k + 1 .. j + 1 \subseteq T PROVE k \in T
  <2>1. k + 1 \in T /\ k \in 1 .. j + 1
    BY <1>2
  <2>2. ASSUME i <= k PROVE r[k] = Lower(k, j) \o rest
    <3>1. k \in i .. j /\ i <= k + 1 /\ k \in 1 .. Len(file) + 1
          /\ ~(k > Len(file)) /\ k \in 1 .. Len(file)
      BY <2>2
    <3>2. Matters(k)
      BY <3>1
    <3> DEFINE c == <<tolower(file[k])>>
               l == Lower(k + 1, j)
    <3>3. r[k] = c \o r[k + 1]
      BY <3>1, <3>2 DEF Keeps, KeepStep
    <3>4. r[k + 1] = l \o rest
      BY <2>1, <3>1 DEF rest
    <3>5. tolower(file[k]) \in 1 .. 127
      <4>1. file[k] \in 1 .. 127
        BY <3>1, ElementOfSeq
      <4>2. QED BY <4>1, LowerCharacter
    <3>6. c \in Seq(1 .. 127) /\ Len(c) = 1 /\ c[1] = tolower(file[k])
      BY <3>5
    <3>7. /\ l \in Seq(1 .. 127) /\ Len(l) = j - k
          /\ \A m \in 1 .. j - k : l[m] = tolower(file[k + m])
      <4>1. k + 1 \in Nat /\ 1 <= k + 1 /\ k + 1 <= j + 1
            /\ j - (k + 1) + 1 = j - k
        OBVIOUS
      <4>2. /\ l \in Seq(1 .. 127) /\ Len(l) = j - (k + 1) + 1
            /\ \A m \in 1 .. j - (k + 1) + 1 :
                  l[m] = tolower(file[(k + 1) + m - 1])
        BY <4>1, LowerIsText
      <4>3. \A m \in 1 .. j - k : (k + 1) + m - 1 = k + m
        OBVIOUS
      <4>4. QED BY <4>1, <4>2, <4>3
    <3>8. /\ Lower(k, j) \in Seq(1 .. 127) /\ Len(Lower(k, j)) = j - k + 1
          /\ \A m \in 1 .. j - k + 1 :
                Lower(k, j)[m] = tolower(file[k + m - 1])
      <4>1. k \in Nat /\ 1 <= k /\ k <= j + 1
        OBVIOUS
      <4>2. QED BY <4>1, LowerIsText
    <3> HIDE DEF c, l
    <3>9. /\ c \o l \in Seq(1 .. 127) /\ Len(c \o l) = 1 + (j - k)
          /\ \A m \in 1 .. 1 + (j - k) :
                (c \o l)[m] = IF m <= 1 THEN c[m] ELSE l[m - 1]
      <4>1. c \in Seq(1 .. 127) /\ l \in Seq(1 .. 127)
        BY <3>6, <3>7
      <4>2. /\ c \o l \in Seq(1 .. 127) /\ Len(c \o l) = Len(c) + Len(l)
            /\ \A m \in 1 .. Len(c) + Len(l) :
                  (c \o l)[m] = IF m <= Len(c) THEN c[m] ELSE l[m - Len(c)]
        BY <4>1, ConcatProperties
      <4>3. Len(c) = 1 /\ Len(l) = j - k
        BY <3>6, <3>7
      <4>4. QED BY <4>2, <4>3
    <3>10. ASSUME NEW m \in 1 .. j - k + 1 PROVE (c \o l)[m] = Lower(k, j)[m]
      <4>1. m \in 1 .. 1 + (j - k)
        OBVIOUS
      <4>2. CASE m = 1
        <5>1. k + m - 1 = k /\ m <= 1
          BY <4>2
        <5>2. QED BY <3>6, <3>8, <3>9, <4>1, <4>2, <5>1
      <4>3. CASE m # 1
        <5>1. m - 1 \in 1 .. j - k /\ k + (m - 1) = k + m - 1 /\ ~(m <= 1)
          BY <4>3
        <5>2. l[m - 1] = tolower(file[k + m - 1])
          BY <3>7, <5>1
        <5>3. QED BY <3>8, <3>9, <4>1, <5>1, <5>2
      <4>4. QED BY <4>2, <4>3
    <3>11. Len(c \o l) = Len(Lower(k, j)) /\ Len(c \o l) = j - k + 1
      BY <3>8, <3>9
    <3>12. c \o l = Lower(k, j)
      BY <3>8, <3>9, <3>10, <3>11, SeqEqual
    <3>13. (c \o l) \o rest = c \o (l \o rest)
      <4>1. c \in Seq(1 .. 127) /\ l \in Seq(1 .. 127)
        BY <3>6, <3>7
      <4>2. QED BY <1>0, <4>1, ConcatAssociative
    <3>14. QED BY <3>3, <3>4, <3>12, <3>13
  <2>3. QED BY <2>1, <2>2 DEF rest
<1>3. 1 .. j + 1 \subseteq T
  <2> HIDE DEF T
  <2>1. QED BY <1>1, <1>2, Backward
<1>4. i \in T
  BY <1>3
<1>5. QED BY <1>4

-----------------------------------------------------------------------------
(***************************************************************************)
(* What process_line makes of a line.                                      *)
(***************************************************************************)
\* Two slashes at or before place k of a line, and what is neither blank nor
\* after them.
SlashesBy(s, k) ==
    \E m \in 1 .. k : m + 1 <= Len(s) /\ s[m] = Slash /\ s[m + 1] = Slash
Ink(s, k) == ~isspace(s[k]) /\ ~SlashesBy(s, k)

\* preprocess_line cuts the line there.
LEMMA LineCut ==
    ASSUME NEW s \in Seq(1 .. 127)
    PROVE  \E c \in 0 .. Len(s) :
              /\ preprocess_line(s) = SubSeq(s, 1, c)
              /\ \A k \in 1 .. Len(s) : k > c <=> SlashesBy(s, k)
<1> DEFINE slashes == {i \in 1 .. Len(s) - 1 : s[i] = Slash /\ s[i + 1] = Slash}
           first == CHOOSE i \in slashes : \A j \in slashes : i <= j
<1>1. Len(s) \in Nat
    OBVIOUS
<1>2. preprocess_line(s) = IF slashes = {} THEN s ELSE SubSeq(s, 1, first - 1)
    BY DEF preprocess_line
<1>3. \A k \in 1 .. Len(s) : SlashesBy(s, k) <=> \E m \in slashes : m <= k
  <2>1. ASSUME NEW k \in 1 .. Len(s), SlashesBy(s, k)
        PROVE  \E m \in slashes : m <= k
    <3>1. PICK m \in 1 .. k : m + 1 <= Len(s) /\ s[m] = Slash /\ s[m + 1] = Slash
      BY <2>1 DEF SlashesBy
    <3>2. m \in 1 .. Len(s) - 1 /\ m <= k
      BY <1>1, <3>1
    <3>3. QED BY <3>1, <3>2
  <2>2. ASSUME NEW k \in 1 .. Len(s), NEW m \in slashes, m <= k
        PROVE  SlashesBy(s, k)
    <3>1. m \in 1 .. k /\ m + 1 <= Len(s)
      BY <1>1, <2>2
    <3>2. QED BY <3>1 DEF SlashesBy
  <2>3. QED BY <2>1, <2>2
<1>4. CASE slashes = {}
  <2>1. preprocess_line(s) = SubSeq(s, 1, Len(s))
    BY <1>2, <1>4, SubSeqFull
  <2>2. Len(s) \in 0 .. Len(s) /\ \A k \in 1 .. Len(s) : ~(k > Len(s))
    BY <1>1
  <2> HIDE DEF slashes
  <2>3. \A k \in 1 .. Len(s) : ~SlashesBy(s, k)
    BY <1>3, <1>4
  <2>4. QED BY <2>1, <2>2, <2>3
<1>5. CASE slashes # {}
  <2>1. slashes \subseteq Nat
    OBVIOUS
  <2>2. \E i \in slashes : \A j \in slashes : i <= j
    <3> HIDE DEF slashes
    <3>1. QED BY <1>5, <2>1, LeastElement
  <2>3. first \in slashes /\ \A j \in slashes : first <= j
    <3> HIDE DEF slashes
    <3>1. QED BY <2>2
  <2>4. first \in 1 .. Len(s) - 1
    BY <2>3
  <2> HIDE DEF first
  <2>5. first - 1 \in 0 .. Len(s)
    BY <1>1, <2>4
  <2>6. preprocess_line(s) = SubSeq(s, 1, first - 1)
    BY <1>2, <1>5
  <2>7. ASSUME NEW k \in 1 .. Len(s)
        PROVE  k > first - 1 <=> \E m \in slashes : m <= k
    <3>1. \A m \in slashes : m \in Nat
      BY <2>1
    <3> HIDE DEF slashes
    <3>2. k > first - 1 <=> first <= k
      BY <1>1, <2>4
    <3>3. ASSUME NEW m \in slashes, m <= k PROVE first <= k
      <4>1. first <= m /\ m \in Nat /\ first \in Nat
        BY <2>3, <2>4, <3>1
      <4>2. QED BY <3>3, <4>1
    <3>4. QED BY <2>3, <3>2, <3>3
  <2> HIDE DEF slashes
  <2>8. \A k \in 1 .. Len(s) : k > first - 1 <=> SlashesBy(s, k)
    BY <1>3, <2>7
  <2>9. QED BY <2>5, <2>6, <2>8
<1>6. QED BY <1>4, <1>5

\* strip_line goes from the first visible character to the last.
LEMMA StripBetween ==
    ASSUME NEW s \in Seq(1 .. 127), NEW i \in 1 .. Len(s), NEW j \in 1 .. Len(s),
           ~isspace(s[i]), ~isspace(s[j]),
           \A k \in 1 .. Len(s) : ~isspace(s[k]) => i <= k /\ k <= j
    PROVE  strip_line(s) = [k \in 1 .. j - i + 1 |-> tolower(s[i + k - 1])]
<1> DEFINE I == {k \in 1 .. Len(s) : ~isspace(s[k])}
           visible(c) == ~isspace(c)
<1>1. i \in I /\ j \in I /\ i \in Nat /\ j \in Nat /\ I # {} /\ I \subseteq Nat
    OBVIOUS
<1>2. \A k \in I : i <= k /\ k <= j
    OBVIOUS
<1>3. SelectInSeq(s, visible) = IF I # {} THEN Min(I) ELSE 0
    BY DEF SelectInSeq
<1>4. SelectLastInSeq(s, visible) = IF I # {} THEN Max(I) ELSE 0
    BY DEF SelectLastInSeq
<1>5. strip_line(s) =
          LET first == SelectInSeq(s, visible)
              last == SelectLastInSeq(s, visible)
          IN  IF first = 0 THEN <<>>
              ELSE [k \in 1 .. last - first + 1 |-> tolower(s[first + k - 1])]
    BY DEF strip_line
<1> HIDE DEF I, visible
<1>6. Min(I) = i
  <2>1. ASSUME NEW x \in I, \A y \in I : x <= y PROVE x = i
    <3>1. x <= i /\ i <= x /\ x \in Nat
      BY <1>1, <1>2, <2>1
    <3>2. QED BY <1>1, <3>1
  <2>2. QED BY <1>1, <1>2, <2>1 DEF Min
<1>7. Max(I) = j
  <2>1. ASSUME NEW x \in I, \A y \in I : x >= y PROVE x = j
    <3>1. x >= j /\ x <= j /\ x \in Nat
      BY <1>1, <1>2, <2>1
    <3>2. QED BY <1>1, <3>1
  <2>2. \A y \in I : j >= y
    <3>1. \A y \in I : y <= j /\ y \in Nat
      BY <1>1, <1>2
    <3>2. QED BY <1>1, <3>1
  <2>3. QED BY <1>1, <2>1, <2>2 DEF Max
<1>8. SelectInSeq(s, visible) = i /\ SelectLastInSeq(s, visible) = j /\ i # 0
    BY <1>1, <1>3, <1>4, <1>6, <1>7
<1>9. QED BY <1>5, <1>8

LEMMA StripBlank ==
    ASSUME NEW s, \A k \in 1 .. Len(s) : isspace(s[k])
    PROVE  strip_line(s) = <<>>
<1> DEFINE I == {k \in 1 .. Len(s) : ~isspace(s[k])}
           visible(c) == ~isspace(c)
<1>1. I = {}
    OBVIOUS
<1>2. SelectInSeq(s, visible) = IF I # {} THEN Min(I) ELSE 0
    BY DEF SelectInSeq
<1>3. SelectInSeq(s, visible) = 0
    BY <1>1, <1>2
<1>4. SelectInSeq(s, visible) = 0 => strip_line(s) = <<>>
    BY DEF strip_line
<1>5. QED BY <1>3, <1>4

\* What is left of a line are the characters from its first ink to its last,
\* in lower case.
LEMMA TextOfLine ==
    ASSUME NEW s \in Seq(1 .. 127), NEW i \in 1 .. Len(s), NEW j \in 1 .. Len(s),
           Ink(s, i), Ink(s, j),
           \A k \in 1 .. Len(s) : Ink(s, k) => i <= k /\ k <= j
    PROVE  strip_line(preprocess_line(s))
               = [k \in 1 .. j - i + 1 |-> tolower(s[i + k - 1])]
<1>1. Len(s) \in Nat /\ i \in Nat /\ j \in Nat
    OBVIOUS
<1>2. PICK c \in 0 .. Len(s) :
          /\ preprocess_line(s) = SubSeq(s, 1, c)
          /\ \A k \in 1 .. Len(s) : k > c <=> SlashesBy(s, k)
    BY LineCut
<1> DEFINE t == SubSeq(s, 1, c)
<1>3. /\ t \in Seq(1 .. 127) /\ Len(t) = c
      /\ \A k \in 1 .. c : t[k] = s[k]
  <2>1. 1 \in Int /\ c \in Int /\ 1 <= 1 /\ c <= Len(s) /\ 1 <= c + 1
        /\ c - 1 + 1 = c
    BY <1>1
  <2>2. /\ t \in Seq(1 .. 127) /\ Len(t) = c - 1 + 1
        /\ \A k \in 1 .. c - 1 + 1 : t[k] = s[1 + k - 1]
    BY <2>1, PartOf
  <2>3. \A k \in 1 .. c : 1 + k - 1 = k
    BY <1>1
  <2>4. QED BY <2>1, <2>2, <2>3
<1> HIDE DEF t
<1>4. \A k \in 1 .. Len(s) : Ink(s, k) <=> k <= c /\ ~isspace(s[k])
    BY <1>1, <1>2 DEF Ink
<1>5. i \in 1 .. c /\ j \in 1 .. c
    BY <1>1, <1>4
<1>6. ~isspace(t[i]) /\ ~isspace(t[j])
    BY <1>3, <1>4, <1>5
<1>7. ASSUME NEW k \in 1 .. c, ~isspace(t[k]) PROVE i <= k /\ k <= j
  <2>1. k \in 1 .. Len(s) /\ k <= c /\ t[k] = s[k]
    BY <1>1, <1>3
  <2>2. QED BY <1>4, <1>7, <2>1
<1>8. strip_line(t) = [k \in 1 .. j - i + 1 |-> tolower(t[i + k - 1])]
  <2>1. t \in Seq(1 .. 127) /\ Len(t) = c
    BY <1>3
  <2>2. \A k \in 1 .. Len(t) : ~isspace(t[k]) => i <= k /\ k <= j
    BY <1>7, <2>1
  <2>3. i \in 1 .. Len(t) /\ j \in 1 .. Len(t)
    BY <1>5, <2>1
  <2>4. QED BY <1>6, <2>1, <2>2, <2>3, StripBetween
<1>9. ASSUME NEW k \in 1 .. j - i + 1 PROVE t[i + k - 1] = s[i + k - 1]
  <2>1. i + k - 1 \in 1 .. c
    BY <1>1, <1>5
  <2>2. QED BY <1>3, <2>1
<1>10. QED BY <1>2, <1>8, <1>9 DEF t

\* A line without ink leaves nothing.
LEMMA TextOfBlank ==
    ASSUME NEW s \in Seq(1 .. 127), \A k \in 1 .. Len(s) : ~Ink(s, k)
    PROVE  strip_line(preprocess_line(s)) = <<>>
<1>1. Len(s) \in Nat
    OBVIOUS
<1>2. PICK c \in 0 .. Len(s) :
          /\ preprocess_line(s) = SubSeq(s, 1, c)
          /\ \A k \in 1 .. Len(s) : k > c <=> SlashesBy(s, k)
    BY LineCut
<1> DEFINE t == SubSeq(s, 1, c)
<1>3. Len(t) = c /\ \A k \in 1 .. c : t[k] = s[k]
  <2>1. 1 \in Int /\ c \in Int /\ 1 <= 1 /\ c <= Len(s) /\ 1 <= c + 1
        /\ c - 1 + 1 = c
    BY <1>1
  <2>2. /\ Len(t) = c - 1 + 1
        /\ \A k \in 1 .. c - 1 + 1 : t[k] = s[1 + k - 1]
    BY <2>1, PartOf
  <2>3. \A k \in 1 .. c : 1 + k - 1 = k
    BY <1>1
  <2>4. QED BY <2>1, <2>2, <2>3
<1> HIDE DEF t
<1>4. ASSUME NEW k \in 1 .. Len(t) PROVE isspace(t[k])
  <2>1. k \in 1 .. c /\ k \in 1 .. Len(s) /\ ~(k > c)
    BY <1>1, <1>3
  <2>2. ~SlashesBy(s, k) /\ ~Ink(s, k) /\ t[k] = s[k]
    BY <1>2, <1>3, <2>1
  <2>3. QED BY <2>2 DEF Ink
<1>5. strip_line(t) = <<>>
    BY <1>4, StripBlank
<1>6. QED BY <1>2, <1>5 DEF t

-----------------------------------------------------------------------------
(***************************************************************************)
(* A line of the file, from its first character to its newline.            *)
(***************************************************************************)
LineStart(from) == from = 1 \/ file[from - 1] = Newline
IsLine(from, e) ==
    /\ from \in 1 .. Len(file) /\ e \in from .. Len(file)
    /\ LineStart(from) /\ file[e] = Newline
    /\ \A i \in from .. e - 1 : file[i] # Newline

\* Its characters without the newline.
LineText(from, e) == SubSeq(file, from, e - 1)

LEMMA LineTextFacts ==
    ASSUME file \in Seq(1 .. 127), NEW from, NEW e, IsLine(from, e)
    PROVE  /\ from \in Nat /\ e \in Nat /\ 1 <= from /\ from <= e
           /\ Len(file) \in Nat /\ e <= Len(file)
           /\ LineText(from, e) \in Seq(1 .. 127)
           /\ Len(LineText(from, e)) = e - from
           /\ \A k \in 1 .. e - from : LineText(from, e)[k] = file[from + k - 1]
<1>1. /\ from \in Nat /\ e \in Nat /\ 1 <= from /\ from <= e
      /\ Len(file) \in Nat /\ e <= Len(file)
    BY DEF IsLine
<1>2. from \in Int /\ e - 1 \in Int /\ e - 1 <= Len(file) /\ from <= (e - 1) + 1
      /\ (e - 1) - from + 1 = e - from
    BY <1>1
<1>3. /\ SubSeq(file, from, e - 1) \in Seq(1 .. 127)
      /\ Len(SubSeq(file, from, e - 1)) = (e - 1) - from + 1
      /\ \A k \in 1 .. (e - 1) - from + 1 :
            SubSeq(file, from, e - 1)[k] = file[from + k - 1]
    BY <1>1, <1>2, PartOf
<1>4. QED BY <1>1, <1>2, <1>3 DEF LineText

\* Backwards a character is on the same line as far as the line's start,
\* forwards as far as its newline.
LEMMA SameLineIs ==
    ASSUME file \in Seq(1 .. 127), NEW from, NEW e, IsLine(from, e),
           NEW i \in from .. e
    PROVE  /\ \A j \in 1 .. i : SameLine(j, i) <=> from <= j
           /\ \A j \in i .. Len(file) : SameLine(i, j) <=> j <= e
<1>1. /\ from \in Nat /\ e \in Nat /\ 1 <= from /\ from <= e
      /\ Len(file) \in Nat /\ e <= Len(file) /\ i \in Nat
    BY LineTextFacts
<1>2. \A k \in from .. e - 1 : file[k] # Newline
    BY DEF IsLine
<1>3. ASSUME NEW j \in 1 .. i, from <= j PROVE SameLine(j, i)
  <2>1. j .. i - 1 \subseteq from .. e - 1
    BY <1>1, <1>3
  <2>2. QED BY <1>2, <2>1 DEF SameLine
<1>4. ASSUME NEW j \in 1 .. i, ~(from <= j) PROVE ~SameLine(j, i)
  <2>1. from # 1 /\ from - 1 \in j .. i - 1
    BY <1>1, <1>4
  <2>2. file[from - 1] = Newline
    BY <2>1 DEF IsLine, LineStart
  <2>3. QED BY <2>1, <2>2 DEF SameLine
<1>5. ASSUME NEW j \in i .. Len(file), j <= e PROVE SameLine(i, j)
  <2>1. i .. j - 1 \subseteq from .. e - 1
    BY <1>1, <1>5
  <2>2. QED BY <1>2, <2>1 DEF SameLine
<1>6. ASSUME NEW j \in i .. Len(file), ~(j <= e) PROVE ~SameLine(i, j)
  <2>1. e \in i .. j - 1
    BY <1>1, <1>6
  <2>2. file[e] = Newline
    BY DEF IsLine
  <2>3. QED BY <2>1, <2>2 DEF SameLine
<1>7. QED BY <1>3, <1>4, <1>5, <1>6

\* The ink of the line is the ink of the file.
LEMMA InkOfLine ==
    ASSUME file \in Seq(1 .. 127), NEW from, NEW e, IsLine(from, e)
    PROVE  /\ ~Inked(e) /\ ~Commented(e)
           /\ \A k \in 1 .. e - from :
                 /\ SlashesBy(LineText(from, e), k) <=> Commented(from + k - 1)
                 /\ Ink(LineText(from, e), k) <=> Inked(from + k - 1)
<1> DEFINE s == LineText(from, e)
<1>1. /\ from \in Nat /\ e \in Nat /\ 1 <= from /\ from <= e
      /\ Len(file) \in Nat /\ e <= Len(file)
    BY LineTextFacts
<1>2. s \in Seq(1 .. 127) /\ Len(s) = e - from
    BY LineTextFacts
<1>3. \A k \in 1 .. e - from : s[k] = file[from + k - 1]
    BY LineTextFacts
<1> HIDE DEF s
<1>4. file[e] = Newline /\ \A i \in from .. e - 1 : file[i] # Newline
    BY DEF IsLine
<1>5. ~Inked(e) /\ ~Commented(e)
    BY <1>4 DEF Inked, Commented, isspace, Newline
<1>6. ASSUME NEW k \in 1 .. e - from
      PROVE  SlashesBy(s, k) <=> Commented(from + k - 1)
  <2> DEFINE i == from + k - 1
  <2>1. i \in from .. e - 1 /\ i \in from .. e /\ i \in Nat /\ k \in Nat
    BY <1>1
  <2>2. file[i] # Newline
    BY <1>4, <2>1
  <2>3. \A j \in 1 .. i : SameLine(j, i) <=> from <= j
    BY <2>1, SameLineIs
  <2>4. ASSUME SlashesBy(s, k) PROVE Commented(i)
    <3>1. PICK m \in 1 .. k : m + 1 <= Len(s) /\ s[m] = Slash /\ s[m + 1] = Slash
      BY <2>4 DEF SlashesBy
    <3> DEFINE j == from + m - 1
    <3>2. /\ j \in 1 .. i /\ from <= j /\ j < Len(file)
          /\ m \in 1 .. e - from /\ m + 1 \in 1 .. e - from
          /\ from + (m + 1) - 1 = j + 1
      BY <1>1, <1>2, <3>1
    <3>3. file[j] = Slash /\ file[j + 1] = Slash
      BY <1>3, <3>1, <3>2
    <3> HIDE DEF i, j
    <3>4. QED BY <2>2, <2>3, <3>2, <3>3 DEF Commented
  <2>5. ASSUME Commented(i) PROVE SlashesBy(s, k)
    <3>1. PICK j \in 1 .. i : /\ SameLine(j, i) /\ file[j] = Slash
                              /\ j < Len(file) /\ file[j + 1] = Slash
      BY <2>5 DEF Commented
    <3>2. from <= j
      BY <2>3, <3>1
    <3>3. j + 1 # e
      BY <1>4, <3>1 DEF Slash, Newline
    <3> DEFINE m == j - from + 1
    <3>4. /\ m \in 1 .. k /\ m + 1 <= e - from
          /\ m \in 1 .. e - from /\ m + 1 \in 1 .. e - from
          /\ from + m - 1 = j /\ from + (m + 1) - 1 = j + 1
      BY <1>1, <2>1, <3>2, <3>3
    <3>5. s[m] = Slash /\ s[m + 1] = Slash
      BY <1>3, <3>1, <3>4
    <3> HIDE DEF m, i
    <3>6. QED BY <1>2, <3>4, <3>5 DEF SlashesBy
  <2>6. QED BY <2>4, <2>5
<1>7. ASSUME NEW k \in 1 .. e - from
      PROVE  Ink(s, k) <=> Inked(from + k - 1)
    BY <1>3, <1>6 DEF Ink, Inked
<1>8. QED BY <1>5, <1>6, <1>7 DEF s

\* Nothing of a line without ink matters.
LEMMA BlankLine ==
    ASSUME file \in Seq(1 .. 127), NEW from, NEW e, IsLine(from, e),
           \A i \in from .. e - 1 : ~Inked(i)
    PROVE  /\ process_line(LineText(from, e)) = [kind |-> "empty"]
           /\ \A i \in from .. e : ~Matters(i)
<1> DEFINE s == LineText(from, e)
<1>1. /\ from \in Nat /\ e \in Nat /\ 1 <= from /\ from <= e
      /\ s \in Seq(1 .. 127) /\ Len(s) = e - from
    BY LineTextFacts
<1>2. \A k \in 1 .. e - from : Ink(s, k) <=> Inked(from + k - 1)
    BY InkOfLine
<1> HIDE DEF s
<1>3. ASSUME NEW k \in 1 .. Len(s) PROVE ~Ink(s, k)
  <2>1. k \in 1 .. e - from /\ from + k - 1 \in from .. e - 1
    BY <1>1
  <2>2. QED BY <1>2, <2>1
<1>4. strip_line(preprocess_line(s)) = <<>>
    BY <1>1, <1>3, TextOfBlank
<1>5. process_line(s) = [kind |-> "empty"]
    BY <1>4 DEF process_line
<1>6. ASSUME NEW i \in from .. e, Matters(i) PROVE FALSE
  <2>1. PICK j \in 1 .. i : SameLine(j, i) /\ Inked(j)
    BY <1>6 DEF Matters
  <2>2. from <= j
    BY <2>1, SameLineIs
  <2>3. j \in from .. e - 1 \/ j = e
    BY <1>1, <2>2
  <2>4. ~Inked(e)
    BY InkOfLine
  <2>5. QED BY <2>1, <2>3, <2>4
<1>7. QED BY <1>5, <1>6 DEF s

\* Of a line with ink the characters from the first to the last matter, and
\* its newline.
LEMMA InkedLine ==
    ASSUME file \in Seq(1 .. 127), NEW from, NEW e, IsLine(from, e),
           NEW i \in from .. e - 1, NEW j \in from .. e - 1,
           Inked(i), Inked(j),
           \A k \in from .. e - 1 : Inked(k) => i <= k /\ k <= j
    PROVE  /\ \A k \in from .. i - 1 : ~Matters(k)
           /\ \A k \in i .. j : Matters(k)
           /\ \A k \in j + 1 .. e - 1 : ~Matters(k)
           /\ Matters(e)
<1>1. /\ from \in Nat /\ e \in Nat /\ 1 <= from /\ from <= e
      /\ Len(file) \in Nat /\ e <= Len(file) /\ i \in Nat /\ j \in Nat
    BY LineTextFacts
<1>2. ~Inked(e) /\ ~Commented(e)
    BY InkOfLine
<1>3. \A k \in from .. e : Inked(k) => i <= k /\ k <= j
  <2>1. \A k \in from .. e : k \in from .. e - 1 \/ k = e
    BY <1>1
  <2>2. QED BY <1>2, <2>1
<1>4. i <= j
    BY <1>3
<1>5. \A k \in from .. e : \A m \in 1 .. k : SameLine(m, k) <=> from <= m
    BY SameLineIs
<1>6. \A k \in from .. e : \A m \in k .. Len(file) : SameLine(k, m) <=> m <= e
    BY SameLineIs
<1>7. ASSUME NEW k \in from .. i - 1 PROVE ~Matters(k)
  <2>1. SUFFICES ASSUME NEW m \in 1 .. k, SameLine(m, k), Inked(m) PROVE FALSE
    BY DEF Matters
  <2>2. k \in from .. e /\ k \in Nat /\ m \in Nat
    BY <1>1
  <2>3. from <= m
    BY <1>5, <2>1, <2>2
  <2>4. m \in from .. e /\ ~(i <= m)
    BY <1>1, <2>2, <2>3
  <2>5. QED BY <1>3, <2>1, <2>4
<1>8. ASSUME NEW k \in i .. j PROVE Matters(k)
  <2>1. k \in from .. e /\ k \in from .. e - 1 /\ i \in 1 .. k /\ from <= i
        /\ j \in k .. Len(file) /\ j <= e /\ k \in Nat
    BY <1>1
  <2>2. SameLine(i, k) /\ SameLine(k, j)
    BY <1>5, <1>6, <2>1
  <2>3. ~Commented(k)
    <3>1. SUFFICES ASSUME Commented(k) PROVE FALSE
      OBVIOUS
    <3>2. PICK m \in 1 .. k : /\ SameLine(m, k) /\ file[m] = Slash
                              /\ m < Len(file) /\ file[m + 1] = Slash
      BY <3>1 DEF Commented
    <3>3. from <= m /\ m \in 1 .. j /\ j \in from .. e
      BY <1>1, <1>5, <2>1, <3>2
    <3>4. SameLine(m, j)
      BY <1>5, <3>3
    <3>5. file[j] # Newline
      BY DEF IsLine
    <3>6. Commented(j)
      BY <3>2, <3>3, <3>4, <3>5 DEF Commented
    <3>7. QED BY <3>6 DEF Inked
  <2>4. QED BY <2>1, <2>2, <2>3 DEF Matters
<1>9. ASSUME NEW k \in j + 1 .. e - 1 PROVE ~Matters(k)
  <2>0. k \in from .. e - 1 /\ k \in from .. e /\ k \in Nat /\ j < k
    BY <1>1
  <2>1. file[k] # Newline
    BY <2>0 DEF IsLine
  <2>2. SUFFICES ASSUME NEW m \in k .. Len(file), SameLine(k, m), Inked(m)
                 PROVE  FALSE
    BY <2>1 DEF Matters
  <2>3. m <= e
    BY <1>6, <2>0, <2>2
  <2>4. m \in from .. e /\ ~(m <= j)
    BY <1>1, <2>0, <2>3
  <2>5. QED BY <1>3, <2>2, <2>4
<1>10. Matters(e)
  <2>1. e \in from .. e /\ i \in 1 .. e /\ from <= i
    BY <1>1
  <2>2. SameLine(i, e)
    BY <1>5, <2>1
  <2>3. file[e] = Newline
    BY DEF IsLine
  <2>4. QED BY <1>2, <2>1, <2>2, <2>3 DEF Matters
<1>11. QED BY <1>7, <1>8, <1>9, <1>10

\* The line and what is kept of it read the same.
LEMMA KeptReadsSame ==
    ASSUME file \in Seq(1 .. 127), NEW from, NEW e, IsLine(from, e),
           NEW i \in from .. e - 1, NEW j \in from .. e - 1,
           Inked(i), Inked(j),
           \A k \in from .. e - 1 : Inked(k) => i <= k /\ k <= j
    PROVE  /\ Lower(i, j) \in Seq(1 .. 127)
           /\ Len(Lower(i, j)) = j - i + 1
           /\ \A k \in 1 .. j - i + 1 : Lower(i, j)[k] # Newline
           /\ process_line(Lower(i, j)) = process_line(LineText(from, e))
<1> DEFINE s == LineText(from, e)
           t == Lower(i, j)
           a == i - from + 1
           z == j - from + 1
<1>1. /\ from \in Nat /\ e \in Nat /\ 1 <= from /\ from <= e
      /\ Len(file) \in Nat /\ e <= Len(file) /\ i \in Nat /\ j \in Nat
      /\ s \in Seq(1 .. 127) /\ Len(s) = e - from
    BY LineTextFacts
<1>2. \A k \in 1 .. e - from : s[k] = file[from + k - 1]
    BY LineTextFacts
<1>3. \A k \in 1 .. e - from : Ink(s, k) <=> Inked(from + k - 1)
    BY InkOfLine
<1>4. i <= j
    OBVIOUS
<1>5. /\ t \in Seq(1 .. 127) /\ Len(t) = j - i + 1
      /\ \A k \in 1 .. j - i + 1 : t[k] = tolower(file[i + k - 1])
  <2>1. 1 <= i /\ i <= j + 1 /\ j <= Len(file)
    BY <1>1, <1>4
  <2>2. QED BY <1>1, <2>1, LowerIsText
<1>6. ASSUME NEW k \in 1 .. j - i + 1
      PROVE  /\ i + k - 1 \in from .. e - 1 /\ file[i + k - 1] \in 1 .. 127
             /\ file[i + k - 1] # Newline
  <2>1. i + k - 1 \in from .. e - 1 /\ i + k - 1 \in 1 .. Len(file)
    BY <1>1
  <2>2. file[i + k - 1] \in 1 .. 127
    BY <2>1, ElementOfSeq
  <2>3. QED BY <2>1, <2>2 DEF IsLine
<1> HIDE DEF s, t
<1>7. strip_line(preprocess_line(s)) = t
  <2>1. /\ a \in 1 .. Len(s) /\ z \in 1 .. Len(s)
        /\ from + a - 1 = i /\ from + z - 1 = j /\ z - a + 1 = j - i + 1
        /\ a \in Int /\ z \in Int
    BY <1>1
  <2>2. Ink(s, a) /\ Ink(s, z)
    BY <1>1, <1>3, <2>1
  <2>3. ASSUME NEW k \in 1 .. Len(s), Ink(s, k) PROVE a <= k /\ k <= z
    <3>1. k \in 1 .. e - from /\ from + k - 1 \in from .. e - 1
      BY <1>1
    <3>2. i <= from + k - 1 /\ from + k - 1 <= j
      BY <1>3, <2>3, <3>1
    <3>3. QED BY <1>1, <3>1, <3>2
  <2> HIDE DEF a, z
  <2>4. strip_line(preprocess_line(s))
            = [k \in 1 .. z - a + 1 |-> tolower(s[a + k - 1])]
    BY <1>1, <2>1, <2>2, <2>3, TextOfLine
  <2>5. ASSUME NEW k \in 1 .. j - i + 1
        PROVE  s[a + k - 1] = file[i + k - 1]
    <3>1. a + k - 1 \in 1 .. e - from /\ from + (a + k - 1) - 1 = i + k - 1
      BY <1>1, <2>1 DEF a
    <3>2. QED BY <1>2, <3>1
  <2>6. [k \in 1 .. z - a + 1 |-> tolower(s[a + k - 1])]
            = [k \in 1 .. j - i + 1 |-> tolower(file[i + k - 1])]
    BY <2>1, <2>5
  <2>7. QED BY <2>4, <2>6 DEF t, Lower
<1>8. \A k \in 1 .. j - i + 1 : t[k] # Newline
    BY <1>5, <1>6, LowerCharacter
<1>9. strip_line(preprocess_line(t)) = t
  <2> DEFINE l == j - i + 1
  <2>1. l \in Nat /\ 1 \in 1 .. l /\ l \in 1 .. l /\ i + 1 - 1 = i
        /\ i + l - 1 = j /\ l - 1 + 1 = l
    BY <1>1, <1>4
  <2>2. ASSUME NEW k \in 1 .. l PROVE ~SlashesBy(t, k)
    <3>1. SUFFICES ASSUME NEW m \in 1 .. k, m + 1 <= Len(t),
                          t[m] = Slash, t[m + 1] = Slash
                   PROVE  FALSE
      BY DEF SlashesBy
    <3> DEFINE x == i + m - 1
    <3>2. /\ m \in 1 .. j - i + 1 /\ m + 1 \in 1 .. j - i + 1
          /\ i + (m + 1) - 1 = x + 1
          /\ x \in 1 .. j /\ from <= x /\ x < Len(file) /\ j \in from .. e
      BY <1>1, <1>5, <3>1
    <3>3. file[x] = Slash /\ file[x + 1] = Slash
      <4>1. tolower(file[x]) = Slash /\ tolower(file[x + 1]) = Slash
        BY <1>5, <3>1, <3>2
      <4>2. file[x] \in 1 .. 127 /\ file[x + 1] \in 1 .. 127
        BY <1>6, <3>2
      <4>3. QED BY <4>1, <4>2, LowerCharacter
    <3>4. SameLine(x, j)
      BY <3>2, SameLineIs
    <3>5. file[j] # Newline
      BY DEF IsLine
    <3> HIDE DEF x
    <3>6. Commented(j)
      BY <3>2, <3>3, <3>4, <3>5 DEF Commented
    <3>7. QED BY <3>6 DEF Inked
  <2>3. ASSUME NEW k \in 1 .. l PROVE isspace(t[k]) <=> isspace(file[i + k - 1])
    BY <1>5, <1>6, LowerCharacter
  <2>4. ~isspace(file[i]) /\ ~isspace(file[j])
    BY DEF Inked
  <2>5. Ink(t, 1) /\ Ink(t, l)
    BY <2>1, <2>2, <2>3, <2>4 DEF Ink
  <2>6. t \in Seq(1 .. 127) /\ Len(t) = l /\ 1 \in 1 .. Len(t)
        /\ l \in 1 .. Len(t)
    BY <1>5, <2>1
  <2>7. \A k \in 1 .. Len(t) : 1 <= k /\ k <= l
    BY <2>1, <2>6
  <2> HIDE DEF l
  <2>8. strip_line(preprocess_line(t))
            = [k \in 1 .. l - 1 + 1 |-> tolower(t[1 + k - 1])]
    BY <2>5, <2>6, <2>7, TextOfLine
  <2>9. ASSUME NEW k \in 1 .. l PROVE tolower(t[1 + k - 1]) = t[k]
    <3>1. 1 + k - 1 = k /\ k \in 1 .. j - i + 1
      BY <2>1 DEF l
    <3>2. t[k] = tolower(file[i + k - 1]) /\ file[i + k - 1] \in 1 .. 127
      BY <1>5, <1>6, <3>1
    <3>3. tolower(t[k]) = t[k]
      BY <3>2, LowerCharacter
    <3>4. QED BY <3>1, <3>3
  <2>10. t = [k \in 1 .. l |-> t[k]]
    BY <2>6
  <2>11. l - 1 + 1 = l
    BY <2>1
  <2>12. [k \in 1 .. l |-> tolower(t[1 + k - 1])] = [k \in 1 .. l |-> t[k]]
    BY <2>9
  <2>13. QED BY <2>8, <2>10, <2>11, <2>12
<1>10. process_line(t) = process_line(s)
    BY <1>7, <1>9 DEF process_line
<1>11. QED BY <1>5, <1>8, <1>10 DEF s, t

-----------------------------------------------------------------------------
(***************************************************************************)
(* The lines read of the file and of the bare file.                        *)
(***************************************************************************)
\* The lines p without some that are empty are the lines q.
Alike(p, q) ==
    /\ p \in Seq(Pieces) /\ q \in Seq(Pieces)
    /\ \E h : Thinned(p, q, h)

LEMMA AlikeNone == Alike(<<>>, <<>>)
<1> DEFINE h == [k \in 1 .. 0 |-> 1]
<1>1. <<>> \in Seq(Pieces) /\ Len(<<>>) = 0 /\ 1 .. 0 = {}
    OBVIOUS
<1>2. h \in [1 .. Len(<<>>) -> 1 .. Len(<<>>)]
    BY <1>1
<1>3. Thinned(<<>>, <<>>, h)
    BY <1>1, <1>2 DEF Thinned
<1>4. QED BY <1>1, <1>3 DEF Alike

\* The first line and the others.
LEMMA FirstLine ==
    ASSUME NEW x \in Pieces, NEW p \in Seq(Pieces)
    PROVE  (<<x>> \o p)[1] = x
<1> HIDE DEF Pieces
<1>1. <<x>> \in Seq(Pieces) /\ Len(<<x>>) = 1 /\ <<x>>[1] = x /\ Len(p) \in Nat
    OBVIOUS
<1>2. \A i \in 1 .. Len(<<x>>) + Len(p) :
          (<<x>> \o p)[i] = IF i <= Len(<<x>>) THEN <<x>>[i]
                            ELSE p[i - Len(<<x>>)]
    BY <1>1, ConcatProperties
<1>3. 1 \in 1 .. 1 + Len(p) /\ 1 <= 1
    BY <1>1
<1>4. QED BY <1>1, <1>2, <1>3

LEMMA AlikeEmpty ==
    ASSUME NEW p, NEW q, Alike(p, q), NEW x \in Pieces, x.kind = "empty"
    PROVE  Alike(<<x>> \o p, q)
<1> DEFINE P == <<x>> \o p
<1>1. p \in Seq(Pieces) /\ q \in Seq(Pieces)
    BY DEF Alike
<1>2. PICK h : Thinned(p, q, h)
    BY DEF Alike
<1>3. /\ P \in Seq(Pieces) /\ Len(P) = Len(p) + 1
      /\ \A i \in 1 .. Len(p) : P[i + 1] = p[i]
    BY <1>1, LineMore
<1>4. P[1] = x
    BY <1>1, FirstLine
<1>5. Len(p) \in Nat /\ Len(q) \in Nat
    BY <1>1
<1> HIDE DEF P
<1> DEFINE g == [k \in 1 .. Len(q) |-> h[k] + 1]
<1>6. \A k \in 1 .. Len(q) : h[k] \in 1 .. Len(p) /\ q[k] = p[h[k]]
    BY <1>2 DEF Thinned
<1>7. \A k \in 1 .. Len(q) : g[k] = h[k] + 1 /\ g[k] \in 1 .. Len(P)
    BY <1>3, <1>5, <1>6
<1>8. g \in [1 .. Len(q) -> 1 .. Len(P)]
    BY <1>7
<1>9. ASSUME NEW j \in 1 .. Len(q), NEW k \in 1 .. Len(q), j < k
      PROVE  g[j] < g[k]
  <2>1. h[j] < h[k] /\ h[j] \in Int /\ h[k] \in Int
    BY <1>2, <1>6, <1>9 DEF Thinned
  <2>2. QED BY <1>7, <2>1
<1>10. \A k \in 1 .. Len(q) : q[k] = P[g[k]]
    BY <1>3, <1>6, <1>7
<1>11. ASSUME NEW i \in 1 .. Len(P), P[i].kind # "empty"
       PROVE  \E k \in 1 .. Len(q) : g[k] = i
  <2>1. i # 1
    BY <1>4, <1>11
  <2>2. i - 1 \in 1 .. Len(p) /\ (i - 1) + 1 = i
    BY <1>3, <1>5, <2>1
  <2>3. p[i - 1].kind # "empty"
    BY <1>3, <1>11, <2>2
  <2>4. PICK k \in 1 .. Len(q) : h[k] = i - 1
    BY <1>2, <2>2, <2>3 DEF Thinned
  <2>5. QED BY <1>7, <2>2, <2>4
<1> HIDE DEF g
<1>12. Thinned(P, q, g)
    BY <1>8, <1>9, <1>10, <1>11 DEF Thinned
<1>13. QED BY <1>1, <1>3, <1>12 DEF Alike, P

LEMMA AlikeSame ==
    ASSUME NEW p, NEW q, Alike(p, q), NEW x \in Pieces
    PROVE  Alike(<<x>> \o p, <<x>> \o q)
<1> DEFINE P == <<x>> \o p
           Q == <<x>> \o q
<1>1. p \in Seq(Pieces) /\ q \in Seq(Pieces)
    BY DEF Alike
<1>2. PICK h : Thinned(p, q, h)
    BY DEF Alike
<1>3. /\ P \in Seq(Pieces) /\ Len(P) = Len(p) + 1
      /\ \A i \in 1 .. Len(p) : P[i + 1] = p[i]
    BY <1>1, LineMore
<1>4. /\ Q \in Seq(Pieces) /\ Len(Q) = Len(q) + 1
      /\ \A i \in 1 .. Len(q) : Q[i + 1] = q[i]
    BY <1>1, LineMore
<1>5. P[1] = x /\ Q[1] = x
    BY <1>1, FirstLine
<1>6. Len(p) \in Nat /\ Len(q) \in Nat
    BY <1>1
<1> HIDE DEF P, Q
<1> DEFINE g == [k \in 1 .. Len(Q) |-> IF k = 1 THEN 1 ELSE h[k - 1] + 1]
<1>7. \A k \in 1 .. Len(q) : h[k] \in 1 .. Len(p) /\ q[k] = p[h[k]]
    BY <1>2 DEF Thinned
<1>8. 1 \in 1 .. Len(Q) /\ 1 \in 1 .. Len(P) /\ g[1] = 1
    BY <1>3, <1>4, <1>6
<1>9. ASSUME NEW k \in 1 .. Len(Q), k # 1
      PROVE  /\ k - 1 \in 1 .. Len(q) /\ (k - 1) + 1 = k
             /\ g[k] = h[k - 1] + 1 /\ g[k] \in 1 .. Len(P) /\ g[k] > 1
             /\ Q[k] = P[g[k]]
  <2>1. k - 1 \in 1 .. Len(q) /\ (k - 1) + 1 = k /\ g[k] = h[k - 1] + 1
    BY <1>4, <1>6, <1>9
  <2>2. h[k - 1] \in 1 .. Len(p) /\ q[k - 1] = p[h[k - 1]]
    BY <1>7, <2>1
  <2>3. g[k] \in 1 .. Len(P) /\ g[k] > 1
    BY <1>3, <1>6, <2>1, <2>2
  <2>4. Q[k] = q[k - 1] /\ P[g[k]] = p[h[k - 1]]
    <3> HIDE DEF g
    <3>1. QED BY <1>3, <1>4, <2>1, <2>2
  <2>5. QED BY <2>1, <2>2, <2>3, <2>4
<1>10. g \in [1 .. Len(Q) -> 1 .. Len(P)]
  <2>1. \A k \in 1 .. Len(Q) : g[k] \in 1 .. Len(P)
    BY <1>8, <1>9
  <2>2. QED BY <2>1
<1> HIDE DEF g
<1>11. ASSUME NEW j \in 1 .. Len(Q), NEW k \in 1 .. Len(Q), j < k
       PROVE  g[j] < g[k]
  <2>1. j \in Nat /\ k \in Nat /\ j >= 1 /\ k # 1
    BY <1>4, <1>6, <1>11
  <2>2. CASE j = 1
    BY <1>8, <1>9, <2>1, <2>2
  <2>3. CASE j # 1
    <3>1. j - 1 \in 1 .. Len(q) /\ k - 1 \in 1 .. Len(q) /\ j - 1 < k - 1
      BY <1>9, <1>11, <2>1, <2>3
    <3>2. h[j - 1] < h[k - 1]
      BY <1>2, <3>1 DEF Thinned
    <3>3. h[j - 1] \in Int /\ h[k - 1] \in Int
      BY <1>7, <3>1
    <3>4. g[j] = h[j - 1] + 1 /\ g[k] = h[k - 1] + 1
      BY <1>9, <2>1, <2>3
    <3>5. QED BY <3>2, <3>3, <3>4
  <2>4. QED BY <2>2, <2>3
<1>12. \A k \in 1 .. Len(Q) : Q[k] = P[g[k]]
    BY <1>5, <1>8, <1>9
<1>13. ASSUME NEW i \in 1 .. Len(P), P[i].kind # "empty"
       PROVE  \E k \in 1 .. Len(Q) : g[k] = i
  <2>1. CASE i = 1
    BY <1>8, <2>1
  <2>2. CASE i # 1
    <3>1. i - 1 \in 1 .. Len(p) /\ (i - 1) + 1 = i
      BY <1>3, <1>6, <2>2
    <3>2. p[i - 1].kind # "empty"
      BY <1>3, <1>13, <3>1
    <3>3. PICK k \in 1 .. Len(q) : h[k] = i - 1
      BY <1>2, <3>1, <3>2 DEF Thinned
    <3>4. k + 1 \in 1 .. Len(Q) /\ k + 1 # 1 /\ (k + 1) - 1 = k
      BY <1>4, <1>6
    <3>5. g[k + 1] = i
      BY <1>9, <3>1, <3>3, <3>4
    <3>6. QED BY <3>4, <3>5
  <2>3. QED BY <2>1, <2>2
<1>14. Thinned(P, Q, g)
    BY <1>10, <1>11, <1>12, <1>13 DEF Thinned
<1>15. QED BY <1>3, <1>4, <1>14 DEF Alike, P, Q

-----------------------------------------------------------------------------
\* A line that fits the buffer is read in one step.
LEMMA LineRead ==
    ASSUME file \in Seq(1 .. 127), NEW from, NEW e, IsLine(from, e),
           e <= from + MAX_LINE_LENGTH - 2, NEW r, Reads(file, r)
    PROVE  r[from] = <<process_line(LineText(from, e))>> \o r[e + 1]
<1>1. /\ from \in Nat /\ e \in Nat /\ 1 <= from /\ from <= e
      /\ Len(file) \in Nat /\ e <= Len(file)
      /\ LineText(from, e) \in Seq(1 .. 127)
      /\ Len(LineText(from, e)) = e - from
    BY LineTextFacts
<1>2. \A k \in 1 .. e - from : LineText(from, e)[k] = file[from + k - 1]
    BY LineTextFacts
<1> DEFINE x == SubSeq(file, from, e)
<1>3. fgets(file, from) = x
  <2>1. Stops(file, from, e) /\ from \in 1 .. Len(file)
    BY DEF Stops, IsLine
  <2>2. QED BY <2>1, StopsOnce
<1>4. /\ x \in Seq(1 .. 127) /\ Len(x) = e - from + 1
      /\ \A k \in 1 .. e - from + 1 : x[k] = file[from + k - 1]
  <2>1. from \in Int /\ e \in Int /\ from <= e + 1
    BY <1>1
  <2>2. QED BY <1>1, <2>1, PartOf
<1> HIDE DEF x
<1>5. Last(x) = Newline
  <2>1. e - from + 1 \in 1 .. e - from + 1 /\ from + (e - from + 1) - 1 = e
    BY <1>1
  <2>2. x[e - from + 1] = file[e] /\ file[e] = Newline
    BY <1>4, <2>1 DEF IsLine
  <2>3. QED BY <1>4, <2>2 DEF Last
<1>6. Front(x) = LineText(from, e)
  <2>1. /\ 1 \in Int /\ e - from \in Int /\ 1 <= 1 /\ e - from <= Len(x)
        /\ 1 <= (e - from) + 1 /\ (e - from) - 1 + 1 = e - from
        /\ Len(x) - 1 = e - from
    BY <1>1, <1>4
  <2>2. /\ SubSeq(x, 1, e - from) \in Seq(1 .. 127)
        /\ Len(SubSeq(x, 1, e - from)) = (e - from) - 1 + 1
        /\ \A k \in 1 .. (e - from) - 1 + 1 :
              SubSeq(x, 1, e - from)[k] = x[1 + k - 1]
    BY <1>4, <2>1, PartOf
  <2>3. ASSUME NEW k \in 1 .. e - from
        PROVE  SubSeq(x, 1, e - from)[k] = LineText(from, e)[k]
    <3>1. 1 + k - 1 = k /\ k \in 1 .. e - from + 1
      BY <1>1
    <3>2. QED BY <1>2, <1>4, <2>1, <2>2, <3>1
  <2>4. Len(SubSeq(x, 1, e - from)) = e - from
    BY <2>1, <2>2
  <2>5. SubSeq(x, 1, e - from) = LineText(from, e)
    BY <1>1, <2>2, <2>3, <2>4, SeqEqual
  <2>6. QED BY <2>1, <2>5 DEF Front
<1>7. /\ from \in 1 .. Len(file) + 1 /\ ~(from > Len(file))
      /\ from + Len(x) = e + 1
    BY <1>1, <1>4
<1>8. QED BY <1>3, <1>5, <1>6, <1>7 DEF Reads, ReadStep

\* When the lines from a place on fit, the next one ends within the buffer,
\* and the lines after it fit.
LEMMA NextLine ==
    ASSUME file \in Seq(1 .. 127), NEW from \in 1 .. Len(file), LineStart(from),
           FitsFrom(file, from)
    PROVE  \E e : /\ IsLine(from, e) /\ e <= from + MAX_LINE_LENGTH - 2
                  /\ FitsFrom(file, e + 1) /\ LineStart(e + 1)
<1>1. PICK e : Stops(file, from, e)
    BY BufferStops
<1>2. /\ Len(file) \in Nat /\ MAX_LINE_LENGTH \in Nat
      /\ e \in from .. Len(file) /\ e <= from + MAX_LINE_LENGTH - 2
      /\ e \in Nat /\ from \in Nat
    BY <1>1, FileAssumption DEF Stops
<1>3. \A i \in from .. e - 1 : file[i] # Newline
    BY <1>1 DEF Stops
<1>4. from <= Len(file) /\ file[Len(file)] = Newline
    BY <1>2 DEF FitsFrom
<1>5. file[e] = Newline
  <2>1. CASE e = Len(file)
    BY <1>4, <2>1
  <2>2. CASE e = from + MAX_LINE_LENGTH - 2
    <3>1. from + MAX_LINE_LENGTH - 2 <= Len(file) /\ from \in from .. Len(file)
      BY <1>2, <2>2
    <3>2. PICK j \in from .. from + MAX_LINE_LENGTH - 2 :
              j <= Len(file) /\ file[j] = Newline
      BY <3>1 DEF FitsFrom
    <3>3. j \notin from .. e - 1
      BY <1>3, <3>2
    <3>4. j = e
      BY <1>2, <2>2, <3>3
    <3>5. QED BY <3>2, <3>4
  <2>3. QED BY <1>1, <2>1, <2>2 DEF Stops
<1>6. IsLine(from, e)
    BY <1>2, <1>3, <1>5 DEF IsLine
<1>7. LineStart(e + 1)
  <2>1. (e + 1) - 1 = e
    BY <1>2
  <2>2. QED BY <1>5, <2>1 DEF LineStart
<1>8. FitsFrom(file, e + 1)
  <2>1. e + 1 .. Len(file) \subseteq from .. Len(file)
    BY <1>2
  <2>2. QED BY <1>4, <2>1 DEF FitsFrom
<1>9. QED BY <1>2, <1>6, <1>7, <1>8

\* A line is left out of the bare file when it is empty, and reads the same
\* when it is not.
LEMMA LineKept ==
    ASSUME file \in Seq(1 .. 127), NEW from, NEW e, IsLine(from, e),
           e <= from + MAX_LINE_LENGTH - 2, NEW r, Keeps(r)
    PROVE  \/ /\ process_line(LineText(from, e)) = [kind |-> "empty"]
              /\ r[from] = r[e + 1]
           \/ read_file(r[from])
                 = <<process_line(LineText(from, e))>> \o read_file(r[e + 1])
<1>1. /\ from \in Nat /\ e \in Nat /\ 1 <= from /\ from <= e
      /\ Len(file) \in Nat /\ e <= Len(file) /\ MAX_LINE_LENGTH \in Nat
    BY LineTextFacts, FileAssumption
<1> DEFINE I == {k \in from .. e - 1 : Inked(k)}
<1>2. CASE I = {}
  <2>1. \A k \in from .. e - 1 : ~Inked(k)
    BY <1>2
  <2>2. /\ process_line(LineText(from, e)) = [kind |-> "empty"]
        /\ \A k \in from .. e : ~Matters(k)
    BY <2>1, BlankLine
  <2>3. from <= e + 1
    BY <1>1
  <2>4. r[from] = r[e + 1]
    BY <1>1, <2>2, <2>3, KeptNone
  <2>5. QED BY <2>2, <2>4
<1>3. CASE I # {}
  <2>1. I \subseteq Nat /\ I \subseteq 1 .. Len(file)
    BY <1>1
  <2>2. PICK i \in I : \A k \in I : i <= k
    <3> HIDE DEF I
    <3>1. QED BY <1>3, <2>1, LeastElement
  <2>3. PICK j \in I : \A k \in I : k <= j
    <3> HIDE DEF I
    <3>1. QED BY <1>1, <1>3, <2>1, LastLine
  <2>4. /\ i \in from .. e - 1 /\ Inked(i) /\ j \in from .. e - 1 /\ Inked(j)
        /\ i \in Nat /\ j \in Nat /\ i <= j
    BY <2>1, <2>2
  <2>5. \A k \in from .. e - 1 : Inked(k) => i <= k /\ k <= j
    BY <2>2, <2>3
  <2> HIDE DEF I
  <2>6. /\ \A k \in from .. i - 1 : ~Matters(k)
        /\ \A k \in i .. j : Matters(k)
        /\ \A k \in j + 1 .. e - 1 : ~Matters(k)
        /\ Matters(e)
    BY <2>4, <2>5, InkedLine
  <2> DEFINE s == Lower(i, j)
             rest == r[e + 1]
             x == process_line(LineText(from, e))
  <2>7. /\ s \in Seq(1 .. 127) /\ Len(s) = j - i + 1
        /\ \A k \in 1 .. j - i + 1 : s[k] # Newline
        /\ process_line(s) = x
    BY <2>4, <2>5, KeptReadsSame
  <2>8. rest \in Seq(1 .. 127)
    <3>1. e + 1 \in 1 .. Len(file) + 1
      BY <1>1
    <3>2. QED BY <3>1, KeptIsText
  <2> HIDE DEF s, rest, x
  <2>9. r[from] = r[i]
    <3>1. i - 1 \in Nat /\ from <= (i - 1) + 1 /\ i - 1 <= Len(file)
          /\ (i - 1) + 1 = i
      BY <1>1, <2>4
    <3>2. r[from] = r[(i - 1) + 1]
      BY <1>1, <2>6, <3>1, KeptNone
    <3>3. QED BY <3>1, <3>2
  <2>10. r[i] = s \o r[j + 1]
    <3>1. 1 <= i /\ i <= j + 1 /\ j <= Len(file)
      BY <1>1, <2>4
    <3>2. r[i] = Lower(i, j) \o r[j + 1]
      BY <2>4, <2>6, <3>1, KeptAll
    <3>3. QED BY <3>2 DEF s
  <2>11. r[j + 1] = r[e]
    <3>1. j + 1 \in Nat /\ e - 1 \in Nat /\ 1 <= j + 1 /\ j + 1 <= (e - 1) + 1
          /\ e - 1 <= Len(file) /\ (e - 1) + 1 = e
      BY <1>1, <2>4
    <3>2. r[j + 1] = r[(e - 1) + 1]
      BY <2>6, <3>1, KeptNone
    <3>3. QED BY <3>1, <3>2
  <2>12. r[e] = <<Newline>> \o rest
    <3>1. e \in 1 .. Len(file) + 1 /\ ~(e > Len(file))
      BY <1>1
    <3>2. tolower(file[e]) = Newline
      <4>1. file[e] = Newline
        BY DEF IsLine
      <4>2. QED BY <4>1 DEF tolower, isupper, Newline
    <3>3. r[e] = <<tolower(file[e])>> \o r[e + 1]
      BY <2>6, <3>1 DEF Keeps, KeepStep
    <3>4. QED BY <3>2, <3>3 DEF rest
  <2>13. r[from] = (s \o <<Newline>>) \o rest
    <3>1. <<Newline>> \in Seq(1 .. 127)
      BY DEF Newline
    <3>2. s \in Seq(1 .. 127)
      BY <2>7
    <3>3. (s \o <<Newline>>) \o rest = s \o (<<Newline>> \o rest)
      BY <2>8, <3>1, <3>2, ConcatAssociative
    <3>4. QED BY <2>9, <2>10, <2>11, <2>12, <3>3
  <2>14. read_file((s \o <<Newline>>) \o rest)
             = <<process_line(s)>> \o read_file(rest)
    <3>1. Len(s) + 1 <= MAX_LINE_LENGTH - 1
      BY <1>1, <2>4, <2>7
    <3>2. \A k \in 1 .. Len(s) : s[k] # Newline
      BY <2>7
    <3>3. s \in Seq(1 .. 127)
      BY <2>7
    <3>4. QED BY <2>8, <3>1, <3>2, <3>3, ReadFirst
  <2>15. QED BY <2>7, <2>13, <2>14 DEF rest, x
<1>4. QED BY <1>2, <1>3

\* The lines of a file that fit the buffer, without some that are empty, are
\* the lines of the bare file.
LEMMA BareReadsAlike ==
    ASSUME file \in Seq(1 .. 127), FitsFrom(file, 1)
    PROVE  Alike(read_file(file), read_file(Bare))
<1> DEFINE n == Len(file)
<1>1. PICK r : read_file(file) = r[1] /\ Reads(file, r)
    BY ReadingFacts DEF Reads
<1>2. PICK kept : Bare = kept[1] /\ Keeps(kept)
    BY BareFacts
<1> DEFINE T == {from \in 1 .. n + 1 :
                    LineStart(from) /\ FitsFrom(file, from) =>
                        Alike(r[from], read_file(kept[from]))}
<1>3. n \in Nat
    OBVIOUS
<1>4. n + 1 \in T
  <2>1. n + 1 \in 1 .. n + 1 /\ n + 1 > Len(file)
    BY <1>3
  <2>2. r[n + 1] = <<>>
    BY <1>1, <2>1 DEF Reads, ReadStep
  <2>3. kept[n + 1] = <<>>
    BY <1>2, <2>1 DEF Keeps, KeepStep
  <2>4. read_file(<<>>) = <<>>
    <3>1. <<>> \in Seq(1 .. 127) /\ Len(<<>>) = 0
      OBVIOUS
    <3>2. PICK u : read_file(<<>>) = u[1] /\ Reads(<<>>, u)
      BY <3>1, ReadingFacts DEF Reads
    <3>3. 1 \in 1 .. Len(<<>>) + 1 /\ 1 > Len(<<>>)
      BY <3>1
    <3>4. u[1] = <<>>
      BY <3>2, <3>3 DEF Reads, ReadStep
    <3>5. QED BY <3>2, <3>4
  <2>5. Alike(r[n + 1], read_file(kept[n + 1]))
    BY <2>2, <2>3, <2>4, AlikeNone
  <2>6. QED BY <2>1, <2>5
<1>5. ASSUME NEW from \in 1 .. n, from + 1 .. n + 1 \subseteq T
      PROVE  from \in T
  <2>1. from \in 1 .. n + 1
    BY <1>3
  <2>2. SUFFICES ASSUME LineStart(from), FitsFrom(file, from)
                 PROVE  Alike(r[from], read_file(kept[from]))
    BY <2>1
  <2>3. PICK e : /\ IsLine(from, e) /\ e <= from + MAX_LINE_LENGTH - 2
                 /\ FitsFrom(file, e + 1) /\ LineStart(e + 1)
    BY <2>2, NextLine
  <2>4. e + 1 \in from + 1 .. n + 1
    BY <1>3, <2>3 DEF IsLine
  <2>5. Alike(r[e + 1], read_file(kept[e + 1]))
    BY <1>5, <2>3, <2>4
  <2> DEFINE x == process_line(LineText(from, e))
  <2>6. x \in Pieces
    BY <2>3, LineTextFacts DEF Pieces
  <2> HIDE DEF T, n
  <2>7. r[from] = <<x>> \o r[e + 1]
    BY <1>1, <2>3, LineRead
  <2>8. \/ x = [kind |-> "empty"] /\ kept[from] = kept[e + 1]
        \/ read_file(kept[from]) = <<x>> \o read_file(kept[e + 1])
    BY <1>2, <2>3, LineKept
  <2> HIDE DEF x
  <2>9. CASE x = [kind |-> "empty"] /\ kept[from] = kept[e + 1]
    <3>1. x.kind = "empty"
      BY <2>9
    <3>2. Alike(<<x>> \o r[e + 1], read_file(kept[e + 1]))
      BY <2>5, <2>6, <3>1, AlikeEmpty
    <3>3. QED BY <2>7, <2>9, <3>2
  <2>10. CASE read_file(kept[from]) = <<x>> \o read_file(kept[e + 1])
    <3>1. Alike(<<x>> \o r[e + 1], <<x>> \o read_file(kept[e + 1]))
      BY <2>5, <2>6, AlikeSame
    <3>2. QED BY <2>7, <2>10, <3>1
  <2>11. QED BY <2>8, <2>9, <2>10
<1>6. 1 .. n + 1 \subseteq T
  <2> HIDE DEF T, n
  <2>1. QED BY <1>3, <1>4, <1>5, Backward
<1>7. 1 \in T
    BY <1>3, <1>6
<1>8. LineStart(1)
    BY DEF LineStart
<1>9. Alike(r[1], read_file(kept[1]))
    BY <1>7, <1>8
<1>10. QED BY <1>1, <1>2, <1>9

-----------------------------------------------------------------------------
LEMMA LinesFitFrom ==
    ASSUME file \in Seq(1 .. 127), LinesFit
    PROVE  FitsFrom(file, 1)
<1>1. Len(file) \in Nat /\ DOMAIN file = 1 .. Len(file) /\ MAX_LINE_LENGTH \in Nat
    BY FileAssumption
<1>2. 1 <= Len(file) => file[Len(file)] = Newline
  <2>1. 1 <= Len(file) => file # <<>>
    BY <1>1
  <2>2. QED BY <2>1 DEF LinesFit, Last
<1>3. ASSUME NEW i \in 1 .. Len(file), i + MAX_LINE_LENGTH - 2 <= Len(file)
      PROVE  \E j \in i .. i + MAX_LINE_LENGTH - 2 :
                 j <= Len(file) /\ file[j] = Newline
  <2>1. Newlines \cap i .. i + MAX_LINE_LENGTH - 2 # {}
    BY <1>1, <1>3 DEF LinesFit
  <2>2. PICK j \in i .. i + MAX_LINE_LENGTH - 2 : j \in Newlines
    BY <2>1
  <2>3. j \in 1 .. Len(file) /\ file[j] = Newline
    BY <1>1, <2>2 DEF Newlines
  <2>4. QED BY <1>1, <2>3
<1>4. QED BY <1>2, <1>3 DEF FitsFrom

\* The program of a file whose lines fit is that of the bare file, with some
\* empty lines more.
LEMMA ProgramOfBare ==
    ASSUME FileInv, LinesFit
    PROVE  /\ program \in Seq(Line) /\ read_file(Bare) \in Seq(Line)
           /\ \E h : Thinned(program, read_file(Bare), h)
<1> DEFINE q == read_file(Bare)
<1>1. file \in Seq(1 .. 127) /\ program = read_file(file)
    BY FileAssumption DEF FileInv
<1>2. program \in Seq(Line)
    BY SourceAssumption DEF FileInv
<1>3. Alike(program, q)
  <2>1. FitsFrom(file, 1)
    BY <1>1, LinesFitFrom
  <2>2. QED BY <1>1, <2>1, BareReadsAlike
<1> HIDE DEF q
<1>4. PICK h : Thinned(program, q, h)
    BY <1>3 DEF Alike
<1>5. q \in Seq(Pieces)
    BY <1>3 DEF Alike
<1>6. q \in Seq(Line)
  <2>1. Len(q) \in Nat /\ q \in [1 .. Len(q) -> Pieces]
    BY <1>5, LenProperties
  <2>2. ASSUME NEW k \in 1 .. Len(q) PROVE q[k] \in Line
    <3>1. h[k] \in 1 .. Len(program) /\ q[k] = program[h[k]]
      BY <1>4 DEF Thinned
    <3>2. program[h[k]] \in Line
      BY <1>2, <3>1, ElementOfSeq
    <3>3. QED BY <3>1, <3>2
  <2>3. q \in [1 .. Len(q) -> Line]
    BY <2>1, <2>2
  <2>4. QED BY <2>1, <2>3
<1>7. QED BY <1>2, <1>4, <1>6 DEF q

\* Comments, indentation, empty lines and the case of letters change nothing
\* of the binary and refuse nothing (preprocess_line, strip_line and the two
\* passes of assemble.c): of every file, with lines of every length, when no
\* symbols collide.
THEOREM LayoutIsImmaterialHolds ==
    ASSUME CollisionFree
    PROVE  FileSpec => []LayoutIsImmaterial
<1>0. NoCollisions
    BY DEF CollisionFree, NoCollisions, Alone
<1>1. ASSUME FileInv, AssemblerInv, TranslationInv, Refusal, LinesReadWhole
      PROVE  LayoutIsImmaterial
  <2> DEFINE q == read_file(Bare)
             b == base_address
  <2>1. ASSUME LinesFit
        PROVE  /\ program \in Seq(Line) /\ q \in Seq(Line)
               /\ \E h : Thinned(program, q, h)
    BY <1>1, <2>1, ProgramOfBare
  <2> HIDE DEF q
  <2>2. ASSUME phase = "done"
        PROVE  output = <<Abstract!Translation(q, b)>>
    <3>1. LinesFit
      BY <1>1, <2>2 DEF LinesReadWhole
    <3>2. PICK h : Thinned(program, q, h)
      BY <2>1, <3>1
    <3>3. program \in Seq(Line) /\ q \in Seq(Line)
      BY <2>1, <3>1
    <3>4. /\ memory = Abstract!Translation(program, b)
          /\ \A i \in DOMAIN program : ~Abstract!Refused(program, b, i)
      BY <1>1, <2>2, BufferIsTranslation
    <3>5. ~HasRefused(program, b)
      BY <3>4 DEF HasRefused
    <3>6. ~HasRefused(q, b)
      BY <3>2, <3>3, <3>5, EmptyLinesNotRefused
    <3>7. Abstract!Translation(program, b) = Abstract!Translation(q, b)
      BY <3>2, <3>3, <3>6, EmptyLinesImmaterial
    <3>8. output = <<memory>>
      BY <1>1, <2>2 DEF AssemblerInv, OutputInv
    <3>9. QED BY <3>4, <3>7, <3>8
  <2>3. ASSUME phase = "refused", LinesFit
        PROVE  \E i \in DOMAIN q : Abstract!Refused(q, b, i)
    <3>1. Result = <<"refused">>
      BY <2>3 DEF Result
    <3>2. HasRefused(program, b)
      BY <1>1, <3>1 DEF Refusal
    <3>3. PICK h : Thinned(program, q, h)
      BY <2>1, <2>3
    <3>4. program \in Seq(Line) /\ q \in Seq(Line)
      BY <2>1, <2>3
    <3>5. HasRefused(q, b)
      BY <3>2, <3>3, <3>4, EmptyLinesNotRefused
    <3>6. QED BY <3>5 DEF HasRefused
  <2>4. QED BY <2>2, <2>3 DEF LayoutIsImmaterial, q
<1>2. FileInv /\ AssemblerInv /\ TranslationInv /\ Refusal /\ LinesReadWhole
          => LayoutIsImmaterial
    BY <1>1
<1>3. FileSpec => []FileInv
    BY InitialFile, FileInductive, PTL DEF FileSpec
<1>4. Spec => []TranslationInv
    BY <1>0, TranslationInvariant
<1>5. Spec => []Refusal
    BY RefusedForALine
<1>6. QED
    BY <1>2, <1>3, <1>4, <1>5, AssemblerInvariant, LinesReadWholeHolds,
       FileIsAssembled, PTL
=============================================================================
