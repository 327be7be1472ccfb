-------------------------- MODULE EmulatorTheorems --------------------------
(***************************************************************************)
(* The emulator for every byte width, memory capacity, decoder and binary: *)
(* type correctness, narrow registers of 32-bit programs, fetches that     *)
(* stay in memory in programs without br, exact stores, the dump, and what *)
(* keeps a program going.                                                  *)
(***************************************************************************)
EXTENDS Emulator, CpuTheorems

(* Main memory: a word read is a word, a word written leaves bytes, and a  *)
(* word written and read back with the same size is the word.              *)

LEMMA Capacity ==
    /\ MEMORY_CAPACITY \in Nat \ {0} /\ MEMORY_CAPACITY % 4 = 0
    /\ MEMORY_CAPACITY + 8 <= XMod
BY CapacityAssumption

\* The powers of the byte modulus, one after the other.
LEMMA BytePowers == \A k \in 0 .. 7 : ByteMod^k \in Nat \ {0}
<1>0. ByteMod \in Nat \ {0}
    BY ByteAssumption
<1>1. ASSUME NEW k \in 0 .. 6, ByteMod^k \in Nat \ {0}
      PROVE  ByteMod^(k + 1) \in Nat \ {0}
  <2> DEFINE m == ByteMod^k
  <2>1. ByteMod^(k + 1) = ByteMod * m
    BY ByteAssumption
  <2>2. m \in Nat \ {0}
    BY <1>1
  <2> HIDE DEF m
  <2>3. ByteMod * m \in Nat \ {0}
    BY <1>0, <2>2, Z3
  <2>4. QED
    BY <2>1, <2>3
<1>2. ByteMod^0 \in Nat \ {0}
    BY ByteAssumption
<1>3. ByteMod^1 \in Nat \ {0} /\ ByteMod^2 \in Nat \ {0}
    BY <1>1, <1>2
<1>4. ByteMod^3 \in Nat \ {0} /\ ByteMod^4 \in Nat \ {0}
    BY <1>1, <1>3
<1>5. ByteMod^5 \in Nat \ {0} /\ ByteMod^6 \in Nat \ {0}
    BY <1>1, <1>4
<1>6. ByteMod^7 \in Nat \ {0}
    BY <1>1, <1>5
<1>7. QED
    BY <1>2, <1>3, <1>4, <1>5, <1>6

\* Bytes of words, words of bytes.
LEMMA ByteOfIsByte ==
    ASSUME NEW word \in Int, NEW k \in 0 .. 7
    PROVE  ByteOf(word, k) \in Byte
<1> DEFINE m == ByteMod^k
<1>1. m \in Nat \ {0} /\ ByteMod \in Nat \ {0}
    BY ByteAssumption, BytePowers
<1> HIDE DEF m
<1>2. word \div m \in Int
    BY <1>1, DivisionParts
<1>3. (word \div m) % ByteMod \in 0 .. ByteMod - 1
    BY <1>1, <1>2, DivisionParts
<1>4. QED
    BY <1>3 DEF ByteOf, Byte, m

LEMMA WordAtIsWord ==
    ASSUME NEW mem \in Memory, NEW address \in Nat,
           address + 3 <= MEMORY_CAPACITY + 6
    PROVE  WordAt(mem, address) \in 0 .. WMod - 1
<1> DEFINE b == ByteMod
           p == mem[address]
           q == mem[address + 1]
           r == mem[address + 2]
           s == mem[address + 3]
<1>1. b \in Nat \ {0}
    BY ByteAssumption
<1>2. /\ p \in 0 .. b - 1 /\ q \in 0 .. b - 1
      /\ r \in 0 .. b - 1 /\ s \in 0 .. b - 1
    BY Capacity DEF Memory, MemAddrs, Byte
<1>3. WordAt(mem, address) = p + b * (q + b * (r + b * s))
    BY DEF WordAt
<1>4. WMod = b * b * b * b
    BY DEF WMod
<1> HIDE DEF b, p, q, r, s
<1>5. r + b * s \in 0 .. b * b - 1
    BY <1>1, <1>2, Z3
<1> DEFINE t == r + b * s
           c == b * b
<1>6. t \in 0 .. c - 1 /\ c \in Nat \ {0}
    BY <1>1, <1>5, Z3
<1> HIDE DEF t, c
<1>7. q + b * t \in 0 .. b * c - 1
    BY <1>1, <1>2, <1>6, Z3
<1> DEFINE u == q + b * t
           d == b * c
<1>8. u \in 0 .. d - 1 /\ d \in Nat \ {0}
    BY <1>1, <1>6, <1>7, Z3
<1> HIDE DEF u, d
<1>9. p + b * u \in 0 .. b * d - 1
    BY <1>1, <1>2, <1>8, Z3
<1>10. b * d = b * b * b * b
    BY <1>1, Z3 DEF c, d
<1>11. QED
    BY <1>3, <1>4, <1>9, <1>10 DEF t, u

LEMMA FetchIsWord ==
    ASSUME NEW mem \in Memory, NEW address \in Nat, NEW sf \in Sizes,
           address < MEMORY_CAPACITY
    PROVE  /\ fetch_word(mem, address, sf) \in 0 .. Width(sf) - 1
           /\ fetch_word(mem, address, sf) \in Int
<1>1. WordAt(mem, address) \in 0 .. WMod - 1
    BY Capacity, WordAtIsWord
<1>2. WMod \in Nat \ {0} /\ XMod = WMod * WMod
    BY Widths DEF XMod
<1>3. CASE sf = SF32
    BY <1>1, <1>2, <1>3 DEF fetch_word, Width
<1>4. CASE sf # SF32
  <2>1. address + 4 \in Nat /\ (address + 4) + 3 <= MEMORY_CAPACITY + 6
    BY Capacity
  <2>2. WordAt(mem, address + 4) \in 0 .. WMod - 1
    BY <2>1, WordAtIsWord
  <2>3. WordAt(mem, address) + WMod * WordAt(mem, address + 4)
            \in 0 .. WMod * WMod - 1
    BY <1>1, <1>2, <2>2, WordPair
  <2>4. WMod * WMod \in Int
    BY <1>2
  <2>5. QED
    BY <1>2, <1>4, <2>3, <2>4 DEF fetch_word, Width, SF32
<1>5. QED
    BY <1>3, <1>4

LEMMA WriteIsMemory ==
    ASSUME NEW mem \in Memory, NEW address \in Nat, NEW word \in Int,
           NEW sf \in Sizes
    PROVE  write_word(mem, address, word, sf) \in Memory
<1>1. ASSUME NEW a \in MemAddrs
      PROVE  (IF a \in AccessBytes(address, sf) THEN ByteOf(word, a - address)
              ELSE mem[a]) \in Byte
  <2>1. CASE a \in AccessBytes(address, sf)
    <3>1. a - address \in 0 .. 7
      BY <2>1, Capacity DEF AccessBytes, NumBytes, MemAddrs
    <3>2. QED
      BY <2>1, <3>1, ByteOfIsByte
  <2>2. CASE a \notin AccessBytes(address, sf)
    BY <2>2 DEF Memory
  <2>3. QED
    BY <2>1, <2>2
<1>2. QED
    BY <1>1 DEF write_word, Memory


\* What is left of a word when its lowest bytes are taken off.
Rest(word, k) == word \div ByteMod^k

LEMMA NextByte ==
    ASSUME NEW word \in Nat, NEW k \in 0 .. 6
    PROVE  /\ Rest(word, k) = ByteMod * Rest(word, k + 1) + ByteOf(word, k)
           /\ Rest(word, k) \in Nat /\ Rest(word, k + 1) \in Nat
<1> DEFINE b == ByteMod
           m == ByteMod^k
           r == word % m
           q == word \div m
           n == q \div b
           s == q % b
<1>1. b \in Nat \ {0} /\ m \in Nat \ {0} /\ ByteMod^(k + 1) = b * m
    BY ByteAssumption, BytePowers
<1> HIDE DEF b, m
<1>2. word = m * q + r /\ r \in 0 .. m - 1 /\ q \in Int
    BY <1>1, DivisionParts
<1> HIDE DEF q, r
<1>3. q \in Nat
    BY <1>1, <1>2, Z3
<1>4. q = b * n + s /\ s \in 0 .. b - 1 /\ n \in Int
    BY <1>1, <1>3, DivisionParts
<1> HIDE DEF n, s
<1>5. n \in Nat
    BY <1>1, <1>3, <1>4, Z3
<1> DEFINE t == m * s + r
           c == b * m
<1>6. t \in 0 .. c - 1 /\ c \in Nat \ {0}
    BY <1>1, <1>2, <1>4, Z3
<1>7. word = c * n + t
    BY <1>1, <1>2, <1>4, <1>5, Z3
<1> HIDE DEF t
<1>8. word \div c = n
    BY <1>5, <1>6, <1>7, DivisionUnique
<1>9. Rest(word, k) = q /\ Rest(word, k + 1) = n /\ ByteOf(word, k) = s
    BY <1>1, <1>8 DEF Rest, ByteOf, q, m, c, s, b
<1>10. QED
    BY <1>3, <1>4, <1>5, <1>9 DEF b

\* Four bytes, the lowest first, and what is above them.
LEMMA FourBytes ==
    ASSUME NEW b \in Nat, NEW q0 \in Nat, NEW q1 \in Nat, NEW q2 \in Nat,
           NEW q3 \in Nat, NEW q4 \in Nat, NEW r0 \in Nat, NEW r1 \in Nat,
           NEW r2 \in Nat, NEW r3 \in Nat,
           q0 = b * q1 + r0, q1 = b * q2 + r1, q2 = b * q3 + r2,
           q3 = b * q4 + r3
    PROVE  r0 + b * (r1 + b * (r2 + b * r3)) + (b * b * b * b) * q4 = q0
<1>1. b * r3 = q3 * b - (b * b) * q4
    BY Z3
<1>2. b * (r2 + b * r3) = b * q2 - (b * b * b) * q4
    BY Z3
<1>3. b * (r1 + b * (r2 + b * r3)) = b * q1 - (b * b * b * b) * q4
  <2>1. r1 + b * (r2 + b * r3) = q1 - (b * b * b) * q4
    BY <1>2, Z3
  <2> DEFINE u == r1 + b * (r2 + b * r3)
             w == b * b * b
  <2>2. u = q1 - w * q4 /\ w \in Nat /\ u \in Nat
    BY <2>1, Z3
  <2> HIDE DEF u, w
  <2>3. b * u = b * q1 - (w * b) * q4
    BY <2>2, Z3
  <2>4. QED
    BY <2>3 DEF u, w
<1>4. QED
    BY <1>3, Z3

\* The word made of four bytes of a word.
Quad(word, k) ==
    ByteOf(word, k) + ByteMod * (ByteOf(word, k + 1)
        + ByteMod * (ByteOf(word, k + 2) + ByteMod * ByteOf(word, k + 3)))

LEMMA QuadIsNatural ==
    ASSUME NEW word \in Nat, NEW k \in {0, 4}
    PROVE  Quad(word, k) \in Nat
<1>1. ASSUME NEW j \in 0 .. 7 PROVE ByteOf(word, j) \in Nat
  <2>1. ByteOf(word, j) \in Byte
    BY ByteOfIsByte
  <2>2. QED
    BY <2>1, ByteAssumption DEF Byte
<1> DEFINE b == ByteMod
           p == ByteOf(word, k)
           q == ByteOf(word, k + 1)
           r == ByteOf(word, k + 2)
           s == ByteOf(word, k + 3)
<1>2. b \in Nat /\ p \in Nat /\ q \in Nat /\ r \in Nat /\ s \in Nat
    BY <1>1, ByteAssumption
<1>3. Quad(word, k) = p + b * (q + b * (r + b * s))
    BY DEF Quad
<1> HIDE DEF b, p, q, r, s
<1>4. r + b * s \in Nat
    BY <1>2, Z3
<1>5. q + b * (r + b * s) \in Nat
    BY <1>2, <1>4, Z3
<1>6. p + b * (q + b * (r + b * s)) \in Nat
    BY <1>2, <1>5, Z3
<1>7. QED
    BY <1>3, <1>6

LEMMA LowBytes ==
    ASSUME NEW word \in Nat
    PROVE  /\ Quad(word, 0) + WMod * Rest(word, 4) = word
           /\ Rest(word, 4) \in Nat /\ Quad(word, 0) \in Nat
<1>1. Rest(word, 0) = word
    BY ByteAssumption DEF Rest
<1>2. /\ Rest(word, 0) = ByteMod * Rest(word, 1) + ByteOf(word, 0)
      /\ Rest(word, 1) = ByteMod * Rest(word, 2) + ByteOf(word, 1)
      /\ Rest(word, 2) = ByteMod * Rest(word, 3) + ByteOf(word, 2)
      /\ Rest(word, 3) = ByteMod * Rest(word, 4) + ByteOf(word, 3)
      /\ Rest(word, 1) \in Nat /\ Rest(word, 2) \in Nat
      /\ Rest(word, 3) \in Nat /\ Rest(word, 4) \in Nat
    BY NextByte
<1>3. ByteMod \in Nat /\ \A k \in 0 .. 7 : ByteOf(word, k) \in Nat
  <2>1. ASSUME NEW k \in 0 .. 7 PROVE ByteOf(word, k) \in Nat
    <3>1. ByteOf(word, k) \in Byte
      BY ByteOfIsByte
    <3>2. QED
      BY <3>1, ByteAssumption DEF Byte
  <2>2. QED
    BY <2>1, ByteAssumption
<1>4. Quad(word, 0) + (ByteMod * ByteMod * ByteMod * ByteMod) * Rest(word, 4)
          = Rest(word, 0)
    BY <1>1, <1>2, <1>3, FourBytes DEF Quad
<1>5. Quad(word, 0) \in Nat
    BY QuadIsNatural
<1>6. QED
    BY <1>1, <1>2, <1>4, <1>5 DEF WMod

LEMMA HighBytes ==
    ASSUME NEW word \in 0 .. XMod - 1
    PROVE  Quad(word, 4) = Rest(word, 4)
<1> DEFINE top == Rest(word, 7) \div ByteMod
<1>1. word \in Nat /\ ByteMod \in Nat \ {0} /\ WMod \in Nat \ {0}
    BY ByteAssumption, Widths
<1>2. /\ Rest(word, 4) = ByteMod * Rest(word, 5) + ByteOf(word, 4)
      /\ Rest(word, 5) = ByteMod * Rest(word, 6) + ByteOf(word, 5)
      /\ Rest(word, 6) = ByteMod * Rest(word, 7) + ByteOf(word, 6)
      /\ Rest(word, 4) \in Nat /\ Rest(word, 5) \in Nat
      /\ Rest(word, 6) \in Nat /\ Rest(word, 7) \in Nat
    BY <1>1, NextByte
<1>3. ASSUME NEW k \in 0 .. 7 PROVE ByteOf(word, k) \in Nat
  <2>1. ByteOf(word, k) \in Byte
    BY <1>1, ByteOfIsByte
  <2>2. QED
    BY <1>1, <2>1 DEF Byte
<1>4. /\ Rest(word, 7) = ByteMod * top + ByteOf(word, 7)
      /\ top \in Nat
  <2> DEFINE q == Rest(word, 7)
  <2>1. q \in Nat /\ ByteOf(word, 7) = q % ByteMod
    BY <1>2 DEF ByteOf, Rest
  <2> HIDE DEF q
  <2>2. q = ByteMod * (q \div ByteMod) + (q % ByteMod) /\ q \div ByteMod \in Nat
    BY <1>1, <2>1, NaturalParts
  <2>3. QED
    BY <2>1, <2>2 DEF q, top
<1> HIDE DEF top
<1>5. Quad(word, 4) + WMod * top = Rest(word, 4)
  <2>1. Quad(word, 4) + (ByteMod * ByteMod * ByteMod * ByteMod) * top
            = Rest(word, 4)
    BY <1>1, <1>2, <1>3, <1>4, FourBytes DEF Quad
  <2>2. QED
    BY <2>1 DEF WMod
<1>6. top = 0
  <2> DEFINE high == Quad(word, 4)
             low == Quad(word, 0)
             w == WMod
  <2>1. low + w * Rest(word, 4) = word /\ low \in Nat
    BY <1>1, LowBytes
  <2>2. high \in Nat
    BY <1>1, QuadIsNatural
  <2>3. high + w * top = Rest(word, 4) /\ w \in Nat \ {0} /\ word < w * w
    BY <1>1, <1>5 DEF XMod
  <2> HIDE DEF high, low, w
  <2>4. word = low + w * high + (w * w) * top
    BY <1>2, <1>4, <2>1, <2>2, <2>3, Z3
  <2>5. w * w \in Nat \ {0} /\ w * high \in Nat
    BY <2>2, <2>3, Z3
  <2>6. QED
    BY <1>1, <1>4, <2>1, <2>3, <2>4, <2>5, Z3
<1>7. Quad(word, 4) \in Nat
    BY <1>1, QuadIsNatural
<1>8. QED
    BY <1>1, <1>5, <1>6, <1>7

\* A word written inside memory is read back with the same size.
LEMMA FetchAfterWrite ==
    ASSUME NEW mem \in Memory, NEW address \in Nat, NEW sf \in Sizes,
           NEW word \in 0 .. Width(sf) - 1,
           AccessBytes(address, sf) \subseteq 0 .. MEMORY_CAPACITY - 1
    PROVE  fetch_word(write_word(mem, address, word, sf), address, sf) = word
<1> DEFINE new == write_word(mem, address, word, sf)
<1>1. ASSUME NEW k \in 0 .. NumBytes(sf) - 1
      PROVE  new[address + k] = ByteOf(word, k)
  <2>1. NumBytes(sf) \in Nat
    BY DEF NumBytes
  <2>2. address + k \in AccessBytes(address, sf)
    BY <2>1 DEF AccessBytes
  <2>3. address + k \in MemAddrs /\ (address + k) - address = k
    BY <2>1, <2>2, Capacity DEF MemAddrs
  <2>4. QED
    BY <2>2, <2>3 DEF write_word
<1> HIDE DEF new
<1>2. WordAt(new, address) = Quad(word, 0)
  <2>1. {0, 1, 2, 3} \subseteq 0 .. NumBytes(sf) - 1
    BY DEF NumBytes
  <2>2. new[address + 0] = ByteOf(word, 0) /\ new[address + 1] = ByteOf(word, 1)
        /\ new[address + 2] = ByteOf(word, 2) /\ new[address + 3] = ByteOf(word, 3)
    BY <1>1, <2>1
  <2>3. QED
    BY <2>2 DEF WordAt, Quad
<1>3. WMod \in Nat \ {0} /\ XMod \in Nat \ {0} /\ WMod <= XMod
    BY Widths
<1>4. CASE sf = SF32
  <2> DEFINE q == Rest(word, 4)
             l == Quad(word, 0)
  <2>1. word \in Nat /\ word < WMod
    BY <1>3, <1>4 DEF Width
  <2>2. l + WMod * q = word /\ q \in Nat /\ l \in Nat
    BY <2>1, LowBytes
  <2> HIDE DEF q, l
  <2>3. q = 0
    BY <1>3, <2>1, <2>2, Z3
  <2>4. l = word
    BY <1>3, <2>1, <2>2, <2>3
  <2>5. QED
    BY <1>2, <1>4, <2>4 DEF fetch_word, new, l
<1>5. CASE sf = SF64
  <2>1. word \in 0 .. XMod - 1 /\ NumBytes(sf) = 8
    BY <1>5 DEF Width, NumBytes, SF32, SF64
  <2>2. new[address + 4] = ByteOf(word, 4) /\ new[address + 5] = ByteOf(word, 5)
        /\ new[address + 6] = ByteOf(word, 6) /\ new[address + 7] = ByteOf(word, 7)
    BY <1>1, <2>1
  <2>3. WordAt(new, address + 4) = Quad(word, 4)
    <3>1. (address + 4) + 1 = address + 5 /\ (address + 4) + 2 = address + 6
          /\ (address + 4) + 3 = address + 7
      OBVIOUS
    <3>2. QED
      BY <2>2, <3>1 DEF WordAt, Quad
  <2>4. Quad(word, 4) = Rest(word, 4)
    BY <2>1, HighBytes
  <2>5. Quad(word, 0) + WMod * Rest(word, 4) = word
    BY <1>3, <2>1, LowBytes
  <2>6. QED
    BY <1>2, <1>5, <2>3, <2>4, <2>5 DEF fetch_word, new, SF32, SF64
<1>6. QED
    BY <1>4, <1>5 DEF Sizes

-----------------------------------------------------------------------------
\* The fields of a transfer instruction.
LEMMA TransferFields ==
    ASSUME NEW i \in Transfer
    PROVE  /\ i.op \in TransferOps /\ i.sf \in Sizes /\ i.rt \in RegNums
           /\ i.op = "load_literal" => i.simm19 \in Int
           /\ i.op # "load_literal" =>
                 i.xn \in RegNums /\ i.l \in {STORE_L, LOAD_L}
           /\ i.op = "sdt_uimm" => i.offset \in Nat
           /\ i.op = "sdt_regoffset" => i.xm \in RegNums
           /\ i.op \in {"sdt_preind", "sdt_postind"} => i.simm9 \in Int
BY DEF Transfer, SdtUimm, SdtRegOffset, SdtIndexed, LoadLiteral,
       TransferOps, SdtOps

LEMMA AddressIsWord ==
    ASSUME NEW cpu \in State, NEW i \in Transfer
    PROVE  TransferAddress(cpu, i) \in Word64
<1> DEFINE x == get_register_value(cpu, i.xn, SF64)
           m == get_register_value(cpu, i.xm, SF64)
<1>0. SF64 \in Sizes
    BY DEF Sizes
<1>1. cpu.PC \in Int
    BY DEF State, Word64
<1>2. CASE i.op = "sdt_uimm"
  <2>1. x + i.offset * 8 \in Int
    BY <1>0, <1>2, TransferFields, GetRegister DEF Word64
  <2>2. QED
    BY <1>2, <2>1, ReducedIsWord DEF TransferAddress
<1>3. CASE i.op = "sdt_regoffset"
  <2>1. x + m \in Int
    BY <1>0, <1>3, TransferFields, GetRegister DEF Word64
  <2>2. QED
    BY <1>3, <2>1, ReducedIsWord DEF TransferAddress
<1>4. CASE i.op = "sdt_preind"
  <2>1. x + i.simm9 \in Int
    BY <1>0, <1>4, TransferFields, GetRegister DEF Word64
  <2>2. QED
    BY <1>4, <2>1, ReducedIsWord DEF TransferAddress
<1>5. CASE i.op = "sdt_postind"
    BY <1>0, <1>5, TransferFields, GetRegister DEF TransferAddress
<1>6. CASE i.op = "load_literal"
  <2>1. cpu.PC + i.simm19 * 4 \in Int
    BY <1>1, <1>6, TransferFields
  <2>2. QED
    BY <1>6, <2>1, ReducedIsWord DEF TransferAddress
<1>7. QED
    BY <1>2, <1>3, <1>4, <1>5, <1>6, TransferFields DEF TransferOps, SdtOps

LEMMA LoadedKeeps ==
    ASSUME NEW cpu \in State, NEW mem \in Memory, NEW i \in Transfer,
           NEW address \in Nat, address < MEMORY_CAPACITY
    PROVE  Kept(cpu, Loaded(cpu, mem, i, address), i.sf)
<1> DEFINE v == fetch_word(mem, address, i.sf)
           sf == i.sf
           rt == i.rt
<1>1. sf \in Sizes /\ rt \in RegNums
    BY TransferFields
<1>2. v \in Int
    BY <1>1, FetchIsWord
<1>3. Loaded(cpu, mem, i, address)
          = IF IsLoad(i) THEN set_register_value(cpu, rt, v, sf) ELSE cpu
    BY DEF Loaded
<1> HIDE DEF v, sf, rt
<1>4. Kept(cpu, set_register_value(cpu, rt, v, sf), sf)
    BY <1>1, <1>2, SetRegister DEF Kept
<1>5. Kept(cpu, cpu, sf)
    BY DEF Kept
<1>6. QED
    BY <1>3, <1>4, <1>5 DEF sf

LEMMA WriteBackKeeps ==
    ASSUME NEW cpu \in State, NEW i \in Transfer, NEW x \in Word64,
           i.op \in {"sdt_preind", "sdt_postind"}
    PROVE  Kept(cpu, WriteBack(cpu, i, x), i.sf)
<1> DEFINE v == x + i.simm9
           sf == i.sf
           xn == i.xn
<1>1. sf \in Sizes /\ xn \in RegNums /\ v \in Int
    BY TransferFields DEF Word64
<1>2. WriteBack(cpu, i, x) = set_register_value(cpu, xn, v, sf)
    BY DEF WriteBack
<1> HIDE DEF v, sf, xn
<1>3. QED
    BY <1>1, <1>2, SetRegister DEF Kept, sf

LEMMA TransferKeeps ==
    ASSUME NEW cpu \in State, NEW mem \in Memory, NEW i \in Transfer,
           ~OutOfMemory(TransferAddress(cpu, i))
    PROVE  /\ Kept(cpu, TransferredCpu(cpu, mem, i), i.sf)
           /\ TransferredMemory(cpu, mem, i) \in Memory
<1> DEFINE address == TransferAddress(cpu, i)
           x == get_register_value(cpu, i.xn, SF64)
           sf == i.sf
<1>1. address \in Nat /\ address < MEMORY_CAPACITY
    BY AddressIsWord, Capacity DEF Word64, OutOfMemory
<1>2. i.op # "load_literal" => x \in Word64
    BY TransferFields, GetRegister DEF Sizes
<1> HIDE DEF address
<1>3. ASSUME i.op = "sdt_preind"
      PROVE  Kept(cpu, TransferredCpu(cpu, mem, i), sf)
  <2> DEFINE c == WriteBack(cpu, i, x)
             d == Loaded(c, mem, i, address)
  <2>1. Kept(cpu, c, sf)
    BY <1>2, <1>3, WriteBackKeeps
  <2>2. Kept(c, d, sf)
    BY <1>1, <2>1, LoadedKeeps DEF Kept
  <2>3. TransferredCpu(cpu, mem, i) = d
    BY <1>3 DEF TransferredCpu, address
  <2> HIDE DEF c, d
  <2>4. QED
    BY <2>1, <2>2, <2>3 DEF Kept
<1>4. ASSUME i.op = "sdt_postind"
      PROVE  Kept(cpu, TransferredCpu(cpu, mem, i), sf)
  <2> DEFINE c == Loaded(cpu, mem, i, address)
             d == WriteBack(c, i, x)
  <2>1. Kept(cpu, c, sf)
    BY <1>1, LoadedKeeps
  <2>2. Kept(c, d, sf)
    BY <1>2, <1>4, <2>1, WriteBackKeeps DEF Kept
  <2>3. TransferredCpu(cpu, mem, i) = d
    BY <1>4 DEF TransferredCpu, address
  <2> HIDE DEF c, d
  <2>4. QED
    BY <2>1, <2>2, <2>3 DEF Kept
<1>5. ASSUME i.op \notin {"sdt_preind", "sdt_postind"}
      PROVE  Kept(cpu, TransferredCpu(cpu, mem, i), sf)
  <2>1. TransferredCpu(cpu, mem, i) = Loaded(cpu, mem, i, address)
    BY <1>5 DEF TransferredCpu, address
  <2>2. QED
    BY <1>1, <2>1, LoadedKeeps
<1>6. Kept(cpu, TransferredCpu(cpu, mem, i), sf)
    BY <1>3, <1>4, <1>5
<1>7. TransferredMemory(cpu, mem, i) \in Memory
  <2> DEFINE v == get_register_value(cpu, i.rt, i.sf)
  <2>1. v \in Int /\ sf \in Sizes
    BY TransferFields, GetRegister DEF Word64
  <2>2. TransferredMemory(cpu, mem, i)
            = IF IsStore(i) THEN write_word(mem, address, v, sf) ELSE mem
    BY DEF TransferredMemory, address
  <2> HIDE DEF v, sf
  <2>3. QED
    BY <1>1, <2>1, <2>2, WriteIsMemory
<1>8. QED
    BY <1>6, <1>7

-----------------------------------------------------------------------------
\* Every width is a multiple of 4, and reduction to it keeps a multiple of 4.
LEMMA MultipleOfFour ==
    ASSUME NEW a \in Int, a % 4 = 0
    PROVE  (a % XMod) % 4 = 0
<1>1. PICK h \in Nat \ {0} : ByteMod = 2 * h
  <2>1. ByteMod \in Nat \ {0} /\ ByteMod % 2 = 0
    BY ByteAssumption
  <2>2. ByteMod = 2 * (ByteMod \div 2) + (ByteMod % 2) /\ ByteMod \div 2 \in Int
    BY <2>1, SMT
  <2>3. ByteMod = 2 * (ByteMod \div 2) /\ ByteMod \div 2 \in Nat \ {0}
    BY <2>1, <2>2
  <2>4. QED
    BY <2>3
<1>2. WMod \in Nat \ {0} /\ ByteMod \in Nat \ {0}
    BY Widths, ByteAssumption
<1>3. ByteMod * ByteMod \in Nat \ {0} /\ h * h \in Nat \ {0}
    BY <1>1, <1>2, Z3
<1> DEFINE b == ByteMod * ByteMod
           g == h * h
<1>4. b = 4 * g
    BY <1>1, Z3
<1>5. WMod = b * b
    BY <1>2, Z3 DEF WMod
<1> HIDE DEF b, g
<1>6. /\ g * b \in Nat \ {0} /\ b * b = 4 * (g * b)
      /\ b \in Nat /\ g \in Nat
    BY <1>3, <1>4, Z3 DEF b, g
<1> DEFINE c == g * b
<1> HIDE DEF c
<1>7. c * WMod \in Nat \ {0} /\ XMod = 4 * (c * WMod)
    BY <1>2, <1>5, <1>6, Z3 DEF XMod, c
<1> DEFINE d == c * WMod
<1> HIDE DEF d
<1>8. d \in Nat \ {0} /\ XMod = 4 * d
    BY <1>7 DEF d
<1>9. (a % (4 * d)) % 4 = a % 4
  <2>1. \A m, k \in Nat \ {0} : \A n \in Int : (n % (m * k)) % m = n % m
    BY ModOfMultiple
  <2>2. 4 \in Nat \ {0} /\ d \in Nat \ {0}
    BY <1>8
  <2>3. QED
    BY <2>1, <2>2, Zenon
<1>10. QED
    BY <1>8, <1>9

\* A branch keeps the registers and the flags; without br it moves the PC by
\* a multiple of 4.
LEMMA BranchKeeps ==
    ASSUME NEW cpu \in State, NEW i \in BranchInstr
    PROVE  LET c == branch_instruction(cpu, i)
           IN  /\ c \in State /\ c.R = cpu.R
               /\ i.op # "br" /\ cpu.PC % 4 = 0 => c.PC % 4 = 0
<1>1. cpu.PC \in Int
    BY DEF State, Word64
<1>2. ASSUME NEW offset \in Int, offset % 4 = 0
      PROVE  LET c == [cpu EXCEPT !.PC = (@ + offset) % XMod]
             IN  /\ c \in State /\ c.R = cpu.R
                 /\ cpu.PC % 4 = 0 => c.PC % 4 = 0
  <2> DEFINE v == cpu.PC + offset
  <2>1. v \in Int /\ (cpu.PC % 4 = 0 => v % 4 = 0)
    BY <1>1, <1>2
  <2> HIDE DEF v
  <2>2. v % XMod \in Word64
    BY <2>1, ReducedIsWord
  <2>3. cpu.PC % 4 = 0 => (v % XMod) % 4 = 0
    BY <2>1, MultipleOfFour
  <2>4. [cpu EXCEPT !.PC = v % XMod] \in State
    BY <2>2 DEF State
  <2>5. /\ [cpu EXCEPT !.PC = v % XMod].R = cpu.R
        /\ [cpu EXCEPT !.PC = v % XMod].PC = v % XMod
    BY DEF State
  <2>6. QED
    BY <2>3, <2>4, <2>5 DEF v
<1>3. CASE i \in UncondBranch
  <2>1. i.op = "b" /\ i.simm26 \in Int
    BY <1>3 DEF UncondBranch
  <2>2. i.simm26 * 4 \in Int /\ (i.simm26 * 4) % 4 = 0
    BY <2>1
  <2>3. QED
    BY <1>2, <2>1, <2>2 DEF branch_instruction
<1>4. CASE i \in RegisterBranch
  <2>1. i.op = "br" /\ i.rn \in RegNums
    BY <1>4 DEF RegisterBranch
  <2>2. BranchTarget(cpu, i.rn) \in Word64
    BY <2>1 DEF BranchTarget, RegNums, State
  <2>3. QED
    BY <2>1, <2>2 DEF branch_instruction, State
<1>5. CASE i \in CondBranch
  <2>1. i.op = "b_cond" /\ i.simm19 \in Int
    BY <1>5 DEF CondBranch
  <2> DEFINE offset == IF Jumps(cpu.PSTATE, i.cond) THEN i.simm19 * 4 ELSE 4
  <2>2. offset \in Int /\ offset % 4 = 0
    <3>1. i.simm19 * 4 \in Int /\ (i.simm19 * 4) % 4 = 0
      BY <2>1
    <3>2. QED
      BY <3>1
  <2>3. branch_instruction(cpu, i) = [cpu EXCEPT !.PC = (@ + offset) % XMod]
    BY <2>1 DEF branch_instruction, conditional_branch
  <2> HIDE DEF offset
  <2>4. QED
    BY <1>2, <2>1, <2>2, <2>3
<1>6. QED
    BY <1>3, <1>4, <1>5 DEF BranchInstr

\* The end of a cycle that does not branch.
LEMMA AdvanceKeeps ==
    ASSUME NEW cpu \in State
    PROVE  /\ Advance(cpu) \in State
           /\ Advance(cpu).R = cpu.R
           /\ cpu.PC % 4 = 0 => Advance(cpu).PC % 4 = 0
<1> DEFINE v == cpu.PC + 4
<1>1. v \in Int /\ (cpu.PC % 4 = 0 => v % 4 = 0)
    BY DEF State, Word64
<1>2. Advance(cpu) = [cpu EXCEPT !.PC = v % XMod]
    BY DEF Advance, WORD_SIZE_BYTES
<1> HIDE DEF v
<1>3. v % XMod \in Word64 /\ (cpu.PC % 4 = 0 => (v % XMod) % 4 = 0)
    BY <1>1, ReducedIsWord, MultipleOfFour
<1>4. QED
    BY <1>2, <1>3 DEF State

-----------------------------------------------------------------------------
NarrowProgram ==
    \A w \in DOMAIN Decode :
        "sf" \in DOMAIN Decode[w] => Decode[w].sf = SF32
NoBr == \A w \in DOMAIN Decode : Decode[w].op # "br"

\* The inductive invariant: the type, and what the registers and the PC of
\* the two kinds of programs are.
ControlInv ==
    /\ TypeOK
    /\ NarrowProgram => Narrow(cpu_state)
    /\ NoBr => cpu_state.PC % 4 = 0

\* The instruction of a cycle is one of the decoder.
LEMMA InsnFacts ==
    ASSUME TypeOK, ~OutOfMemory(cpu_state.PC)
    PROVE  /\ insn \in Instruction
           /\ NarrowProgram /\ "sf" \in DOMAIN insn => insn.sf = SF32
           /\ NoBr => insn.op # "br"
<1> DEFINE w == fetch_word(main_memory, cpu_state.PC, SF32)
<1>1. main_memory \in Memory /\ cpu_state.PC \in Nat
      /\ cpu_state.PC < MEMORY_CAPACITY
    BY Capacity DEF TypeOK, State, Word64, OutOfMemory
<1>2. w \in 0 .. WMod - 1
  <2>1. SF32 \in Sizes /\ Width(SF32) = WMod
    BY DEF Sizes, Width
  <2>2. QED
    BY <1>1, <2>1, FetchIsWord
<1>3. insn = Decode[w] /\ DOMAIN Decode = 0 .. WMod - 1
    BY DecodeAssumption DEF insn
<1> HIDE DEF w
<1>4. QED
    BY <1>2, <1>3, DecodeAssumption DEF NarrowProgram, NoBr

\* Which instructions an execute function gets.
LEMMA InsnKinds ==
    ASSUME NEW i \in Instruction
    PROVE  /\ i.op \in DPImmOps => i \in DPImm
           /\ i.op \in DPRegOps => i \in DPReg
           /\ i.op \in TransferOps => i \in Transfer
           /\ i.op \in BranchOps => i \in BranchInstr
<1>1. /\ i \in Control => i.op \notin DPImmOps \cup DPRegOps \cup TransferOps \cup BranchOps
      /\ i \in DPImm => i.op \in DPImmOps
      /\ i \in DPReg => i.op \in DPRegOps
      /\ i \in Transfer => i.op \in TransferOps
      /\ i \in BranchInstr => i.op \in BranchOps
  <2>1. i \in DPImm => i.op \in DPImmOps
    BY DEF DPImm, ArithImm, WideMove, DPImmOps
  <2>2. i \in DPReg => i.op \in DPRegOps
    BY DEF DPReg, ArithReg, LogicReg, MultiplyReg, DPRegOps
  <2>3. i \in Transfer => i.op \in TransferOps
    BY TransferFields
  <2>4. i \in BranchInstr => i.op \in BranchOps
    BY DEF BranchInstr, UncondBranch, RegisterBranch, CondBranch, BranchOps
  <2>5. i \in Control => i.op \notin DPImmOps \cup DPRegOps \cup TransferOps \cup BranchOps
    BY DEF Control, DPImmOps, DPRegOps, TransferOps, SdtOps, BranchOps
  <2>6. QED
    BY <2>1, <2>2, <2>3, <2>4, <2>5
<1>2. /\ DPImmOps \cap DPRegOps = {} /\ DPImmOps \cap TransferOps = {}
      /\ DPImmOps \cap BranchOps = {} /\ DPRegOps \cap TransferOps = {}
      /\ DPRegOps \cap BranchOps = {} /\ TransferOps \cap BranchOps = {}
    BY DEF DPImmOps, DPRegOps, TransferOps, SdtOps, BranchOps
<1>3. QED
    BY <1>1, <1>2, Zenon DEF Instruction

LEMMA SizedInsn ==
    ASSUME NEW i \in DPImm \cup DPReg \cup Transfer
    PROVE  "sf" \in DOMAIN i
<1>1. i \in DPImm => "sf" \in DOMAIN i
    BY DEF DPImm, ArithImm, WideMove
<1>2. i \in DPReg => "sf" \in DOMAIN i
    BY DEF DPReg, ArithReg, LogicReg, MultiplyReg
<1>3. i \in Transfer => "sf" \in DOMAIN i
    BY DEF Transfer, SdtUimm, SdtRegOffset, SdtIndexed, LoadLiteral
<1>4. QED
    BY <1>1, <1>2, <1>3

\* A cycle whose execute function keeps what Kept says keeps the invariant.
LEMMA CycleKeeps ==
    ASSUME ControlInv, ~OutOfMemory(cpu_state.PC), "sf" \in DOMAIN insn,
           NEW c, Kept(cpu_state, c, insn.sf), cpu_state' = Advance(c)
    PROVE  /\ cpu_state' \in State
           /\ (NarrowProgram => Narrow(cpu_state))'
           /\ (NoBr => cpu_state.PC % 4 = 0)'
<1>1. c \in State /\ c.PC = cpu_state.PC
    BY DEF Kept
<1>2. NarrowProgram => insn.sf = SF32
    BY InsnFacts DEF ControlInv
<1>3. NarrowProgram => Narrow(c)
    BY <1>2 DEF Kept, ControlInv
<1>4. /\ Advance(c) \in State /\ Advance(c).R = c.R
      /\ c.PC % 4 = 0 => Advance(c).PC % 4 = 0
    BY <1>1, AdvanceKeeps
<1>5. NarrowProgram => Narrow(Advance(c))
    BY <1>3, <1>4 DEF Narrow
<1>6. NoBr => Advance(c).PC % 4 = 0
    BY <1>1, <1>4 DEF ControlInv
<1>7. NarrowProgram' = NarrowProgram /\ NoBr' = NoBr
    BY DEF NarrowProgram, NoBr
<1>8. Narrow(cpu_state)' = Narrow(Advance(c))
    BY DEF Narrow
<1>9. QED
    BY <1>4, <1>5, <1>6, <1>7, <1>8

LEMMA InitialControl == Init => ControlInv
<1> SUFFICES ASSUME Init PROVE ControlInv
    OBVIOUS
<1>1. WMod \in Nat \ {0} /\ XMod \in Nat \ {0} /\ ByteMod \in Nat \ {0}
    BY Widths, ByteAssumption
<1>2. 0 \in Word64 /\ 0 \in Byte
    BY <1>1 DEF Word64, Byte
<1>3. setup \in State /\ Narrow(setup) /\ setup.PC = 0
    BY <1>1, <1>2 DEF setup, State, PState, Narrow
<1>4. main_memory \in Memory
  <2>1. PICK tail \in Tails :
          main_memory = [a \in MemAddrs |->
                            IF a < MEMORY_CAPACITY THEN 0 ELSE tail[a]]
    BY DEF Init
  <2>2. \A a \in MemAddrs :
          (IF a < MEMORY_CAPACITY THEN 0 ELSE tail[a]) \in Byte
    BY <1>2, Capacity, TailsAssumption DEF MemAddrs
  <2>3. QED
    BY <2>1, <2>2 DEF Memory
<1>5. QED
    BY <1>3, <1>4 DEF Init, ControlInv, TypeOK, Statuses, Ended

LEMMA LoadKeeps ==
    ASSUME TypeOK, load_bin_to_memory
    PROVE  main_memory' \in Memory
<1>1. PICK image \in Images :
          main_memory' = [a \in MemAddrs |->
                             IF a < MEMORY_CAPACITY /\ a < Len(image)
                             THEN image[a + 1]
                             ELSE main_memory[a]]
    BY DEF load_bin_to_memory
<1>2. image \in Seq(Byte) /\ main_memory \in Memory
    BY ImagesAssumption DEF TypeOK
<1>3. ASSUME NEW a \in MemAddrs
      PROVE  (IF a < MEMORY_CAPACITY /\ a < Len(image)
              THEN image[a + 1] ELSE main_memory[a]) \in Byte
  <2>1. CASE a < MEMORY_CAPACITY /\ a < Len(image)
    <3>1. a + 1 \in 1 .. Len(image)
      BY <1>2, <2>1, Capacity DEF MemAddrs
    <3>2. image[a + 1] \in Byte
      BY <1>2, <3>1
    <3>3. QED
      BY <2>1, <3>2
  <2>2. CASE ~(a < MEMORY_CAPACITY /\ a < Len(image))
    BY <1>2, <2>2 DEF Memory
  <2>3. QED
    BY <2>1, <2>2
<1>4. QED
    BY <1>1, <1>3 DEF Memory

\* What output_result prints is a dump.
LEMMA DumpIsTyped ==
    ASSUME TypeOK, output_result
    PROVE  output' \in Seq(Dump)
<1> DEFINE D == [registers |-> cpu_state,
                 memory |-> {<<a, fetch_word(main_memory, a, SF32)>> :
                     a \in {b \in WordAddrs :
                               fetch_word(main_memory, b, SF32) # 0}}]
<1>1. ASSUME NEW a \in WordAddrs
      PROVE  fetch_word(main_memory, a, SF32) \in 0 .. WMod - 1
  <2>1. /\ main_memory \in Memory /\ a \in Nat /\ a < MEMORY_CAPACITY
        /\ SF32 \in Sizes /\ Width(SF32) = WMod
    BY Capacity DEF TypeOK, WordAddrs, Sizes, Width
  <2>2. QED
    BY <2>1, FetchIsWord
<1>2. D.memory \in SUBSET Line
    BY <1>1 DEF Line
<1>3. D \in Dump
    BY <1>2 DEF TypeOK, Dump
<1>4. output' = Append(output, D)
    BY DEF output_result
<1> HIDE DEF D
<1>5. QED
    BY <1>3, <1>4 DEF TypeOK

LEMMA ControlInductive == ControlInv /\ [Next]_vars => ControlInv'
<1> SUFFICES ASSUME ControlInv, [Next]_vars PROVE ControlInv'
    OBVIOUS
<1> USE DEF ControlInv
<1> DEFINE cpu == cpu_state
<1>1. NarrowProgram' = NarrowProgram /\ NoBr' = NoBr
    BY DEF NarrowProgram, NoBr
<1>2. ASSUME UNCHANGED cpu_state,
             main_memory' \in Memory, status' \in Statuses,
             output' \in Seq(Dump)
      PROVE  ControlInv'
  <2>1. Narrow(cpu_state)' = Narrow(cpu_state)
    BY <1>2 DEF Narrow
  <2>2. QED
    BY <1>1, <1>2, <2>1 DEF TypeOK
<1>3. ASSUME Exit PROVE ControlInv'
    BY <1>2, <1>3 DEF Exit, TypeOK, Statuses, Ended
<1>4. ASSUME cpu_state' \in State,
             (NarrowProgram => Narrow(cpu_state))',
             (NoBr => cpu_state.PC % 4 = 0)',
             main_memory' \in Memory, UNCHANGED <<status, output>>
      PROVE  ControlInv'
    BY <1>4 DEF TypeOK
<1>5. CASE load_bin_to_memory
  <2>1. main_memory' \in Memory
    BY <1>5, LoadKeeps
  <2>2. UNCHANGED <<cpu_state, output>> /\ status' = "running"
    BY <1>5 DEF load_bin_to_memory
  <2>3. QED
    BY <1>2, <2>1, <2>2 DEF TypeOK, Statuses
<1>6. CASE LoadFails
    BY <1>3, <1>6 DEF LoadFails
<1>7. CASE FetchFault
    BY <1>3, <1>7 DEF FetchFault
<1>8. CASE Nop
  <2>1. cpu_state' = Advance(cpu_state) /\ UNCHANGED <<main_memory, status, output>>
    BY <1>8 DEF Nop
  <2>2. /\ Advance(cpu) \in State /\ Advance(cpu).R = cpu.R
        /\ cpu.PC % 4 = 0 => Advance(cpu).PC % 4 = 0
    BY AdvanceKeeps DEF TypeOK
  <2>3. Narrow(cpu_state)' = Narrow(cpu_state)
    BY <2>1, <2>2 DEF Narrow
  <2>4. QED
    BY <1>1, <1>4, <2>1, <2>2, <2>3 DEF TypeOK
<1>9. CASE Halt
    BY <1>2, <1>9 DEF Halt, TypeOK, Statuses
<1>10. CASE DPImmCycle
  <2> DEFINE c == execute_dpimm_instruction(cpu_state, insn)
  <2>1. /\ ~OutOfMemory(cpu.PC) /\ insn.op \in DPImmOps
        /\ cpu_state' = Advance(c) /\ UNCHANGED <<main_memory, status, output>>
    BY <1>10 DEF DPImmCycle, Executing
  <2>2. insn \in DPImm /\ "sf" \in DOMAIN insn
    BY <2>1, InsnFacts, InsnKinds, SizedInsn
  <2>3. Kept(cpu_state, c, insn.sf)
    BY <2>2, DPImmKeeps DEF DPImm, TypeOK
  <2> HIDE DEF c
  <2>4. QED
    BY <1>4, <2>1, <2>2, <2>3, CycleKeeps DEF TypeOK
<1>11. CASE DPRegCycle
  <2> DEFINE c == execute_dpreg_instruction(cpu_state, insn)
  <2>1. /\ ~OutOfMemory(cpu.PC) /\ insn.op \in DPRegOps
        /\ cpu_state' = Advance(c) /\ UNCHANGED <<main_memory, status, output>>
    BY <1>11 DEF DPRegCycle, Executing
  <2>2. insn \in DPReg /\ "sf" \in DOMAIN insn
    BY <2>1, InsnFacts, InsnKinds, SizedInsn
  <2>3. Kept(cpu_state, c, insn.sf)
    BY <2>2, DPRegKeeps DEF DPReg, TypeOK
  <2> HIDE DEF c
  <2>4. QED
    BY <1>4, <2>1, <2>2, <2>3, CycleKeeps DEF TypeOK
<1>12. CASE TransferCycle
  <2> DEFINE c == TransferredCpu(cpu_state, main_memory, insn)
             m == TransferredMemory(cpu_state, main_memory, insn)
  <2>1. /\ ~OutOfMemory(cpu.PC) /\ insn.op \in TransferOps
        /\ ~OutOfMemory(TransferAddress(cpu_state, insn))
        /\ cpu_state' = Advance(c) /\ main_memory' = m
        /\ UNCHANGED <<status, output>>
    BY <1>12 DEF TransferCycle, Executing
  <2>2. insn \in Transfer /\ "sf" \in DOMAIN insn
    BY <2>1, InsnFacts, InsnKinds, SizedInsn
  <2>3. Kept(cpu_state, c, insn.sf) /\ m \in Memory
    BY <2>1, <2>2, TransferKeeps DEF TypeOK
  <2> HIDE DEF c, m
  <2>4. QED
    BY <1>4, <2>1, <2>2, <2>3, CycleKeeps
<1>13. CASE TransferFault
    BY <1>3, <1>13 DEF TransferFault
<1>14. CASE BranchCycle
  <2> DEFINE c == branch_instruction(cpu_state, insn)
  <2>1. /\ ~OutOfMemory(cpu.PC) /\ insn.op \in BranchOps
        /\ cpu_state' = c /\ UNCHANGED <<main_memory, status, output>>
    BY <1>14 DEF BranchCycle, Executing
  <2>2. insn \in BranchInstr /\ (NoBr => insn.op # "br")
    BY <2>1, InsnFacts, InsnKinds
  <2>3. /\ c \in State /\ c.R = cpu.R
        /\ insn.op # "br" /\ cpu.PC % 4 = 0 => c.PC % 4 = 0
    BY <2>2, BranchKeeps DEF TypeOK
  <2> HIDE DEF c
  <2>4. Narrow(cpu_state)' = Narrow(cpu_state)
    BY <2>1, <2>3 DEF Narrow
  <2>5. QED
    BY <1>1, <1>4, <2>1, <2>2, <2>3, <2>4 DEF TypeOK
<1>15. CASE IllegalInstruction
    BY <1>3, <1>15 DEF IllegalInstruction
<1>16. CASE Unallocated
    BY <1>2, <1>16 DEF Unallocated, vars, TypeOK
<1>17. CASE Overrun
    BY <1>2, <1>17 DEF Overrun, TypeOK, Statuses, Ended
<1>18. CASE output_result
  <2>1. output' \in Seq(Dump)
    BY <1>18, DumpIsTyped
  <2>2. status' = "done" /\ UNCHANGED <<cpu_state, main_memory>>
    BY <1>18 DEF output_result
  <2>3. QED
    BY <1>2, <2>1, <2>2 DEF TypeOK, Statuses, Ended
<1>19. CASE Terminated \/ UNCHANGED vars
    BY <1>2, <1>19 DEF Terminated, vars, TypeOK
<1>20. QED
    BY <1>5, <1>6, <1>7, <1>8, <1>9, <1>10, <1>11, <1>12, <1>13, <1>14,
       <1>15, <1>16, <1>17, <1>18, <1>19 DEF Next, emulate_cycle

LEMMA ControlInvariant == Spec => []ControlInv
    BY InitialControl, ControlInductive, PTL DEF Spec

-----------------------------------------------------------------------------
\* Registers are 64-bit words, memory is bytes, and what is printed is a
\* sequence of dumps, whatever the binary (emulate.c:147).
THEOREM TypeCorrect == Spec => []TypeOK
<1>1. ControlInv => TypeOK
    BY DEF ControlInv
<1>2. QED
    BY <1>1, ControlInvariant, PTL

\* A program of 32-bit instructions never has a register above 32 bits.
THEOREM RegistersStayNarrow == Spec => []NarrowRegisters
<1>1. ControlInv => NarrowRegisters
    BY DEF ControlInv, NarrowRegisters, NarrowProgram, Narrow
<1>2. QED
    BY <1>1, ControlInvariant, PTL

\* A program without br fetches whole words of memory only.
THEOREM FetchesStayInMemory == Spec => []FetchesInMemory
<1>1. ControlInv => FetchesInMemory
  <2> SUFFICES ASSUME ControlInv, NoBr
               PROVE  /\ cpu_state.PC % WORD_SIZE_BYTES = 0
                      /\ ~OutOfMemory(cpu_state.PC) =>
                            AccessBytes(cpu_state.PC, SF32)
                                \subseteq 0 .. MEMORY_CAPACITY - 1
      BY DEF FetchesInMemory, NoBr
  <2> DEFINE pc == cpu_state.PC
  <2>1. pc \in Nat /\ pc % 4 = 0
      BY Widths DEF ControlInv, TypeOK, State, Word64
  <2> HIDE DEF pc
  <2>2. AccessBytes(pc, SF32) = pc .. pc + 3
      BY <2>1 DEF AccessBytes, NumBytes
  <2>3. pc < MEMORY_CAPACITY => pc + 3 <= MEMORY_CAPACITY - 1
      BY <2>1, Capacity
  <2>4. ~OutOfMemory(pc) => AccessBytes(pc, SF32) \subseteq 0 .. MEMORY_CAPACITY - 1
      BY <2>1, <2>2, <2>3, Capacity DEF OutOfMemory
  <2>5. QED
      BY <2>1, <2>4 DEF pc, WORD_SIZE_BYTES
<1>2. QED
    BY <1>1, ControlInvariant, PTL

-----------------------------------------------------------------------------
\* What a transfer leaves of the memory.
LEMMA TransferStores ==
    ASSUME NEW cpu \in State, NEW mem \in Memory, NEW i \in Transfer
    PROVE  LET address == TransferAddress(cpu, i)
               new == TransferredMemory(cpu, mem, i)
           IN  IF IsStore(i)
               THEN /\ AccessBytes(address, i.sf) \subseteq 0 .. MEMORY_CAPACITY - 1
                          => fetch_word(new, address, i.sf)
                                = get_register_value(cpu, i.rt, i.sf)
                    /\ \A a \in MemAddrs \ AccessBytes(address, i.sf) :
                          new[a] = mem[a]
               ELSE new = mem
<1> DEFINE address == TransferAddress(cpu, i)
           v == get_register_value(cpu, i.rt, i.sf)
           sf == i.sf
<1>1. v \in 0 .. Width(sf) - 1 /\ sf \in Sizes
    BY TransferFields, GetRegister
<1>2. address \in Nat
    BY AddressIsWord, Widths DEF Word64
<1>3. TransferredMemory(cpu, mem, i)
          = IF IsStore(i) THEN write_word(mem, address, v, sf) ELSE mem
    BY DEF TransferredMemory
<1> HIDE DEF address, v, sf
<1>4. AccessBytes(address, sf) \subseteq 0 .. MEMORY_CAPACITY - 1
          => fetch_word(write_word(mem, address, v, sf), address, sf) = v
    BY <1>1, <1>2, FetchAfterWrite
<1>5. \A a \in MemAddrs \ AccessBytes(address, sf) :
          write_word(mem, address, v, sf)[a] = mem[a]
    BY DEF write_word
<1>6. QED
    BY <1>3, <1>4, <1>5 DEF address, v, sf

\* Instructions of other groups are no transfers.
LEMMA NoTransfer ==
    ASSUME NEW ops, Executing(ops), ops \cap TransferOps = {}
    PROVE  ~Executing(TransferOps)
BY DEF Executing

\* Every store is exact and nothing else writes memory (emulate.c:84), for
\* every byte width, capacity and program, self-modifying ones included.
THEOREM StoresAreExactHolds == Spec => StoresAreExact
<1> DEFINE
      Exact ==
          IF Executing(TransferOps) /\ IsStore(insn)
          THEN LET address == TransferAddress(cpu_state, insn)
                   inside == AccessBytes(address, insn.sf)
                                \subseteq 0 .. MEMORY_CAPACITY - 1
               IN  /\ inside => fetch_word(main_memory', address, insn.sf)
                         = get_register_value(cpu_state, insn.rt, insn.sf)
                   /\ \A a \in MemAddrs \ AccessBytes(address, insn.sf) :
                         main_memory'[a] = main_memory[a]
          ELSE main_memory' = main_memory
      A == (status = "running" /\ status' = "running") => Exact
<1>1. ControlInv /\ [Next]_vars => [A]_vars
  <2> SUFFICES ASSUME ControlInv, Next, status = "running", status' = "running"
               PROVE  Exact
      OBVIOUS
  <2>1. emulate_cycle
      BY DEF Next, load_bin_to_memory, LoadFails, output_result, Terminated, Ended
  <2>2. ASSUME NEW ops, Executing(ops), ops \cap TransferOps = {},
               main_memory' = main_memory
        PROVE  Exact
      BY <2>2, NoTransfer
  <2>3. CASE Nop
      BY <2>2, <2>3 DEF Nop, TransferOps, SdtOps
  <2>4. CASE DPImmCycle
      BY <2>2, <2>4 DEF DPImmCycle, DPImmOps, TransferOps, SdtOps
  <2>5. CASE DPRegCycle
      BY <2>2, <2>5 DEF DPRegCycle, DPRegOps, TransferOps, SdtOps
  <2>6. CASE BranchCycle
      BY <2>2, <2>6 DEF BranchCycle, BranchOps, TransferOps, SdtOps
  <2>7. CASE Unallocated
      BY <2>2, <2>7 DEF Unallocated, vars, TransferOps, SdtOps
  <2>8. CASE TransferCycle
    <3>1. /\ ~OutOfMemory(cpu_state.PC) /\ insn.op \in TransferOps
          /\ main_memory' = TransferredMemory(cpu_state, main_memory, insn)
          /\ Executing(TransferOps)
      BY <2>8 DEF TransferCycle, Executing
    <3>2. insn \in Transfer /\ cpu_state \in State /\ main_memory \in Memory
      BY <3>1, InsnFacts, InsnKinds DEF ControlInv, TypeOK
    <3>3. QED
      BY <3>1, <3>2, TransferStores
  <2>9. CASE FetchFault \/ Halt \/ TransferFault \/ IllegalInstruction \/ Overrun
      BY <2>9 DEF FetchFault, Halt, TransferFault, IllegalInstruction, Overrun, Exit
  <2>10. QED
      BY <2>1, <2>3, <2>4, <2>5, <2>6, <2>7, <2>8, <2>9 DEF emulate_cycle
<1>2. QED
    BY <1>1, ControlInvariant, PTL DEF Spec, StoresAreExact

-----------------------------------------------------------------------------
\* A dump is printed once, at a HALT, of the state the program ends in.
DumpInv ==
    /\ status # "done" => output = <<>>
    /\ status \in {"halted", "done"} => insn.op = "halt"
    /\ status = "done" =>
          output = << [registers |-> cpu_state,
                       memory |-> {<<a, fetch_word(main_memory, a, SF32)>> :
                           a \in {b \in WordAddrs :
                               fetch_word(main_memory, b, SF32) # 0}}] >>

LEMMA DumpInductive == DumpInv /\ [Next]_vars => DumpInv'
<1> SUFFICES ASSUME DumpInv, [Next]_vars PROVE DumpInv'
    OBVIOUS
<1>1. ASSUME status # "done", output' = output,
             status' \notin {"halted", "done"}
      PROVE  DumpInv'
    BY <1>1 DEF DumpInv
<1>2. CASE Halt
  <2>1. /\ status = "running" /\ insn.op = "halt" /\ status' = "halted"
        /\ UNCHANGED <<cpu_state, main_memory, output>>
    BY <1>2 DEF Halt, Executing
  <2>2. insn' = insn
    BY <2>1 DEF insn
  <2>3. QED
    BY <2>1, <2>2 DEF DumpInv
<1>3. CASE output_result
  <2> DEFINE D == [registers |-> cpu_state,
                   memory |-> {<<a, fetch_word(main_memory, a, SF32)>> :
                       a \in {b \in WordAddrs :
                           fetch_word(main_memory, b, SF32) # 0}}]
  <2>1. /\ status = "halted" /\ status' = "done"
        /\ UNCHANGED <<cpu_state, main_memory>>
        /\ output' = Append(output, D)
    BY <1>3 DEF output_result
  <2>2. insn' = insn /\ D' = D
    BY <2>1 DEF insn
  <2>3. output = <<>> /\ insn.op = "halt"
    BY <2>1 DEF DumpInv
  <2> HIDE DEF D
  <2>4. output' = <<D>>
    BY <2>1, <2>3
  <2>5. QED
    BY <2>1, <2>2, <2>3, <2>4 DEF DumpInv, D
<1>4. CASE UNCHANGED vars
  <2>1. insn' = insn
    BY <1>4 DEF vars, insn
  <2>2. QED
    BY <1>4, <2>1 DEF vars, DumpInv
<1>5. CASE Next /\ ~Halt /\ ~output_result /\ ~UNCHANGED vars
  <2>1. /\ status # "done" /\ output' = output
        /\ status' \notin {"halted", "done"}
    BY <1>5 DEF Next, emulate_cycle, load_bin_to_memory, LoadFails, Exit,
           FetchFault, Nop, DPImmCycle, DPRegCycle, TransferCycle,
           TransferFault, BranchCycle, IllegalInstruction, Unallocated,
           Overrun, Terminated, Executing
  <2>2. QED
    BY <1>1, <2>1
<1>6. QED
    BY <1>2, <1>3, <1>4, <1>5

\* What is printed (emulate.c:126) is the state at the HALT, once, and the
\* lines printed are the words that are not zero: they determine the memory.
THEOREM DumpIsFinalStateHolds == Spec => []DumpIsFinalState
<1>1. Init => DumpInv
    BY DEF Init, DumpInv
<1>2. DumpInv => DumpIsFinalState
  <2> SUFFICES ASSUME DumpInv, NEW n \in DOMAIN output
               PROVE  /\ n = 1
                      /\ output[n].registers = cpu_state
                      /\ insn.op = "halt"
                      /\ \A a \in WordAddrs :
                            LET words == {line[2] : line \in
                                    {l \in output[n].memory : l[1] = a}}
                                word == WordAt(main_memory, a)
                            IN  words = IF word = 0 THEN {} ELSE {word}
      BY DEF DumpIsFinalState
  <2> DEFINE W(a) == WordAt(main_memory, a)
             M == {<<a, W(a)>> : a \in {b \in WordAddrs : W(b) # 0}}
             D == [registers |-> cpu_state, memory |-> M]
  <2>1. status = "done"
      BY DEF DumpInv
  <2>2. output = <<D>> /\ insn.op = "halt"
      BY <2>1 DEF DumpInv, fetch_word
  <2>3. D.registers = cpu_state /\ D.memory = M
      OBVIOUS
  <2> HIDE DEF D
  <2>4. n = 1 /\ output[n] = D
      BY <2>2
  <2>5. ASSUME NEW a \in WordAddrs
        PROVE  {line[2] : line \in {l \in M : l[1] = a}}
                   = IF W(a) = 0 THEN {} ELSE {W(a)}
    <3> HIDE DEF W
    <3>1. ASSUME NEW l \in M, l[1] = a PROVE l[2] = W(a) /\ W(a) # 0
      <4>1. PICK b \in WordAddrs : W(b) # 0 /\ l = <<b, W(b)>>
        OBVIOUS
      <4>2. l[1] = b /\ l[2] = W(b)
        BY <4>1
      <4>3. QED
        BY <3>1, <4>1, <4>2
    <3>2. ASSUME W(a) # 0 PROVE \E l \in M : l[1] = a /\ l[2] = W(a)
      <4>1. <<a, W(a)>> \in M
        BY <3>2
      <4>2. QED
        BY <4>1
    <3> HIDE DEF M
    <3>3. QED
      BY <3>1, <3>2
  <2>6. QED
      BY <2>2, <2>3, <2>4, <2>5
<1>3. QED
    BY <1>1, <1>2, DumpInductive, PTL DEF Spec

-----------------------------------------------------------------------------
(* What keeps the emulator going.                                          *)

\* The steps a run still has at most, were it not for branches: one to load,
\* one per byte of memory not yet passed, one to stop and one to print.
StepsLeft ==
    CASE status = "loading" -> MEMORY_CAPACITY + 3
      [] status = "running" ->
            2 + IF OutOfMemory(cpu_state.PC) THEN 0
                ELSE MEMORY_CAPACITY - cpu_state.PC
      [] status = "halted"  -> 1
      [] status \in Ended   -> 0

\* It is a number, and how large by the place main is at.
StepsRange ==
    /\ StepsLeft \in Nat
    /\ status = "loading" => StepsLeft = MEMORY_CAPACITY + 3
    /\ status = "running" => StepsLeft \in 2 .. MEMORY_CAPACITY + 2
    /\ status = "halted" => StepsLeft = 1
    /\ status \in Ended => StepsLeft = 0

LEMMA StepsOfStatus == TypeOK => StepsRange
<1> SUFFICES ASSUME TypeOK PROVE StepsRange
    OBVIOUS
<1> USE DEF StepsRange
<1>1. cpu_state.PC \in Nat /\ MEMORY_CAPACITY \in Nat \ {0}
    BY Widths, Capacity DEF TypeOK, State, Word64
<1>2. CASE status = "loading"
    BY <1>1, <1>2 DEF StepsLeft, Ended
<1>3. CASE status = "running"
  <2>1. StepsLeft = 2 + IF OutOfMemory(cpu_state.PC) THEN 0
                        ELSE MEMORY_CAPACITY - cpu_state.PC
    BY <1>3 DEF StepsLeft, Ended
  <2>2. QED
    BY <1>1, <1>3, <2>1 DEF OutOfMemory, Ended
<1>4. CASE status = "halted"
    BY <1>4 DEF StepsLeft, Ended
<1>5. CASE status \in Ended
    BY <1>5 DEF StepsLeft, Ended
<1>6. QED
    BY <1>2, <1>3, <1>4, <1>5 DEF TypeOK, Statuses

LEMMA StepsOfNext == TypeOK' => StepsRange'
    BY StepsOfStatus, PTL

\* Within a run, it falls with every step forward of the PC.
LEMMA StepsForward ==
    ASSUME TypeOK, TypeOK', status = "running", status' = "running",
           ~OutOfMemory(cpu_state.PC), cpu_state'.PC > cpu_state.PC
    PROVE  StepsLeft' < StepsLeft
<1> DEFINE pc == cpu_state.PC
           new == cpu_state'.PC
           left == MEMORY_CAPACITY - pc
<1>1. pc \in Nat /\ new \in Nat /\ MEMORY_CAPACITY \in Nat \ {0}
    BY Widths, Capacity DEF TypeOK, State, Word64
<1>2. StepsLeft = 2 + left
    BY DEF StepsLeft, Ended
<1>3. StepsLeft' = 2 + IF new >= MEMORY_CAPACITY THEN 0
                       ELSE MEMORY_CAPACITY - new
    BY DEF StepsLeft, Ended, OutOfMemory
<1>4. pc < MEMORY_CAPACITY
    BY <1>1 DEF OutOfMemory
<1> HIDE DEF pc, new
<1>5. new > pc
    BY DEF pc, new
<1>6. QED
    BY <1>1, <1>2, <1>3, <1>4, <1>5

\* A cycle that ends with Advance does not wrap around: the capacity leaves
\* room above it.
LEMMA AdvanceForward ==
    ASSUME TypeOK, ~OutOfMemory(cpu_state.PC),
           NEW c \in State, c.PC = cpu_state.PC, cpu_state' = Advance(c)
    PROVE  cpu_state'.PC > cpu_state.PC
<1>1. /\ cpu_state.PC \in Nat /\ cpu_state.PC + 4 \in 0 .. XMod - 1
      /\ XMod \in Nat \ {0}
    BY Widths, Capacity DEF TypeOK, State, Word64, OutOfMemory
<1>2. (XMod * 0 + (cpu_state.PC + 4)) % XMod = cpu_state.PC + 4
    BY <1>1, DivisionUnique
<1>3. XMod * 0 + (cpu_state.PC + 4) = cpu_state.PC + 4
    BY <1>1
<1>4. cpu_state'.PC = (c.PC + 4) % XMod
    BY DEF Advance, State, WORD_SIZE_BYTES
<1>5. QED
    BY <1>1, <1>2, <1>3, <1>4

\* Only a branch, to its own address or backwards, keeps the emulator going
\* (emulate.c:150): every other step of a run, of any binary, brings it
\* nearer to its end, or is that of a word of no group, which changes nothing.
THEOREM OnlyBranchesGoBack ==
    Spec => /\ [](StepsLeft \in Nat)
            /\ [][\/ StepsLeft' < StepsLeft
                  \/ /\ Executing(BranchOps)
                     /\ cpu_state'.PC <= cpu_state.PC]_vars
<1> DEFINE Back == Executing(BranchOps) /\ cpu_state'.PC <= cpu_state.PC
           Nearer == StepsLeft' < StepsLeft
<1>1. ControlInv => StepsLeft \in Nat
    BY StepsOfStatus DEF ControlInv, StepsRange
<1>2. ControlInv /\ ControlInv' /\ [Next]_vars => [Nearer \/ Back]_vars
  <2> SUFFICES ASSUME ControlInv, ControlInv', Next
               PROVE  Nearer \/ Back \/ UNCHANGED vars
      OBVIOUS
  <2>0. TypeOK /\ TypeOK'
      BY DEF ControlInv
  <2>1. StepsRange /\ StepsRange' /\ MEMORY_CAPACITY \in Nat \ {0}
      BY <2>0, StepsOfStatus, StepsOfNext, Capacity
  <2> USE DEF StepsRange
  <2>2. ASSUME status \in {"loading", "running", "halted"}, status' \in Ended
        PROVE  Nearer
      BY <2>1, <2>2
  <2>3. ASSUME status = "running", status' = "running",
               ~OutOfMemory(cpu_state.PC),
               NEW c \in State, c.PC = cpu_state.PC, cpu_state' = Advance(c)
        PROVE  Nearer
      BY <2>0, <2>3, AdvanceForward, StepsForward
  <2>4. CASE load_bin_to_memory
      BY <2>1, <2>4 DEF load_bin_to_memory
  <2>5. CASE LoadFails
      BY <2>2, <2>5 DEF LoadFails, Exit, Ended
  <2>6. CASE FetchFault \/ TransferFault \/ IllegalInstruction
      BY <2>2, <2>6
      DEF FetchFault, TransferFault, IllegalInstruction, Executing, Exit, Ended
  <2>7. CASE Nop
      BY <2>0, <2>3, <2>7 DEF Nop, Executing, TypeOK
  <2>8. CASE Halt
      BY <2>1, <2>8 DEF Halt, Executing
  <2>9. CASE DPImmCycle
    <3> DEFINE c == execute_dpimm_instruction(cpu_state, insn)
    <3>1. /\ ~OutOfMemory(cpu_state.PC) /\ insn.op \in DPImmOps
          /\ cpu_state' = Advance(c)
          /\ status = "running" /\ status' = "running"
      BY <2>9 DEF DPImmCycle, Executing
    <3>2. insn \in DPImm
      BY <2>0, <3>1, InsnFacts, InsnKinds
    <3>3. Kept(cpu_state, c, insn.sf)
      BY <2>0, <3>2, DPImmKeeps DEF DPImm, TypeOK
    <3> HIDE DEF c
    <3>4. QED
      BY <2>3, <3>1, <3>3 DEF Kept
  <2>10. CASE DPRegCycle
    <3> DEFINE c == execute_dpreg_instruction(cpu_state, insn)
    <3>1. /\ ~OutOfMemory(cpu_state.PC) /\ insn.op \in DPRegOps
          /\ cpu_state' = Advance(c)
          /\ status = "running" /\ status' = "running"
      BY <2>10 DEF DPRegCycle, Executing
    <3>2. insn \in DPReg
      BY <2>0, <3>1, InsnFacts, InsnKinds
    <3>3. Kept(cpu_state, c, insn.sf)
      BY <2>0, <3>2, DPRegKeeps DEF DPReg, TypeOK
    <3> HIDE DEF c
    <3>4. QED
      BY <2>3, <3>1, <3>3 DEF Kept
  <2>11. CASE TransferCycle
    <3> DEFINE c == TransferredCpu(cpu_state, main_memory, insn)
    <3>1. /\ ~OutOfMemory(cpu_state.PC) /\ insn.op \in TransferOps
          /\ ~OutOfMemory(TransferAddress(cpu_state, insn))
          /\ cpu_state' = Advance(c)
          /\ status = "running" /\ status' = "running"
      BY <2>11 DEF TransferCycle, Executing
    <3>2. insn \in Transfer
      BY <2>0, <3>1, InsnFacts, InsnKinds
    <3>3. Kept(cpu_state, c, insn.sf)
      BY <2>0, <3>1, <3>2, TransferKeeps DEF TypeOK
    <3> HIDE DEF c
    <3>4. QED
      BY <2>3, <3>1, <3>3 DEF Kept
  <2>12. CASE BranchCycle
    <3>1. /\ status = "running" /\ status' = "running"
          /\ ~OutOfMemory(cpu_state.PC) /\ Executing(BranchOps)
      BY <2>12 DEF BranchCycle, Executing
    <3>2. CASE cpu_state'.PC > cpu_state.PC
      BY <2>0, <3>1, <3>2, StepsForward
    <3>3. CASE cpu_state'.PC <= cpu_state.PC
      BY <3>1, <3>3
    <3>4. cpu_state.PC \in Nat /\ cpu_state'.PC \in Nat
      BY <2>0, Widths DEF TypeOK, State, Word64
    <3>5. QED
      BY <3>2, <3>3, <3>4
  <2>13. CASE Unallocated \/ Terminated
      BY <2>13 DEF Unallocated, Terminated
  <2>14. CASE Overrun
      BY <2>2, <2>14 DEF Overrun, Ended
  <2>15. CASE output_result
      BY <2>2, <2>15 DEF output_result, Ended
  <2>16. QED
      BY <2>4, <2>5, <2>6, <2>7, <2>8, <2>9, <2>10, <2>11, <2>12, <2>13,
         <2>14, <2>15 DEF Next, emulate_cycle
<1>3. QED
    BY <1>1, <1>2, ControlInvariant, PTL DEF Spec
=============================================================================
