-------------------------- MODULE ToolchainTheorems --------------------------
(***************************************************************************)
(* For every set of source files, base address and memory capacity: what   *)
(* becomes of a program that is assembled, disassembled and assembled      *)
(* again.                                                                  *)
(*                                                                         *)
(* The argument has three parts.  A word is a set of bits, a field is a    *)
(* number, and Number and Bits are inverse to each other, so a field that  *)
(* is printed and read again is the field it was.  With that, each class   *)
(* of words the decoder of the emulator tells apart is followed through    *)
(* the disassembler and the assembler, and WordOutcome says of every word  *)
(* what is printed of it and what that line is assembled to;               *)
(* AssembledShaped says which words the assembler can have written.  The   *)
(* inductive invariant ChainInv then relates the four sequences of the     *)
(* chain: the lines of the source, the words, the lines of the             *)
(* disassembly, the words again.                                           *)
(*                                                                         *)
(* For what the emulator does with the words, the assembler is followed    *)
(* form by form: the word of a line is the line's fields put one after     *)
(* the other into an empty word, so the decoder selects what was put in,   *)
(* cut to its field, and AssembledAsWritten says when nothing was lost.    *)
(***************************************************************************)
EXTENDS Toolchain, FiniteSetTheorems, WellFoundedInduction, SequenceTheorems,
        TLAPS

(***************************************************************************)
(* Arithmetic and induction.                                               *)
(***************************************************************************)
\* Division with remainder.
LEMMA DivisionParts ==
    ASSUME NEW m \in Nat \ {0}, NEW a \in Int
    PROVE  /\ a = m * (a \div m) + (a % m)
           /\ a % m \in 0 .. m - 1
           /\ a \div m \in Int
    BY SMT

\* The quotient and the remainder are the only ones there are.
LEMMA DivisionUnique ==
    ASSUME NEW m \in Nat \ {0}, NEW q \in Int, NEW r \in 0 .. m - 1
    PROVE  (m * q + r) % m = r /\ (m * q + r) \div m = q
<1> DEFINE a == m * q + r
<1>1. a \in Int
    OBVIOUS
<1>2. /\ a = m * (a \div m) + (a % m)
      /\ a % m \in 0 .. m - 1
      /\ a \div m \in Int
    BY <1>1, SMT
<1>3. QED
    BY <1>2, Z3

\* A multiple of the modulus added makes no difference.
LEMMA ModShift ==
    ASSUME NEW m \in Nat \ {0}, NEW a \in Int, NEW q \in Int
    PROVE  (a + m * q) % m = a % m
<1>1. /\ a = m * (a \div m) + (a % m)
      /\ a % m \in 0 .. m - 1
      /\ a \div m \in Int
    BY SMT
<1>2. a + m * q = m * ((a \div m) + q) + (a % m)
    BY <1>1, Z3
<1>3. (a \div m) + q \in Int
    BY <1>1
<1>4. (m * ((a \div m) + q) + (a % m)) % m = a % m
    BY <1>1, <1>3, DivisionUnique
<1>5. QED
    BY <1>2, <1>4

\* A set of numbers that is not empty has a least element.
LEMMA LeastElement ==
    ASSUME NEW T, T \subseteq Nat, T # {}
    PROVE  \E x \in T : \A y \in T : x <= y
<1> DEFINE R == {ss \in Nat \X Nat : ss[1] < ss[2]}
<1>1. IsWellFoundedOn(R, Nat)
    BY NatLessThanWellFounded DEF OpToRel
<1>2. PICK x \in T : \A y \in T : <<y, x>> \notin R
    BY <1>1, WFMin
<1>3. ASSUME NEW y \in T PROVE x <= y
  <2>1. x \in Nat /\ y \in Nat
    OBVIOUS
  <2>2. <<y, x>> \notin R
    BY <1>2
  <2>3. ~ (y < x)
    BY <2>1, <2>2
  <2>4. QED
    BY <2>1, <2>3
<1>4. QED
    BY <1>3

\* Induction
LEMMA Induction ==
    ASSUME NEW T, 0 \in T, \A n \in Nat : n \in T => n + 1 \in T
    PROVE  Nat \subseteq T
<1> SUFFICES ASSUME Nat \ T # {} PROVE FALSE
    OBVIOUS
<1>1. PICK x \in Nat \ T : \A y \in Nat \ T : x <= y
    BY LeastElement
<1>2. x # 0 /\ x - 1 \in Nat
    BY <1>1
<1>3. x - 1 \in T
    BY <1>1, <1>2
<1>4. (x - 1) + 1 \in T
    BY <1>2, <1>3
<1>5. QED
    BY <1>1, <1>4

-----------------------------------------------------------------------------
(***************************************************************************)
(* The number of a set of bits: the sum MapThenSumSet computes, taken as   *)
(* what it is, a recursive function on the subsets.                        *)
(***************************************************************************)
\* The recursive function behind Number: take out one bit at a time.
Chosen(s) == CHOOSE x \in s : TRUE
SumStep(f, s) ==
    IF s = {} THEN 0 ELSE 2^Chosen(s) + f[s \ {Chosen(s)}]
IsSum(f, S) == f = [s \in SUBSET S |-> SumStep(f, s)]

\* Number as the value of the recursive function it is defined by.
LEMMA NumberIsSum ==
    ASSUME NEW S
    PROVE  Number(S) = (CHOOSE f : IsSum(f, S))[S]
BY DEF Number, MapThenSumSet, MapThenFoldSet, IsSum, SumStep, Chosen

\* The positions of the bits of a word.
Positions == 0 .. 31

\* The positions of a word, and what is left without one of them.
LEMMA PositionsFinite ==
    ASSUME NEW S \in SUBSET Positions
    PROVE  /\ IsFiniteSet(S) /\ Cardinality(S) \in Nat
           /\ \A x \in S : /\ S \ {x} \in SUBSET Positions
                           /\ Cardinality(S \ {x}) = Cardinality(S) - 1
<1>1. IsFiniteSet(Positions)
  <2>1. 0 \in Int /\ 31 \in Int
    OBVIOUS
  <2>2. IsFiniteSet(0 .. 31)
    BY <2>1, FS_Interval
  <2>3. QED
    BY <2>2 DEF Positions
<1>2. IsFiniteSet(S)
    BY <1>1, FS_Subset
<1>3. Cardinality(S) \in Nat
    BY <1>2, FS_CardinalityType
<1>4. ASSUME NEW x \in S
      PROVE  S \ {x} \in SUBSET Positions /\ Cardinality(S \ {x}) = Cardinality(S) - 1
    BY <1>2, FS_RemoveElement
<1>5. QED
    BY <1>2, <1>3, <1>4

\* The element the sum takes out next is one of the set.
LEMMA ChosenIn == \A s : s # {} => Chosen(s) \in s
BY DEF Chosen

\* The recursion has a solution
LEMMA SumExists ==
    ASSUME NEW S \in SUBSET Positions
    PROVE  \E f : IsSum(f, S)
<1> DEFINE UpTo(f, n) == 
             f = [s \in SUBSET S |-> f[s]] /\
             \A s \in SUBSET S : Cardinality(s) <= n => f[s] = SumStep(f, s)
           T == {n \in Nat : \E f : UpTo(f, n)}
<1>1. 0 \in T
  <2> DEFINE f == [s \in SUBSET S |-> 0]
  <2>1. ASSUME NEW s \in SUBSET S, Cardinality(s) <= 0
        PROVE  f[s] = SumStep(f, s)
    <3>1. s = {}
      <4>1. IsFiniteSet(s) /\ Cardinality(s) \in Nat
        BY PositionsFinite
      <4>2. QED BY <4>1, <2>1, FS_EmptySet
    <3>2. QED BY <3>1 DEF SumStep
  <2>2. UpTo(f, 0)
    BY <2>1
  <2>3. QED BY <2>2
<1>2. ASSUME NEW n \in Nat, n \in T PROVE n + 1 \in T
  <2>1. PICK g : UpTo(g, n)
    BY <1>2
  <2> DEFINE f == [s \in SUBSET S |-> SumStep(g, s)]
  <2>2. ASSUME NEW s \in SUBSET S, Cardinality(s) <= n + 1
        PROVE  f[s] = SumStep(f, s)
    <3>1. CASE s = {} BY <3>1 DEF SumStep
    <3>2. CASE s # {}
      <4> DEFINE t == s \ {Chosen(s)}
      <4>1. Chosen(s) \in s BY <3>2, ChosenIn
      <4>2. t \in SUBSET S /\ Cardinality(t) <= n
        BY <4>1, <2>2, PositionsFinite
      <4>3. g[t] = SumStep(g, t)
        BY <4>2, <2>1
      <4>4. f[t] = g[t]
        BY <4>2, <4>3
      <4>5. f[s] = SumStep(g, s)
        OBVIOUS
      <4> HIDE DEF f
      <4>6. QED BY <3>2, <4>4, <4>5 DEF SumStep
    <3>3. QED BY <3>1, <3>2
  <2>3. UpTo(f, n + 1)
    BY <2>2
  <2>4. n + 1 \in Nat
    OBVIOUS
  <2> HIDE DEF UpTo, f
  <2>5. \E h : UpTo(h, n + 1)
    BY <2>3
  <2>6. QED BY <2>4, <2>5
<1> HIDE DEF T
<1>3. Cardinality(S) \in T
  BY <1>1, <1>2, Induction, PositionsFinite
<1>4. PICK f : UpTo(f, Cardinality(S))
  BY <1>3 DEF T
<1>5. \A s \in SUBSET S : Cardinality(s) <= Cardinality(S)
  BY PositionsFinite, FS_Subset
<1>6. \A s \in SUBSET S : f[s] = SumStep(f, s)
  BY <1>4, <1>5
<1>8. f = [s \in SUBSET S |-> f[s]]
  BY <1>4
<1>9. [s \in SUBSET S |-> f[s]] = [s \in SUBSET S |-> SumStep(f, s)]
  BY <1>6
<1>10. IsSum(f, S)
  BY <1>8, <1>9 DEF IsSum
<1>7. QED BY <1>10

\* Two solutions agree where both are defined.
LEMMA SumUnique ==
    ASSUME NEW S \in SUBSET Positions, NEW T \in SUBSET Positions,
           NEW f, NEW g, IsSum(f, S), IsSum(g, T),
           NEW s \in SUBSET (S \cap T)
    PROVE  f[s] = g[s]
<1> DEFINE Agree(n) ==
              \A r \in SUBSET (S \cap T) : Cardinality(r) <= n => f[r] = g[r]
           A == {n \in Nat : Agree(n)}
<1>1. \A r \in SUBSET (S \cap T) : f[r] = SumStep(f, r) /\ g[r] = SumStep(g, r)
  BY DEF IsSum
<1>2. 0 \in A
  <2>1. ASSUME NEW r \in SUBSET (S \cap T), Cardinality(r) <= 0
        PROVE  f[r] = g[r]
    <3>1. r = {}
      <4>1. IsFiniteSet(r) /\ Cardinality(r) \in Nat
        BY PositionsFinite
      <4>2. QED BY <4>1, <2>1, FS_EmptySet
    <3>2. QED BY <3>1, <1>1 DEF SumStep
  <2>2. QED BY <2>1
<1>3. ASSUME NEW n \in Nat, n \in A PROVE n + 1 \in A
  <2>1. ASSUME NEW r \in SUBSET (S \cap T), Cardinality(r) <= n + 1
        PROVE  f[r] = g[r]
    <3>1. CASE r = {} BY <3>1, <1>1 DEF SumStep
    <3>2. CASE r # {}
      <4> DEFINE t == r \ {Chosen(r)}
      <4>1. Chosen(r) \in r BY <3>2, ChosenIn
      <4>2. t \in SUBSET (S \cap T) /\ Cardinality(t) <= n
        BY <4>1, <2>1, PositionsFinite
      <4>3. f[t] = g[t]
        BY <4>2, <1>3
      <4>4. QED BY <3>2, <4>3, <1>1 DEF SumStep
    <3>3. QED BY <3>1, <3>2
  <2>2. n + 1 \in Nat
    OBVIOUS
  <2>3. QED BY <2>1, <2>2
<1>4. Cardinality(s) \in Nat
  BY PositionsFinite
<1> HIDE DEF A
<1>5. Cardinality(s) \in A
  BY <1>2, <1>3, <1>4, Induction
<1>6. QED BY <1>4, <1>5 DEF A

\* One step of the sum.
LEMMA NumberStep ==
    ASSUME NEW S \in SUBSET Positions
    PROVE  Number(S) =
             IF S = {} THEN 0 ELSE 2^Chosen(S) + Number(S \ {Chosen(S)})
<1> DEFINE f == CHOOSE h : IsSum(h, S)
<1>1. IsSum(f, S) /\ Number(S) = f[S]
  BY SumExists, NumberIsSum
<1> HIDE DEF f
<1>2. Number(S) = SumStep(f, S)
  BY <1>1 DEF IsSum
<1>3. CASE S = {}
  BY <1>2, <1>3 DEF SumStep
<1>4. CASE S # {}
  <2> DEFINE T == S \ {Chosen(S)}
             g == CHOOSE h : IsSum(h, T)
  <2>1. T \in SUBSET Positions
    OBVIOUS
  <2>2. IsSum(g, T) /\ Number(T) = g[T]
    BY <2>1, SumExists, NumberIsSum
  <2> HIDE DEF g
  <2>3. T \in SUBSET (S \cap T)
    OBVIOUS
  <2> HIDE DEF T
  <2>4. f[T] = g[T]
    BY <1>1, <2>1, <2>2, <2>3, SumUnique
  <2>5. QED BY <1>2, <1>4, <2>2, <2>4 DEF SumStep, T
<1>5. QED BY <1>3, <1>4

-----------------------------------------------------------------------------
\* The powers of two, by which the provers compute only when the exponent is a
\* numeral.
LEMMA Doubling ==
    ASSUME NEW k \in Positions
    PROVE  2^k \in Nat \ {0} /\ 2^(k + 1) = 2 * 2^k
<1>0. \/ k = 0 \/ k = 1 \/ k = 2 \/ k = 3 \/ k = 4 \/ k = 5 \/ k = 6 \/ k = 7
      \/ k = 8 \/ k = 9 \/ k = 10 \/ k = 11 \/ k = 12 \/ k = 13 \/ k = 14
      \/ k = 15 \/ k = 16 \/ k = 17 \/ k = 18 \/ k = 19 \/ k = 20 \/ k = 21
      \/ k = 22 \/ k = 23 \/ k = 24 \/ k = 25 \/ k = 26 \/ k = 27 \/ k = 28
      \/ k = 29 \/ k = 30 \/ k = 31
    BY DEF Positions
<1>1. CASE k = 0 BY <1>1
<1>2. CASE k = 1 BY <1>2
<1>3. CASE k = 2 BY <1>3
<1>4. CASE k = 3 BY <1>4
<1>5. CASE k = 4 BY <1>5
<1>6. CASE k = 5 BY <1>6
<1>7. CASE k = 6 BY <1>7
<1>8. CASE k = 7 BY <1>8
<1>9. CASE k = 8 BY <1>9
<1>10. CASE k = 9 BY <1>10
<1>11. CASE k = 10 BY <1>11
<1>12. CASE k = 11 BY <1>12
<1>13. CASE k = 12 BY <1>13
<1>14. CASE k = 13 BY <1>14
<1>15. CASE k = 14 BY <1>15
<1>16. CASE k = 15 BY <1>16
<1>17. CASE k = 16 BY <1>17
<1>18. CASE k = 17 BY <1>18
<1>19. CASE k = 18 BY <1>19
<1>20. CASE k = 19 BY <1>20
<1>21. CASE k = 20 BY <1>21
<1>22. CASE k = 21 BY <1>22
<1>23. CASE k = 22 BY <1>23
<1>24. CASE k = 23 BY <1>24
<1>25. CASE k = 24 BY <1>25
<1>26. CASE k = 25 BY <1>26
<1>27. CASE k = 26 BY <1>27
<1>28. CASE k = 27 BY <1>28
<1>29. CASE k = 28 BY <1>29
<1>30. CASE k = 29 BY <1>30
<1>31. CASE k = 30 BY <1>31
<1>32. CASE k = 31 BY <1>32
<1>33. QED
    BY <1>0, <1>1, <1>2, <1>3, <1>4, <1>5, <1>6, <1>7, <1>8, <1>9, <1>10, <1>11, <1>12, <1>13, <1>14, <1>15, <1>16, <1>17, <1>18, <1>19, <1>20, <1>21, <1>22, <1>23, <1>24, <1>25, <1>26, <1>27, <1>28, <1>29, <1>30, <1>31, <1>32

\* The weight of a bit is a positive number.
LEMMA PowerType ==
    ASSUME NEW k \in 0 .. 32
    PROVE  2^k \in Nat \ {0}
<1>1. CASE k = 32 BY <1>1
<1>2. CASE k \in Positions BY <1>2, Doubling
<1>3. QED BY <1>1, <1>2 DEF Positions

\* A power is an even multiple of a smaller one.
LEMMA PowerSplit ==
    ASSUME NEW n \in 0 .. 32, NEW j \in 0 .. 32, j < n
    PROVE  \E e \in Nat \ {0} : 2^n = 2^j * (2 * e)
<1> DEFINE Splits(m) == \E e \in Nat \ {0} : 2^m = 2^j * (2 * e)
           T == {m \in Nat : m \in j + 1 .. 32 => Splits(m)}
<1>1. 0 \in T
    OBVIOUS
<1>2. ASSUME NEW m \in Nat, m \in T PROVE m + 1 \in T
  <2>1. CASE m = j
    <3>0. j \in Positions
      BY DEF Positions
    <3>1. 2^(m + 1) = 2 * 2^j /\ 2^j \in Nat
      BY <2>1, <3>0, Doubling
    <3>2. 2^(m + 1) = 2^j * (2 * 1)
      BY <3>1
    <3>3. Splits(m + 1)
      BY <3>2
    <3>4. QED BY <3>3
  <2>2. CASE m \in j + 1 .. 31
    <3>1. PICK e \in Nat \ {0} : 2^m = 2^j * (2 * e)
      BY <2>2, <1>2
    <3>0. j \in 0 .. 32 /\ m \in Positions
      BY <2>2 DEF Positions
    <3>2. 2^(m + 1) = 2 * 2^m /\ 2^j \in Nat
      BY <3>0, Doubling, PowerType
    <3> DEFINE p == 2^j
    <3>3. 2 * (p * (2 * e)) = p * (2 * (2 * e))
      <4>1. p \in Nat BY <3>2
      <4> HIDE DEF p
      <4>2. QED BY <4>1
    <3>4. 2^(m + 1) = 2^j * (2 * (2 * e))
      BY <3>1, <3>2, <3>3
    <3>5. 2 * e \in Nat \ {0}
      OBVIOUS
    <3>6. Splits(m + 1)
      BY <3>4, <3>5
    <3>7. QED BY <3>6
  <2>3. CASE m < j \/ m > 31
    BY <2>3
  <2>4. QED BY <2>1, <2>2, <2>3
<1> HIDE DEF T
<1>3. n \in T
    BY <1>1, <1>2, Induction
<1>4. QED BY <1>3 DEF T

\* No bit set is zero.
LEMMA NumberEmpty == Number({}) = 0
BY NumberStep

\* One step of the sum, of a set that is not empty.
LEMMA ChosenPower ==
    ASSUME NEW S \in SUBSET Positions, S # {}
    PROVE  /\ Chosen(S) \in S /\ 2^Chosen(S) \in Nat \ {0}
           /\ Number(S) = 2^Chosen(S) + Number(S \ {Chosen(S)})
<1>1. Chosen(S) \in S
  BY ChosenIn
<1>2. Chosen(S) \in Positions
  BY <1>1
<1>3. QED
  BY <1>1, <1>2, Doubling, NumberStep

\* A set of sizes 0, 1, ... reaches every set of positions.
LEMMA SizeInduction ==
    ASSUME NEW G, {} \in G,
           \A S \in SUBSET Positions :
               S # {} /\ (\A x \in S : S \ {x} \in G) => S \in G
    PROVE  SUBSET Positions \subseteq G
<1> DEFINE A == {n \in Nat : \A S \in SUBSET Positions :
                                Cardinality(S) <= n => S \in G}
<1>1. 0 \in A
  <2>1. ASSUME NEW S \in SUBSET Positions, Cardinality(S) <= 0
        PROVE  S \in G
    <3>1. S = {}
      <4>1. IsFiniteSet(S) /\ Cardinality(S) \in Nat
        BY PositionsFinite
      <4>2. QED BY <4>1, <2>1, FS_EmptySet
    <3>2. QED BY <3>1
  <2>2. QED BY <2>1
<1>2. ASSUME NEW n \in Nat, n \in A PROVE n + 1 \in A
  <2>1. ASSUME NEW S \in SUBSET Positions, Cardinality(S) <= n + 1
        PROVE  S \in G
    <3>1. ASSUME NEW x \in S PROVE S \ {x} \in G
      <4>1. S \ {x} \in SUBSET Positions /\ Cardinality(S \ {x}) <= n
        BY <2>1, PositionsFinite
      <4>2. QED BY <4>1, <1>2
    <3>2. QED BY <3>1
  <2>2. n + 1 \in Nat
    OBVIOUS
  <2>3. QED BY <2>1, <2>2
<1> HIDE DEF A
<1>3. ASSUME NEW S \in SUBSET Positions PROVE S \in G
  <2>1. Cardinality(S) \in Nat
    BY PositionsFinite
  <2>2. Cardinality(S) \in A
    BY <1>1, <1>2, <2>1, Induction
  <2>3. QED BY <2>1, <2>2 DEF A
<1>4. QED BY <1>3

\* The number of a set of bits is a natural number.
LEMMA NumberType ==
    ASSUME NEW S \in SUBSET Positions
    PROVE  Number(S) \in Nat
<1> DEFINE G == {T \in SUBSET Positions : Number(T) \in Nat}
<1>1. {} \in G
  BY NumberEmpty
<1>2. ASSUME NEW T \in SUBSET Positions, T # {}, \A x \in T : T \ {x} \in G
      PROVE  T \in G
  <2>1. Chosen(T) \in T /\ 2^Chosen(T) \in Nat
    BY <1>2, ChosenPower
  <2>2. Number(T) = 2^Chosen(T) + Number(T \ {Chosen(T)})
    BY <1>2, ChosenPower
  <2>3. Number(T \ {Chosen(T)}) \in Nat
    BY <1>2, <2>1
  <2>4. Number(T) \in Nat
    BY <2>1, <2>2, <2>3
  <2>5. QED BY <2>4
<1> HIDE DEF G
<1>3. SUBSET Positions \subseteq G
  BY <1>1, <1>2, SizeInduction
<1>4. QED BY <1>3 DEF G

\* Any element may be taken out of the sum.
LEMMA NumberRemove ==
    ASSUME NEW S \in SUBSET Positions, NEW x \in S
    PROVE  Number(S) = 2^x + Number(S \ {x})
<1> DEFINE G == {T \in SUBSET Positions :
                    \A y \in T : Number(T) = 2^y + Number(T \ {y})}
<1>1. {} \in G
  OBVIOUS
<1>2. ASSUME NEW T \in SUBSET Positions, T # {}, \A y \in T : T \ {y} \in G
      PROVE  T \in G
  <2> DEFINE c == Chosen(T)
  <2>1. c \in T /\ 2^c \in Nat /\ Number(T) = 2^c + Number(T \ {c})
    BY <1>2, ChosenPower
  <2> HIDE DEF c
  <2>2. ASSUME NEW y \in T PROVE Number(T) = 2^y + Number(T \ {y})
    <3>1. CASE y = c BY <3>1, <2>1
    <3>2. CASE y # c
      <4> DEFINE U == (T \ {c}) \ {y}
      <4>1. y \in T \ {c} /\ c \in T \ {y} /\ U = (T \ {y}) \ {c}
        BY <2>1, <3>2
      <4>2. Number(T \ {c}) = 2^y + Number(U)
        BY <1>2, <2>1, <4>1
      <4>3. Number(T \ {y}) = 2^c + Number(U)
        <5>1. T \ {y} \in G
          BY <1>2
        <5>2. Number(T \ {y}) = 2^c + Number((T \ {y}) \ {c})
          BY <5>1, <4>1
        <5>3. QED BY <5>2, <4>1
      <4>4. 2^y \in Nat /\ Number(U) \in Nat
        BY Doubling, NumberType
      <4> HIDE DEF U
      <4>5. QED BY <2>1, <4>2, <4>3, <4>4
    <3>3. QED BY <3>1, <3>2
  <2>3. QED BY <2>2
<1> HIDE DEF G
<1>3. S \in G
  BY <1>1, <1>2, SizeInduction
<1>4. QED BY <1>3 DEF G

\* A field of n bits holds less than 2^n.
LEMMA NumberBound ==
    ASSUME NEW n \in 0 .. 32, NEW S \in SUBSET (0 .. n - 1)
    PROVE  Number(S) \in 0 .. 2^n - 1
<1> DEFINE Bounded(m) ==
              \A T \in SUBSET (0 .. m - 1) : Number(T) \in 0 .. 2^m - 1
           A == {m \in Nat : m <= 32 => Bounded(m)}
<1>1. 0 \in A
  <2>1. ASSUME NEW T \in SUBSET (0 .. 0 - 1) PROVE Number(T) = 0
    <3>1. T = {}
      OBVIOUS
    <3>2. QED BY <3>1, NumberEmpty
  <2>2. QED BY <2>1
<1>2. ASSUME NEW m \in Nat, m \in A PROVE m + 1 \in A
  <2>1. ASSUME m + 1 <= 32, NEW T \in SUBSET (0 .. (m + 1) - 1)
        PROVE  Number(T) \in 0 .. 2^(m + 1) - 1
    <3>1. m \in Positions
      BY <2>1 DEF Positions
    <3>2. 2^m \in Nat /\ 2^(m + 1) = 2 * 2^m
      BY <3>1, Doubling
    <3>3. T \ {m} \in SUBSET (0 .. m - 1)
      BY <2>1
    <3>4. Number(T \ {m}) \in 0 .. 2^m - 1
      BY <2>1, <1>2, <3>3
    <3>5. CASE m \in T
      <4>1. T \in SUBSET Positions
        BY <2>1 DEF Positions
      <4>2. Number(T) = 2^m + Number(T \ {m})
        BY <4>1, <3>5, NumberRemove
      <4>3. QED BY <3>2, <3>4, <4>2
    <3>6. CASE m \notin T
      <4>1. T \ {m} = T
        BY <3>6
      <4>2. Number(T) \in 0 .. 2^m - 1
        BY <3>4, <4>1
      <4>3. QED BY <3>2, <4>2
    <3>7. QED BY <3>5, <3>6
  <2>2. m + 1 \in Nat
    OBVIOUS
  <2>3. QED BY <2>1, <2>2
<1> HIDE DEF A
<1>3. n \in A
  BY <1>1, <1>2, Induction
<1>4. QED BY <1>3 DEF A

\* The bits of the number of a set are the set.
LEMMA BitOfNumber ==
    ASSUME NEW n \in 0 .. 31, NEW S \in SUBSET (0 .. n - 1), NEW j \in 0 .. 30
    PROVE  (Number(S) \div 2^j) % 2 = 1 <=> j \in S
<1> DEFINE Bit(T) == (Number(T) \div 2^j) % 2 = 1
           Right(m) == \A T \in SUBSET (0 .. m - 1) : Bit(T) <=> j \in T
           A == {m \in Nat : m <= 31 => Right(m)}
           p == 2^j
<1>0. j \in 0 .. 32 /\ j \in Positions
  BY DEF Positions
<1>9. p \in Nat \ {0}
  BY <1>0, PowerType
<1>1. 0 \in A
  <2>1. ASSUME NEW T \in SUBSET (0 .. 0 - 1) PROVE Number(T) = 0 /\ j \notin T
    <3>1. T = {}
      OBVIOUS
    <3>2. QED BY <3>1, NumberEmpty
  <2> HIDE DEF p
  <2>2. 0 \div p = 0
    BY <1>9
  <2>3. QED BY <2>1, <2>2 DEF p
<1>2. ASSUME NEW m \in Nat, m \in A PROVE m + 1 \in A
  <2>1. ASSUME m + 1 <= 31, NEW T \in SUBSET (0 .. (m + 1) - 1)
        PROVE  Bit(T) <=> j \in T
    <3>1. T \ {m} \in SUBSET (0 .. m - 1) /\ m \in 0 .. 32 /\ m \in Positions
      BY <2>1 DEF Positions
    <3>2. Bit(T \ {m}) <=> j \in T \ {m}
      BY <2>1, <1>2, <3>1
    <3> DEFINE v == Number(T \ {m})
               q == 2^m
    <3>3. v \in 0 .. q - 1 /\ q \in Nat \ {0}
      BY <3>1, NumberBound, PowerType
    <3>4. CASE m \notin T
      <4>1. T \ {m} = T
        BY <3>4
      <4>2. QED BY <3>2, <4>1
    <3>5. CASE m \in T
      <4>1. T \in SUBSET Positions
        BY <2>1 DEF Positions
      <4>2. Number(T) = q + v
        BY <4>1, <3>5, NumberRemove
      <4>3. CASE m = j
        <5>1. p = q
          BY <4>3
        <5> HIDE DEF v, q, p
        <5>2. (q + v) \div q = 1
          BY <3>3
        <5>3. (Number(T) \div p) % 2 = 1
          BY <5>1, <5>2, <4>2
        <5>4. QED BY <5>3, <3>5, <4>3 DEF p
      <4>4. CASE m < j
        <5>1. PICK e \in Nat \ {0} : p = q * (2 * e)
          BY <4>4, <3>1, <1>0, PowerSplit
        <5> HIDE DEF v, q, p
        <5>2. q + v < p /\ q + v \in Nat
          BY <3>3, <5>1, Z3
        <5>3. (q + v) \div p = 0
          BY <1>9, <5>2
        <5>4. (Number(T) \div p) % 2 = 0
          BY <5>3, <4>2
        <5>5. j \notin T
          BY <4>4, <2>1
        <5>6. QED BY <5>4, <5>5 DEF p
      <4>5. CASE j < m
        <5>1. PICK e \in Nat \ {0} : q = p * (2 * e)
          BY <4>5, <3>1, <1>0, PowerSplit
        <5> HIDE DEF v, q, p
        <5>2. (q + v) \div p = 2 * e + v \div p
          BY <1>9, <3>3, <5>1, Z3
        <5>3. v \div p \in Int
          BY <1>9, <3>3
        <5>4. (Number(T) \div p) % 2 = (v \div p) % 2
          BY <5>2, <5>3, <4>2
        <5>5. QED BY <5>4, <3>2, <4>5 DEF p, v
      <4>6. QED BY <4>3, <4>4, <4>5, <3>1
    <3>6. QED BY <3>4, <3>5
  <2>2. m + 1 \in Nat
    OBVIOUS
  <2> HIDE DEF p
  <2>3. QED BY <2>1, <2>2
<1> HIDE DEF A
<1>3. n \in A
  BY <1>1, <1>2, Induction
<1>4. QED BY <1>3 DEF A

\* The bits of the number of a set of bits are the set: a field that is
\* selected, printed and set again keeps its bits.
LEMMA BitsOfNumber ==
    ASSUME NEW n \in 0 .. 31, NEW S \in SUBSET (0 .. n - 1)
    PROVE  Bits(Number(S)) = S
<1>1. \A k \in 0 .. 30 : (Number(S) \div 2^k) % 2 = 1 <=> k \in S
  BY BitOfNumber
<1>2. S \subseteq 0 .. 30
  OBVIOUS
<1>3. QED BY <1>1, <1>2 DEF Bits

\* A number below 2^n has no bit at n or above.
LEMMA BitsBelow ==
    ASSUME NEW n \in 0 .. 31, NEW v \in 0 .. 2^n - 1
    PROVE  Bits(v) \subseteq 0 .. n - 1
<1> SUFFICES ASSUME NEW k \in Bits(v), ~ k \in 0 .. n - 1 PROVE FALSE
  OBVIOUS
<1>0. k \in 0 .. 30 /\ (v \div 2^k) % 2 = 1
  BY DEF Bits
<1>1. n \in 0 .. 32 /\ k \in 0 .. 32 /\ n <= k
  BY <1>0
<1> DEFINE p == 2^k
           q == 2^n
<1>2. p \in Nat \ {0} /\ q \in Nat \ {0}
  BY <1>1, PowerType
<1>3. q <= p
  <2>1. CASE n = k BY <2>1, <1>2
  <2>2. CASE n < k
    <3>1. PICK e \in Nat \ {0} : p = q * (2 * e)
      BY <2>2, <1>1, PowerSplit
    <3> HIDE DEF p, q
    <3>2. QED BY <3>1, <1>2, Z3
  <2>3. QED BY <2>1, <2>2, <1>1
<1>4. v \in Nat /\ v < p
  BY <1>2, <1>3
<1> HIDE DEF p, q
<1>5. v \div p = 0
  BY <1>2, <1>4
<1>6. (v \div p) % 2 # 1
  BY <1>5
<1>7. QED BY <1>0, <1>6 DEF p

\* Every number is the number of a set.
LEMMA NumberOnto ==
    ASSUME NEW n \in 0 .. 31, NEW v \in 0 .. 2^n - 1
    PROVE  \E S \in SUBSET (0 .. n - 1) : Number(S) = v
<1> DEFINE Reached(m) ==
              \A u \in 0 .. 2^m - 1 : \E S \in SUBSET (0 .. m - 1) : Number(S) = u
           A == {m \in Nat : m <= 31 => Reached(m)}
<1>1. 0 \in A
  <2>1. ASSUME NEW u \in 0 .. 2^0 - 1
        PROVE  \E S \in SUBSET (0 .. 0 - 1) : Number(S) = u
    <3>1. u = 0
      OBVIOUS
    <3>2. QED BY <3>1, NumberEmpty
  <2>2. QED BY <2>1
<1>2. ASSUME NEW m \in Nat, m \in A PROVE m + 1 \in A
  <2>1. ASSUME m + 1 <= 31, NEW u \in 0 .. 2^(m + 1) - 1
        PROVE  \E S \in SUBSET (0 .. (m + 1) - 1) : Number(S) = u
    <3>1. m \in Positions
      BY <2>1 DEF Positions
    <3>2. 2^m \in Nat /\ 2^(m + 1) = 2 * 2^m
      BY <3>1, Doubling
    <3>3. Reached(m)
      BY <1>2, <2>1
    <3>4. CASE u < 2^m
      <4>1. u \in 0 .. 2^m - 1
        BY <3>4, <3>2
      <4>2. PICK S \in SUBSET (0 .. m - 1) : Number(S) = u
        BY <3>3, <4>1
      <4>3. S \in SUBSET (0 .. (m + 1) - 1)
        OBVIOUS
      <4>4. QED BY <4>2, <4>3
    <3>5. CASE u >= 2^m
      <4>1. u - 2^m \in 0 .. 2^m - 1
        BY <3>5, <3>2
      <4>2. PICK S \in SUBSET (0 .. m - 1) : Number(S) = u - 2^m
        BY <3>3, <4>1
      <4> DEFINE U == S \cup {m}
      <4>3. U \in SUBSET (0 .. (m + 1) - 1) /\ m \in U /\ U \ {m} = S
        OBVIOUS
      <4>4. U \in SUBSET Positions
        BY <4>3, <2>1 DEF Positions
      <4> HIDE DEF U
      <4>5. Number(U) = 2^m + Number(S)
        BY <4>3, <4>4, NumberRemove
      <4>6. Number(U) = u
        BY <4>2, <4>5, <3>2
      <4>7. QED BY <4>3, <4>6
    <3>6. QED BY <3>4, <3>5, <3>2
  <2>2. m + 1 \in Nat
    OBVIOUS
  <2>3. QED BY <2>1, <2>2
<1> HIDE DEF A
<1>3. n \in A
  BY <1>1, <1>2, Induction
<1>4. QED BY <1>3 DEF A

\* The number of the bits of a number is the number.
LEMMA NumberOfBits ==
    ASSUME NEW n \in 0 .. 31, NEW v \in 0 .. 2^n - 1
    PROVE  Number(Bits(v)) = v
<1>1. PICK S \in SUBSET (0 .. n - 1) : Number(S) = v
  BY NumberOnto
<1>2. Bits(v) = S
  BY <1>1, BitsOfNumber
<1>3. QED BY <1>1, <1>2

\* The highest bit and the others.
LEMMA BitsHigh ==
    ASSUME NEW m \in 0 .. 30, NEW v \in 2^m .. 2^(m + 1) - 1
    PROVE  Bits(v) = {m} \cup Bits(v - 2^m)
<1>1. m \in Positions /\ m \in 0 .. 31 /\ m + 1 \in 0 .. 31
  BY DEF Positions
<1>2. 2^m \in Nat /\ 2^(m + 1) = 2 * 2^m
  BY <1>1, Doubling
<1>3. v - 2^m \in 0 .. 2^m - 1
  BY <1>2
<1>4. PICK S \in SUBSET (0 .. m - 1) : Number(S) = v - 2^m
  BY <1>1, <1>3, NumberOnto
<1> DEFINE U == S \cup {m}
<1>5. U \in SUBSET (0 .. (m + 1) - 1) /\ m \in U /\ U \ {m} = S
  OBVIOUS
<1>6. U \in SUBSET Positions
  BY <1>5 DEF Positions
<1> HIDE DEF U
<1>7. Number(U) = 2^m + Number(S)
  BY <1>5, <1>6, NumberRemove
<1>8. Number(U) = v
  BY <1>2, <1>4, <1>7
<1>9. Bits(v) = U
  BY <1>1, <1>5, <1>8, BitsOfNumber
<1>10. Bits(v - 2^m) = S
  BY <1>1, <1>4, BitsOfNumber
<1>11. QED BY <1>9, <1>10 DEF U

\* Zero has no bits.
LEMMA BitsOfZero == Bits(0) = {}
<1>1. {} \in SUBSET (0 .. 0 - 1) /\ 0 \in 0 .. 31
  OBVIOUS
<1>2. QED BY <1>1, BitsOfNumber, NumberEmpty

\* The weight of a bit, under a name the provers need not expand.
Power(k) == 2^k
\* The weights of the bits of half a word, in numbers.
LEMMA Powers ==
    /\ Power(0) = 1 /\ Power(1) = 2 /\ Power(2) = 4 /\ Power(3) = 8
    /\ Power(4) = 16 /\ Power(5) = 32 /\ Power(6) = 64 /\ Power(7) = 128
    /\ Power(8) = 256 /\ Power(9) = 512 /\ Power(10) = 1024
    /\ Power(11) = 2048 /\ Power(12) = 4096 /\ Power(13) = 8192
    /\ Power(14) = 16384 /\ Power(15) = 32768
BY DEF Power

\* BitsHigh, with the weights written as Power.
LEMMA HighBit ==
    ASSUME NEW m \in 0 .. 30, NEW v \in Nat,
           Power(m) <= v, v < 2 * Power(m)
    PROVE  Bits(v) = {m} \cup Bits(v - Power(m))
<1>0. m \in Positions
  BY DEF Positions
<1>1. 2^m \in Nat /\ 2^(m + 1) = 2 * 2^m
  BY <1>0, Doubling
<1>2. v \in 2^m .. 2^(m + 1) - 1
  BY <1>1 DEF Power
<1>3. QED
  BY <1>2, BitsHigh DEF Power


\* The bits of the constants of the code that fit a digit.
LEMMA Ones ==
    /\ Bits(\h0) = {} /\ Bits(\h1) = {0} /\ Bits(\h2) = {1}
    /\ Bits(\h3) = {0, 1} /\ Bits(\h4) = {2} /\ Bits(\h5) = {0, 2} /\ Bits(\h7) = {0, 1, 2}
    /\ Bits(\h8) = {3} /\ Bits(\h9) = {0, 3} /\ Bits(\hA) = {1, 3}
    /\ Bits(\hE) = {1, 2, 3} /\ Bits(\hF) = {0, 1, 2, 3}
<1>1. Bits(\h0) = {} /\ Bits(\h1) = {0} /\ Bits(\h2) = {1} /\ Bits(\h4) = {2}
  BY HighBit, BitsOfZero, Powers
<1>2. Bits(\h5) = {0, 2} /\ Bits(\h7) = {0, 1, 2} /\ Bits(\h8) = {3}
  BY HighBit, BitsOfZero, Powers
<1>3. Bits(\h9) = {0, 3} /\ Bits(\hA) = {1, 3} /\ Bits(\hE) = {1, 2, 3}
  BY HighBit, BitsOfZero, Powers
<1>4. Bits(\hF) = {0, 1, 2, 3} /\ Bits(\h3) = {0, 1}
  BY HighBit, BitsOfZero, Powers
<1>5. QED BY <1>1, <1>2, <1>3, <1>4

\* The bits of the masks of the tests on a field.
LEMMA OnesOfTests ==
    /\ Bits(\h17D) = {0, 2, 3, 4, 5, 6, 8} /\ Bits(\h170) = {4, 5, 6, 8}
    /\ Bits(\h17E) = {1, 2, 3, 4, 5, 6, 8} /\ Bits(\h30) = {4, 5}
    /\ Bits(\h83F) = {0, 1, 2, 3, 4, 5, 11} /\ Bits(\h81A) = {1, 3, 4, 11}
    /\ Bits(\h801) = {0, 11}
<1>1. Bits(\h17D) = {0, 2, 3, 4, 5, 6, 8}
  BY HighBit, BitsOfZero, Powers
<1>2. Bits(\h170) = {4, 5, 6, 8}
  BY HighBit, BitsOfZero, Powers
<1>3. Bits(\h17E) = {1, 2, 3, 4, 5, 6, 8}
  BY HighBit, BitsOfZero, Powers
<1>4. Bits(\h30) = {4, 5}
  BY HighBit, BitsOfZero, Powers
<1>5. Bits(\h83F) = {0, 1, 2, 3, 4, 5, 11}
  BY HighBit, BitsOfZero, Powers
<1>6. Bits(\h81A) = {1, 3, 4, 11}
  BY HighBit, BitsOfZero, Powers
<1>7. Bits(\h801) = {0, 11}
  BY HighBit, BitsOfZero, Powers
<1>8. QED BY <1>1, <1>2, <1>3, <1>4, <1>5, <1>6, <1>7

\* The bits of the halves of the masks and patterns of a whole word.
LEMMA OnesOfHalves ==
    /\ Bits(\h10) = {4} /\ Bits(\h400) = {10} /\ Bits(\h1000) = {12}
    /\ Bits(\hA00) = {9, 11} /\ Bits(\h1B00) = {8, 9, 11, 12}
    /\ Bits(\h1800) = {11, 12} /\ Bits(\hB800) = {11, 12, 13, 15}
    /\ Bits(\hB820) = {5, 11, 12, 13, 15} /\ Bits(\h6800) = {11, 13, 14}
    /\ Bits(\h1400) = {10, 12} /\ Bits(\h5400) = {10, 12, 14}
    /\ Bits(\hD61F) = {0, 1, 2, 3, 4, 9, 10, 12, 14, 15}
    /\ Bits(\hFC00) = {10, 11, 12, 13, 14, 15}
    /\ Bits(\hFF00) = {8, 9, 10, 11, 12, 13, 14, 15}
    /\ Bits(\hFC1F) = {0, 1, 2, 3, 4, 10, 11, 12, 13, 14, 15}
    /\ Bits(\hFFFF) = {0, 1, 2, 3, 4, 5, 6, 7, 8, 9, 10, 11, 12, 13, 14, 15}
    /\ Bits(\hD503) = {0, 1, 8, 10, 12, 14, 15}
    /\ Bits(\h201F) = {0, 1, 2, 3, 4, 13} /\ Bits(\h8A00) = {9, 11, 15}
<1>1. Bits(\h10) = {4} /\ Bits(\h400) = {10} /\ Bits(\h1000) = {12}
  BY HighBit, BitsOfZero, Powers
<1>2. Bits(\hA00) = {9, 11} /\ Bits(\h1B00) = {8, 9, 11, 12}
  BY HighBit, BitsOfZero, Powers
<1>3. Bits(\h1800) = {11, 12} /\ Bits(\hB800) = {11, 12, 13, 15}
  BY HighBit, BitsOfZero, Powers
<1>4. Bits(\hB820) = {5, 11, 12, 13, 15}
  BY HighBit, BitsOfZero, Powers
<1>5. Bits(\h6800) = {11, 13, 14} /\ Bits(\h1400) = {10, 12}
  BY HighBit, BitsOfZero, Powers
<1>6. Bits(\h5400) = {10, 12, 14}
  BY HighBit, BitsOfZero, Powers
<1>7. Bits(\hD61F) = {0, 1, 2, 3, 4, 9, 10, 12, 14, 15}
  BY HighBit, BitsOfZero, Powers
<1>8. Bits(\hFC00) = {10, 11, 12, 13, 14, 15}
  BY HighBit, BitsOfZero, Powers
<1>9. Bits(\hFF00) = {8, 9, 10, 11, 12, 13, 14, 15}
  BY HighBit, BitsOfZero, Powers
<1>10. Bits(\hFC1F) = {0, 1, 2, 3, 4, 10, 11, 12, 13, 14, 15}
  BY HighBit, BitsOfZero, Powers
<1>11. Bits(\hFFFF) = {0, 1, 2, 3, 4, 5, 6, 7, 8, 9, 10, 11, 12, 13, 14, 15}
  <2>1. Bits(\hFF) = {0, 1, 2, 3, 4, 5, 6, 7}
    BY HighBit, BitsOfZero, Powers
  <2>2. QED BY <2>1, HighBit, Powers
<1>12. Bits(\hD503) = {0, 1, 8, 10, 12, 14, 15}
  BY HighBit, BitsOfZero, Powers
<1>13. Bits(\h201F) = {0, 1, 2, 3, 4, 13} /\ Bits(\h8A00) = {9, 11, 15}
  BY HighBit, BitsOfZero, Powers
<1>14. QED
  BY <1>1, <1>2, <1>3, <1>4, <1>5, <1>6, <1>7, <1>8, <1>9, <1>10, <1>11,
     <1>12, <1>13

-----------------------------------------------------------------------------
(***************************************************************************)
(* Fields of a word and the tests on them, as statements about the bits.   *)
(***************************************************************************)
\* The emulator and the disassembler have the macros of utils.h in common
\* with the assembler.
LEMMA SameMacros ==
    /\ \A w, field : Emulated!SelectBits(w, field) = SelectBits(w, field)
    /\ \A w, field : Printer!SelectBits(w, field) = SelectBits(w, field)
    /\ \A n : Emulated!Bits(n) = Bits(n) /\ Printer!Bits(n) = Bits(n)
    /\ \A n, test : /\ Emulated!CheckBits(n, test) = CheckBits(n, test)
                    /\ Printer!CheckBits(n, test) = CheckBits(n, test)
    /\ \A n, size : /\ Emulated!SignExt(n, size) = SignExt(n, size)
                    /\ Printer!SignExt(n, size) = SignExt(n, size)
    /\ \A n, m : /\ Emulated!Halves(n, m) = Halves(n, m)
                 /\ Printer!Halves(n, m) = Halves(n, m)
<1>1. ASSUME NEW S
      PROVE  Emulated!Number(S) = Number(S) /\ Printer!Number(S) = Number(S)
  BY DEF Number, Emulated!Number, Printer!Number, MapThenSumSet,
         MapThenFoldSet, Emulated!MapThenSumSet, Emulated!MapThenFoldSet,
         Printer!MapThenSumSet, Printer!MapThenFoldSet
<1>2. \A w, field : /\ Emulated!SelectBits(w, field) = SelectBits(w, field)
                    /\ Printer!SelectBits(w, field) = SelectBits(w, field)
  BY <1>1 DEF SelectBits, Emulated!SelectBits, Printer!SelectBits
<1>3. \A n : Emulated!Bits(n) = Bits(n) /\ Printer!Bits(n) = Bits(n)
  BY DEF Bits, Emulated!Bits, Printer!Bits
<1>4. \A n, test : /\ Emulated!CheckBits(n, test) = CheckBits(n, test)
                   /\ Printer!CheckBits(n, test) = CheckBits(n, test)
  BY <1>3 DEF CheckBits, Emulated!CheckBits, Printer!CheckBits
<1>5. \A n, size : /\ Emulated!SignExt(n, size) = SignExt(n, size)
                   /\ Printer!SignExt(n, size) = SignExt(n, size)
  BY DEF SignExt, Emulated!SignExt, Printer!SignExt
<1>6. \A n, m : /\ Emulated!Halves(n, m) = Halves(n, m)
                /\ Printer!Halves(n, m) = Halves(n, m)
  BY <1>3 DEF Halves, Emulated!Halves, Printer!Halves
<1>7. QED BY <1>2, <1>3, <1>4, <1>5, <1>6


\* The tests and fields of the disassembler's headers are those of the
\* emulator's.
LEMMA SameTests ==
    ASSUME NEW w
    PROVE  /\ \A kind : Printer!Op0Is(w, kind) <=> Emulated!Op0Is(w, kind)
           /\ Printer!IsArithmeticImm(w) <=> Emulated!IsArithmeticImm(w)
           /\ Printer!IsWideMove(w) <=> Emulated!IsWideMove(w)
           /\ \A kind : Printer!DPRegIs(w, kind) <=> Emulated!DPRegIs(w, kind)
           /\ \A f : Printer!OprField(w, f) = Emulated!OprField(w, f)
           /\ Printer!InvalidShift(w) <=> Emulated!InvalidShift(w)
           /\ \A kind : Printer!TransferIs(w, kind)
                            <=> Emulated!TransferIs(w, kind)
           /\ Printer!UnsignedOffset(w) <=> Emulated!UnsignedOffset(w)
           /\ \A kind : Printer!OffsetIs(w, kind) <=> Emulated!OffsetIs(w, kind)
           /\ Printer!InvalidSdt(w) <=> Emulated!InvalidSdt(w)
           /\ \A kind : Printer!BranchIs(w, kind) <=> Emulated!BranchIs(w, kind)
<1>1. Printer!OP0 = Emulated!OP0 /\ Printer!OP0_TESTS = Emulated!OP0_TESTS
  BY DEF Printer!OP0, Emulated!OP0, Printer!OP0_TESTS, Emulated!OP0_TESTS
<1>2. /\ Printer!IMM = Emulated!IMM
      /\ Printer!IMM_ARITHMETIC_OPI = Emulated!IMM_ARITHMETIC_OPI
      /\ Printer!IMM_WIDE_MOVE_OPI = Emulated!IMM_WIDE_MOVE_OPI
  BY DEF Printer!IMM, Emulated!IMM,
         Printer!IMM_ARITHMETIC_OPI, Emulated!IMM_ARITHMETIC_OPI,
         Printer!IMM_WIDE_MOVE_OPI, Emulated!IMM_WIDE_MOVE_OPI
<1>3. /\ Printer!REG = Emulated!REG /\ Printer!SHIFT = Emulated!SHIFT
      /\ Printer!DPREG_TESTS = Emulated!DPREG_TESTS
  BY DEF Printer!REG, Emulated!REG, Printer!SHIFT, Emulated!SHIFT,
         Printer!DPREG_TESTS, Emulated!DPREG_TESTS
<1>4. /\ Printer!DT_OPCODE = Emulated!DT_OPCODE
      /\ Printer!DT_TESTS = Emulated!DT_TESTS /\ Printer!SDT = Emulated!SDT
      /\ Printer!OFFSET_TESTS = Emulated!OFFSET_TESTS
  BY DEF Printer!DT_OPCODE, Emulated!DT_OPCODE, Printer!DT_TESTS,
         Emulated!DT_TESTS, Printer!SDT, Emulated!SDT,
         Printer!OFFSET_TESTS, Emulated!OFFSET_TESTS
<1>5. Printer!BRANCH_TESTS = Emulated!BRANCH_TESTS
  BY SameMacros DEF Printer!BRANCH_TESTS, Emulated!BRANCH_TESTS
<1>6. \A kind : Printer!Op0Is(w, kind) <=> Emulated!Op0Is(w, kind)
  BY <1>1, SameMacros DEF Printer!Op0Is, Emulated!Op0Is
<1>7. /\ Printer!IsArithmeticImm(w) <=> Emulated!IsArithmeticImm(w)
      /\ Printer!IsWideMove(w) <=> Emulated!IsWideMove(w)
  BY <1>2, SameMacros
     DEF Printer!IsArithmeticImm, Emulated!IsArithmeticImm,
         Printer!IsWideMove, Emulated!IsWideMove
<1>8. /\ \A kind : Printer!DPRegIs(w, kind) <=> Emulated!DPRegIs(w, kind)
      /\ \A f : Printer!OprField(w, f) = Emulated!OprField(w, f)
  BY <1>3, SameMacros DEF Printer!DPRegIs, Emulated!DPRegIs,
                          Printer!OprField, Emulated!OprField
<1>9. Printer!InvalidShift(w) <=> Emulated!InvalidShift(w)
  BY <1>3, <1>8 DEF Printer!InvalidShift, Emulated!InvalidShift
<1>10. /\ \A kind : Printer!TransferIs(w, kind) <=> Emulated!TransferIs(w, kind)
       /\ Printer!UnsignedOffset(w) <=> Emulated!UnsignedOffset(w)
  BY <1>4, SameMacros DEF Printer!TransferIs, Emulated!TransferIs,
                          Printer!UnsignedOffset, Emulated!UnsignedOffset
<1>11. \A kind : Printer!OffsetIs(w, kind) <=> Emulated!OffsetIs(w, kind)
  BY <1>4, <1>10, SameMacros DEF Printer!OffsetIs, Emulated!OffsetIs
<1>12. Printer!InvalidSdt(w) <=> Emulated!InvalidSdt(w)
  BY <1>4, <1>10, <1>11 DEF Printer!InvalidSdt, Emulated!InvalidSdt
<1>13. \A kind : Printer!BranchIs(w, kind) <=> Emulated!BranchIs(w, kind)
  BY <1>5 DEF Printer!BranchIs, Emulated!BranchIs,
              Printer!CheckWord, Emulated!CheckWord
<1>14. QED
  BY <1>6, <1>7, <1>8, <1>9, <1>10, <1>11, <1>12, <1>13

-----------------------------------------------------------------------------
\* The bits of a field, by their numbers in it.
Selected(w, field) == {k \in 0 .. field[2] - 1 : field[1] + k \in w}

\* A field of a word, the number of its values, and its bits.
IsField(f) == f[1] \in Nat /\ f[2] \in 0 .. 31
Limit(f) == 2^f[2]
Span(f) == f[1] .. f[1] + f[2] - 1

\* The number of values of a field.
LEMMA LimitType ==
    ASSUME NEW f, IsField(f)
    PROVE  Limit(f) \in Nat \ {0}
<1> DEFINE s == f[2]
<1>1. s \in 0 .. 32
  BY DEF IsField
<1> HIDE DEF s
<1>2. 2^s \in Nat \ {0}
  BY <1>1, PowerType
<1>3. QED BY <1>2 DEF Limit, s

\* SELECT_BITS: the value of a field is below its limit, and its bits are
\* those of the word at the field's positions.
LEMMA SelectFacts ==
    ASSUME NEW w, NEW f, IsField(f)
    PROVE  /\ SelectBits(w, f) \in Nat /\ SelectBits(w, f) < Limit(f)
           /\ Bits(SelectBits(w, f)) = Selected(w, f)
<1> DEFINE S == {k \in 0 .. f[2] - 1 : f[1] + k \in w}
           s == f[2]
<1>1. SelectBits(w, f) = Number(S) /\ Selected(w, f) = S
  BY DEF SelectBits, Selected
<1>2. S \in SUBSET (0 .. s - 1) /\ s \in 0 .. 32 /\ s \in 0 .. 31
  BY DEF IsField
<1>3. Limit(f) \in Nat /\ Limit(f) = 2^s
  BY LimitType DEF Limit
<1> HIDE DEF S, s
<1>4. Number(S) \in 0 .. 2^s - 1
  BY <1>2, NumberBound
<1>5. Bits(Number(S)) = S
  BY <1>2, BitsOfNumber
<1>6. QED BY <1>1, <1>3, <1>4, <1>5

\* A field is equal to a constant exactly when its bits are.
LEMMA FieldIs ==
    ASSUME NEW w, NEW f, IsField(f), NEW v \in Nat, v < Limit(f)
    PROVE  SelectBits(w, f) = v <=> Selected(w, f) = Bits(v)
<1> DEFINE n == SelectBits(w, f)
           s == f[2]
<1>1. n \in 0 .. 2^s - 1 /\ Bits(n) = Selected(w, f) /\ v \in 0 .. 2^s - 1
  BY SelectFacts, LimitType DEF Limit
<1>2. s \in 0 .. 31
  BY DEF IsField
<1> HIDE DEF n, s
<1>3. Number(Bits(n)) = n /\ Number(Bits(v)) = v
  BY <1>1, <1>2, NumberOfBits
<1>4. QED BY <1>1, <1>3 DEF n

\* CHECK_BITS as a statement about the bits of the word.
LEMMA Checked ==
    ASSUME NEW w, NEW f, IsField(f), NEW test
    PROVE  CheckBits(SelectBits(w, f), test)
               <=> Selected(w, f) \cap Bits(test[1]) = Bits(test[2])
BY SelectFacts DEF CheckBits

\* SET_BITS with a value that is the field's modulo its limit puts the
\* field's bits back.
LEMMA PutBack ==
    ASSUME NEW w, NEW u, NEW f, IsField(f), NEW v \in Int,
           v % Limit(f) = SelectBits(w, f)
    PROVE  SetBits(u, f, v) = u \cup (w \cap Span(f))
<1> DEFINE o == f[1]
           s == f[2]
<1>1. Bits(v % Limit(f)) = {k \in 0 .. s - 1 : o + k \in w}
  <2>1. Bits(SelectBits(w, f)) = Selected(w, f)
    BY SelectFacts
  <2>2. QED BY <2>1 DEF Selected
<1>2. SetBits(u, f, v) = u \cup {o + k : k \in Bits(v % Limit(f))}
  BY DEF SetBits, Limit
<1>0. Span(f) = o .. o + s - 1
  BY DEF Span
<1>3. o \in Nat /\ s \in Nat
  BY DEF IsField
<1> HIDE DEF o, s
<1> DEFINE K == {k \in 0 .. s - 1 : o + k \in w}
<1>4. {o + k : k \in K} = w \cap (o .. o + s - 1)
  <2>1. ASSUME NEW i \in w \cap (o .. o + s - 1)
        PROVE  i \in {o + k : k \in K}
    <3>1. i - o \in K /\ o + (i - o) = i
      BY <1>3
    <3>2. QED BY <3>1
  <2>2. ASSUME NEW k \in K
        PROVE  o + k \in w \cap (o .. o + s - 1)
    BY <1>3
  <2> HIDE DEF K
  <2>3. QED BY <2>1, <2>2
<1>5. QED BY <1>0, <1>1, <1>2, <1>4

-----------------------------------------------------------------------------
\* The groups, by the bits.
DPImm(w) == 28 \in w /\ 27 \notin w /\ 26 \notin w
DPReg(w) == 27 \in w /\ 26 \notin w /\ 25 \in w
LS(w) == 27 \in w /\ 25 \notin w
Branches(w) == 28 \in w /\ 27 \notin w /\ 26 \in w

\* The four instruction groups of the decoder, by the bits of op0.
LEMMA Groups ==
    ASSUME NEW w
    PROVE  /\ Emulated!Op0Is(w, "DPIMM") <=> DPImm(w)
           /\ Emulated!Op0Is(w, "DPREG") <=> DPReg(w)
           /\ Emulated!Op0Is(w, "LS") <=> LS(w)
           /\ Emulated!Op0Is(w, "BRANCH") <=> Branches(w)
<1> DEFINE f == <<25, 4>>
           Op0(test) == CheckBits(SelectBits(w, f), test)
           S == {k \in 0 .. 3 : 25 + k \in w}
<1>1. ASSUME NEW m, NEW v PROVE Op0(<<m, v>>) <=> S \cap Bits(m) = Bits(v)
  <2>1. IsField(f)
    BY DEF IsField
  <2>2. Selected(w, f) = S
    BY DEF Selected
  <2> HIDE DEF f
  <2>3. QED BY <2>1, <2>2, Checked
<1>2. /\ Emulated!Op0Is(w, "DPIMM") <=> Op0(<<14, 8>>)
      /\ Emulated!Op0Is(w, "DPREG") <=> Op0(<<7, 5>>)
      /\ Emulated!Op0Is(w, "LS") <=> Op0(<<5, 4>>)
      /\ Emulated!Op0Is(w, "BRANCH") <=> Op0(<<14, 10>>)
  BY SameMacros DEF Emulated!Op0Is, Emulated!OP0, Emulated!OP0_TESTS
<1> HIDE DEF Op0
<1>4. Op0(<<14, 8>>) <=> DPImm(w)
  BY <1>1, Ones DEF DPImm
<1>5. Op0(<<7, 5>>) <=> DPReg(w)
  BY <1>1, Ones DEF DPReg
<1>6. Op0(<<5, 4>>) <=> LS(w)
  BY <1>1, Ones DEF LS
<1>7. Op0(<<14, 10>>) <=> Branches(w)
  BY <1>1, Ones DEF Branches
<1>8. QED BY <1>2, <1>4, <1>5, <1>6, <1>7

\* A test of a field, by its bits.
LEMMA TestBits ==
    ASSUME NEW w, NEW f, IsField(f), NEW test
    PROVE  Emulated!CheckBits(Emulated!SelectBits(w, f), test)
               <=> Selected(w, f) \cap Bits(test[1]) = Bits(test[2])
BY SameMacros, Checked

\* A field of one bit.
LEMMA OneBit ==
    ASSUME NEW w, NEW f, f[1] \in Nat, f[2] = 1
    PROVE  SelectBits(w, f) = IF f[1] \in w THEN 1 ELSE 0
<1>1. IsField(f) /\ Limit(f) = 2
  BY DEF IsField, Limit
<1>2. SelectBits(w, f) = 1 <=> Selected(w, f) = {0}
  <2>1. SelectBits(w, f) = 1 <=> Selected(w, f) = Bits(1)
    BY <1>1, FieldIs
  <2>2. Bits(1) = {0}
    BY Ones
  <2>3. QED BY <2>1, <2>2
<1>3. Selected(w, f) = {0} <=> f[1] \in w
  <2>1. 0 .. f[2] - 1 = {0} /\ f[1] + 0 = f[1]
    OBVIOUS
  <2>2. Selected(w, f) = {k \in {0} : f[1] + k \in w}
    BY <2>1 DEF Selected
  <2>3. QED BY <2>1, <2>2
<1>4. SelectBits(w, f) \in 0 .. 1
  BY <1>1, SelectFacts
<1>5. QED BY <1>2, <1>3, <1>4

\* The tests on the data processing instructions with an immediate.
LEMMA ImmTests ==
    ASSUME NEW w
    PROVE  /\ Emulated!IsArithmeticImm(w)
                  <=> 23 \notin w /\ 24 \in w /\ 25 \notin w
           /\ Emulated!IsWideMove(w)
                  <=> 23 \in w /\ 24 \notin w /\ 25 \in w
<1> DEFINE f == <<23, 3>>
           S == {k \in 0 .. 2 : 23 + k \in w}
<1>1. /\ Emulated!IsArithmeticImm(w) <=> SelectBits(w, f) = 2
      /\ Emulated!IsWideMove(w) <=> SelectBits(w, f) = 5
  BY SameMacros DEF Emulated!IsArithmeticImm, Emulated!IsWideMove,
        Emulated!IMM, Emulated!IMM_ARITHMETIC_OPI, Emulated!IMM_WIDE_MOVE_OPI
<1>2. f[1] = 23 /\ f[2] = 3 /\ Selected(w, f) = S
  BY DEF Selected
<1>3. IsField(f) /\ Limit(f) = 8
  BY <1>2 DEF IsField, Limit
<1> HIDE DEF f
<1>4. /\ SelectBits(w, f) = 2 <=> S = {1}
      /\ SelectBits(w, f) = 5 <=> S = {0, 2}
  <2>1. \A v \in 0 .. 7 : SelectBits(w, f) = v <=> S = Bits(v)
    BY <1>2, <1>3, FieldIs
  <2>2. 2 \in 0 .. 7 /\ 5 \in 0 .. 7 /\ Bits(2) = {1} /\ Bits(5) = {0, 2}
    BY Ones
  <2>3. QED BY <2>1, <2>2
<1>5. S = {1} <=> 23 \notin w /\ 24 \in w /\ 25 \notin w
  OBVIOUS
<1>6. S = {0, 2} <=> 23 \in w /\ 24 \notin w /\ 25 \in w
  OBVIOUS
<1>7. QED BY <1>1, <1>4, <1>5, <1>6

\* A field of opr is a field of the word.
LEMMA OprFields ==
    ASSUME NEW w, NEW f, NEW g, f[1] \in 0 .. 3, f[2] \in 1 .. 2,
           f[1] + f[2] <= 4, g = <<21 + f[1], f[2]>>
    PROVE  Emulated!OprField(w, f) = SelectBits(w, g)
<1> DEFINE opr == <<21, 4>>
           S == {k \in 0 .. 3 : 21 + k \in w}
<1>1. Emulated!OprField(w, f) = SelectBits(Bits(SelectBits(w, opr)), f)
  BY SameMacros DEF Emulated!OprField, Emulated!REG
<1>2. IsField(opr) /\ Selected(w, opr) = S
  BY DEF Selected, IsField
<1> HIDE DEF opr
<1>3. Bits(SelectBits(w, opr)) = S
  BY <1>2, SelectFacts
<1>4. {k \in 0 .. f[2] - 1 : f[1] + k \in S}
         = {k \in 0 .. g[2] - 1 : g[1] + k \in w}
  <2>1. ASSUME NEW k \in 0 .. f[2] - 1
        PROVE  f[1] + k \in S <=> g[1] + k \in w
    <3>1. f[1] + k \in 0 .. 3 /\ 21 + (f[1] + k) = g[1] + k
      OBVIOUS
    <3>2. QED BY <3>1
  <2>2. f[2] = g[2]
    OBVIOUS
  <2> HIDE DEF S
  <2>3. QED BY <2>1, <2>2
<1>5. QED BY <1>1, <1>3, <1>4 DEF SelectBits

\* The tests on the data processing instructions with a register.
LEMMA RegTests ==
    ASSUME NEW w
    PROVE  /\ Emulated!DPRegIs(w, "ARITHMETIC")
                  <=> 28 \notin w /\ 24 \in w /\ 21 \notin w
           /\ Emulated!DPRegIs(w, "BIT_LOGIC") <=> 28 \notin w /\ 24 \notin w
           /\ Emulated!DPRegIs(w, "MULTIPLY")
                  <=> /\ 28 \in w /\ 24 \in w
                      /\ 21 \notin w /\ 22 \notin w /\ 23 \notin w
           /\ Emulated!InvalidShift(w)
                  <=> 28 \notin w /\ 24 \in w /\ 21 \notin w
                          /\ 22 \in w /\ 23 \in w
<1> DEFINE m == <<28, 1>>
           f == <<21, 4>>
           h == <<22, 2>>
           Opr(test) == Emulated!CheckBits(Emulated!SelectBits(w, f), test)
           S == {k \in 0 .. 3 : 21 + k \in w}
<1>1. /\ Emulated!DPRegIs(w, "ARITHMETIC")
            <=> SelectBits(w, m) = 0 /\ Opr(<<9, 8>>)
      /\ Emulated!DPRegIs(w, "BIT_LOGIC")
            <=> SelectBits(w, m) = 0 /\ Opr(<<8, 0>>)
      /\ Emulated!DPRegIs(w, "MULTIPLY")
            <=> SelectBits(w, m) = 1 /\ Opr(<<15, 8>>)
  BY SameMacros DEF Emulated!DPRegIs, Emulated!REG, Emulated!DPREG_TESTS
<1>2. /\ SelectBits(w, m) = 0 <=> 28 \notin w
      /\ SelectBits(w, m) = 1 <=> 28 \in w
  BY OneBit
<1>3. IsField(f) /\ Selected(w, f) = S
  BY DEF Selected, IsField
<1>4. ASSUME NEW a, NEW v PROVE Opr(<<a, v>>) <=> S \cap Bits(a) = Bits(v)
  <2> HIDE DEF f
  <2>1. QED BY <1>3, TestBits
<1> HIDE DEF Opr
<1>5. Opr(<<9, 8>>) <=> 24 \in w /\ 21 \notin w
  BY <1>4, Ones
<1>6. Opr(<<8, 0>>) <=> 24 \notin w
  BY <1>4, Ones
<1>7. Opr(<<15, 8>>) <=> 24 \in w /\ 21 \notin w /\ 22 \notin w /\ 23 \notin w
  BY <1>4, Ones
<1>8. Emulated!OprField(w, Emulated!SHIFT) = SelectBits(w, h)
  BY OprFields DEF Emulated!SHIFT
<1>9. SelectBits(w, h) = 3 <=> 22 \in w /\ 23 \in w
  <2> DEFINE T == {k \in 0 .. 1 : 22 + k \in w}
  <2>1. h[1] = 22 /\ h[2] = 2 /\ Selected(w, h) = T
    BY DEF Selected
  <2> HIDE DEF h
  <2>4. IsField(h) /\ Limit(h) = 4
    BY <2>1 DEF IsField, Limit
  <2>2. SelectBits(w, h) = 3 <=> T = {0, 1}
    <3>1. SelectBits(w, h) = 3 <=> T = Bits(3)
      BY <2>1, <2>4, FieldIs
    <3>2. Bits(3) = {0, 1}
      BY Ones
    <3>3. QED BY <3>1, <3>2
  <2>3. QED BY <2>2
<1>10. QED
  BY <1>1, <1>2, <1>5, <1>6, <1>7, <1>8, <1>9 DEF Emulated!InvalidShift

\* The transfers and the ways to give their offset, by the bits.
IsSdt(w) == /\ {27, 28, 29, 31} \subseteq w
            /\ 23 \notin w /\ 25 \notin w /\ 26 \notin w
IsLiteral(w) == /\ 27 \in w /\ 28 \in w /\ 24 \notin w /\ 25 \notin w
                /\ 26 \notin w /\ 29 \notin w /\ 31 \notin w
ByRegister(w) == /\ {11, 13, 14, 21} \subseteq w
                 /\ 10 \notin w /\ 12 \notin w /\ 15 \notin w
ByIndex(w) == 10 \in w /\ 21 \notin w

\* The tests on the single data transfers.
LEMMA TransferTests ==
    ASSUME NEW w
    PROVE  /\ Emulated!TransferIs(w, "SDT") <=> IsSdt(w)
           /\ Emulated!TransferIs(w, "LOADLIT") <=> IsLiteral(w)
           /\ Emulated!UnsignedOffset(w) <=> 24 \in w
           /\ Emulated!OffsetIs(w, "REG_OFFSET")
                  <=> 24 \notin w /\ ByRegister(w)
           /\ Emulated!OffsetIs(w, "PRE_POST") <=> 24 \notin w /\ ByIndex(w)
           /\ Emulated!InvalidSdt(w)
                  <=> /\ IsSdt(w) /\ 24 \notin w
                      /\ ~ByRegister(w) /\ ~ByIndex(w)
<1> DEFINE f == <<23, 9>>
           g == <<10, 12>>
           u == <<24, 1>>
           Kind(test) == Emulated!CheckBits(Emulated!SelectBits(w, f), test)
           Mode(test) == Emulated!CheckBits(Emulated!SelectBits(w, g), test)
           S == {k \in 0 .. 8 : 23 + k \in w}
           T == {k \in 0 .. 11 : 10 + k \in w}
<1>1. /\ Emulated!TransferIs(w, "SDT") <=> Kind(<<\h17D, \h170>>)
      /\ Emulated!TransferIs(w, "LOADLIT") <=> Kind(<<\h17E, \h30>>)
      /\ Emulated!UnsignedOffset(w) <=> SelectBits(w, u) = 1
      /\ Emulated!OffsetIs(w, "REG_OFFSET")
            <=> ~Emulated!UnsignedOffset(w) /\ Mode(<<\h83F, \h81A>>)
      /\ Emulated!OffsetIs(w, "PRE_POST")
            <=> ~Emulated!UnsignedOffset(w) /\ Mode(<<\h801, \h1>>)
  BY SameMacros
     DEF Emulated!TransferIs, Emulated!DT_TESTS, Emulated!DT_OPCODE,
         Emulated!UnsignedOffset, Emulated!SDT, Emulated!OffsetIs,
         Emulated!OFFSET_TESTS
<1>2. IsField(f) /\ Selected(w, f) = S /\ IsField(g) /\ Selected(w, g) = T
  BY DEF Selected, IsField
<1>3. SelectBits(w, u) = 1 <=> 24 \in w
  BY OneBit
<1>4. ASSUME NEW a, NEW v PROVE Kind(<<a, v>>) <=> S \cap Bits(a) = Bits(v)
  <2> HIDE DEF f
  <2>1. QED BY <1>2, TestBits
<1>5. ASSUME NEW a, NEW v PROVE Mode(<<a, v>>) <=> T \cap Bits(a) = Bits(v)
  <2> HIDE DEF g
  <2>1. QED BY <1>2, TestBits
<1> HIDE DEF Kind, Mode
<1>6. Kind(<<\h17D, \h170>>) <=> IsSdt(w)
  <2>1. Kind(<<\h17D, \h170>>)
          <=> S \cap {0, 2, 3, 4, 5, 6, 8} = {4, 5, 6, 8}
    BY <1>4, OnesOfTests
  <2>2. QED BY <2>1 DEF IsSdt
<1>7. Kind(<<\h17E, \h30>>) <=> IsLiteral(w)
  <2>1. Kind(<<\h17E, \h30>>) <=> S \cap {1, 2, 3, 4, 5, 6, 8} = {4, 5}
    BY <1>4, OnesOfTests
  <2>2. /\ 1 \in S <=> 24 \in w
        /\ 2 \in S <=> 25 \in w
        /\ 3 \in S <=> 26 \in w
        /\ 4 \in S <=> 27 \in w
        /\ 5 \in S <=> 28 \in w
        /\ 6 \in S <=> 29 \in w
        /\ 8 \in S <=> 31 \in w
    OBVIOUS
  <2> HIDE DEF S
  <2>3. S \cap {1, 2, 3, 4, 5, 6, 8} = {4, 5}
          <=> /\ 4 \in S /\ 5 \in S /\ 1 \notin S /\ 2 \notin S
              /\ 3 \notin S /\ 6 \notin S /\ 8 \notin S
    OBVIOUS
  <2>4. QED BY <2>1, <2>2, <2>3 DEF IsLiteral
<1>8. Mode(<<\h83F, \h81A>>) <=> ByRegister(w)
  <2>1. Mode(<<\h83F, \h81A>>)
          <=> T \cap {0, 1, 2, 3, 4, 5, 11} = {1, 3, 4, 11}
    BY <1>5, OnesOfTests
  <2>2. QED BY <2>1 DEF ByRegister
<1>9. Mode(<<\h801, \h1>>) <=> ByIndex(w)
  <2>1. Mode(<<\h801, \h1>>) <=> T \cap {0, 11} = {0}
    BY <1>5, OnesOfTests, Ones
  <2>2. QED BY <2>1 DEF ByIndex
<1>10. Emulated!InvalidSdt(w)
          <=> /\ Emulated!TransferIs(w, "SDT") /\ ~Emulated!UnsignedOffset(w)
              /\ ~Emulated!OffsetIs(w, "REG_OFFSET")
              /\ ~Emulated!OffsetIs(w, "PRE_POST")
  BY DEF Emulated!InvalidSdt, Emulated!OFFSET_TESTS
<1>11. QED BY <1>1, <1>3, <1>6, <1>7, <1>8, <1>9, <1>10

\* The masks and the patterns of a whole word.
LEMMA Constants ==
    /\ Halves(\hFC00, 0) = 26 .. 31
    /\ Halves(\h1400, 0) = {26, 28}
    /\ Halves(\hFFFF, \hFC1F) = (16 .. 31) \cup (10 .. 15) \cup (0 .. 4)
    /\ Halves(\hD61F, 0) = {16, 17, 18, 19, 20, 25, 26, 28, 30, 31}
    /\ Halves(\hFF00, \h0010) = (24 .. 31) \cup {4}
    /\ Halves(\h5400, 0) = {26, 28, 30}
    /\ Halves(\h8A00, 0) = {25, 27, 31}
    /\ Halves(\hD503, \h201F) = {0, 1, 2, 3, 4, 13, 16, 17, 24, 26, 28, 30, 31}
    /\ Halves(\h1000, 0) = {28} /\ Halves(\h0A00, 0) = {25, 27}
    /\ Halves(\h1B00, 0) = {24, 25, 27, 28} /\ Halves(\h1800, 0) = {27, 28}
    /\ Halves(\hB800, \h0400) = {27, 28, 29, 31, 10}
    /\ Halves(\hB800, 0) = {27, 28, 29, 31}
    /\ Halves(\hB820, \h6800) = {21, 27, 28, 29, 31, 11, 13, 14}
BY OnesOfHalves, BitsOfZero DEF Halves

\* The branches, by the bits.
IsUncon(w) == w \cap (26 .. 31) = {26, 28}
IsBr(w) == w \cap ((10 .. 31) \cup (0 .. 4))
              = {16, 17, 18, 19, 20, 25, 26, 28, 30, 31}
IsCond(w) == w \cap ((24 .. 31) \cup {4}) = {26, 28, 30}

\* The tests on the branches.
LEMMA BranchTests ==
    ASSUME NEW w
    PROVE  /\ Emulated!BranchIs(w, "UNCON") <=> IsUncon(w)
           /\ Emulated!BranchIs(w, "REGISTER") <=> IsBr(w)
           /\ Emulated!BranchIs(w, "CON") <=> IsCond(w)
<1>1. /\ Emulated!BranchIs(w, "UNCON")
            <=> w \cap Halves(\hFC00, 0) = Halves(\h1400, 0)
      /\ Emulated!BranchIs(w, "REGISTER")
            <=> w \cap Halves(\hFFFF, \hFC1F) = Halves(\hD61F, 0)
      /\ Emulated!BranchIs(w, "CON")
            <=> w \cap Halves(\hFF00, \h0010) = Halves(\h5400, 0)
  BY SameMacros
     DEF Emulated!BranchIs, Emulated!BRANCH_TESTS, Emulated!CheckWord
<1>2. (16 .. 31) \cup (10 .. 15) \cup (0 .. 4) = (10 .. 31) \cup (0 .. 4)
  OBVIOUS
<1>3. QED BY <1>1, <1>2, Constants DEF IsUncon, IsBr, IsCond

\* The fields of the layouts: widths, limits and positions.
LEMMA Fields ==
    /\ IsField(DT_SF) /\ Limit(DT_SF) = 2 /\ Span(DT_SF) = {30}
    /\ IsField(DT_SIMM19) /\ Span(DT_SIMM19) = 5 .. 23
    /\ IsField(DT_RT) /\ Limit(DT_RT) = 32 /\ Span(DT_RT) = 0 .. 4
    /\ IsField(SDT.L) /\ Limit(SDT.L) = 2 /\ Span(SDT.L) = {22}
    /\ IsField(SDT.XN) /\ Limit(SDT.XN) = 32 /\ Span(SDT.XN) = 5 .. 9
    /\ IsField(SDT.U) /\ Limit(SDT.U) = 2 /\ Span(SDT.U) = {24}
    /\ IsField(SDT.OFFSET) /\ Limit(SDT.OFFSET) = 4096 /\ Span(SDT.OFFSET) = 10 .. 21
    /\ IsField(SDT.XM) /\ Limit(SDT.XM) = 32 /\ Span(SDT.XM) = 16 .. 20
    /\ IsField(SDT.SIMM9) /\ Limit(SDT.SIMM9) = 512 /\ Span(SDT.SIMM9) = 12 .. 20
    /\ IsField(SDT.I) /\ Limit(SDT.I) = 2 /\ Span(SDT.I) = {11}
    /\ IsField(BRANCH.SIMM26) /\ Span(BRANCH.SIMM26) = 0 .. 25
    /\ IsField(BRANCH.REG) /\ Limit(BRANCH.REG) = 32 /\ Span(BRANCH.REG) = 5 .. 9
    /\ IsField(BRANCH.SIMM19) /\ Span(BRANCH.SIMM19) = 5 .. 23
    /\ IsField(BRANCH.COND) /\ Limit(BRANCH.COND) = 16 /\ Span(BRANCH.COND) = 0 .. 3
    /\ IsField(REG.SF) /\ Limit(REG.SF) = 2 /\ Span(REG.SF) = {31}
    /\ IsField(REG.OPC) /\ Limit(REG.OPC) = 4 /\ Span(REG.OPC) = 29 .. 30
    /\ IsField(REG.OPR) /\ Limit(REG.OPR) = 16 /\ Span(REG.OPR) = 21 .. 24
    /\ IsField(REG.RM) /\ Limit(REG.RM) = 32 /\ Span(REG.RM) = 16 .. 20
    /\ IsField(REG.OPERAND) /\ Limit(REG.OPERAND) = 64 /\ Span(REG.OPERAND) = 10 .. 15
    /\ IsField(REG.X) /\ Limit(REG.X) = 2 /\ Span(REG.X) = {15}
    /\ IsField(REG.RA) /\ Limit(REG.RA) = 32 /\ Span(REG.RA) = 10 .. 14
    /\ IsField(REG.RN) /\ Limit(REG.RN) = 32 /\ Span(REG.RN) = 5 .. 9
    /\ IsField(REG.RD) /\ Limit(REG.RD) = 32 /\ Span(REG.RD) = 0 .. 4
    /\ IsField(REG_SHIFT) /\ Limit(REG_SHIFT) = 4 /\ Span(REG_SHIFT) = 22 .. 23
    /\ IsField(REG_N) /\ Limit(REG_N) = 2 /\ Span(REG_N) = {21}
    /\ IsField(IMM.OPI) /\ Limit(IMM.OPI) = 8 /\ Span(IMM.OPI) = 23 .. 25
    /\ IsField(IMM.SH) /\ Limit(IMM.SH) = 2 /\ Span(IMM.SH) = {22}
    /\ IsField(IMM.IMM12) /\ Limit(IMM.IMM12) = 4096 /\ Span(IMM.IMM12) = 10 .. 21
    /\ IsField(IMM.HW) /\ Limit(IMM.HW) = 4 /\ Span(IMM.HW) = 21 .. 22
    /\ IsField(IMM.IMM16) /\ Span(IMM.IMM16) = 5 .. 20
BY DEF IsField, Limit, Span, DT_SF, DT_SIMM19, DT_RT, SDT, BRANCH, REG,
       REG_SHIFT, REG_N, IMM

\* The limits of the wide fields.
LEMMA WideFields ==
    /\ Limit(DT_SIMM19) = 2^19 /\ Limit(BRANCH.SIMM26) = 2^26
    /\ Limit(BRANCH.SIMM19) = 2^19 /\ Limit(IMM.IMM16) = 2^16
BY DEF Limit, DT_SIMM19, BRANCH, IMM

\* The layouts of the disassembler are those of the assembler.
LEMMA SameFields ==
    /\ Printer!DT_SF = DT_SF /\ Printer!DT_SIMM19 = DT_SIMM19
    /\ Printer!DT_RT = DT_RT /\ Printer!SDT = SDT
    /\ Printer!BRANCH.SIMM26 = BRANCH.SIMM26
    /\ Printer!BRANCH.REG = BRANCH.REG
    /\ Printer!BRANCH.SIMM19 = BRANCH.SIMM19
    /\ <<0, 4>> = BRANCH.COND
    /\ Printer!REG.SF = REG.SF /\ Printer!REG.OPC = REG.OPC
    /\ Printer!REG.RM = REG.RM /\ Printer!REG.OPERAND = REG.OPERAND
    /\ Printer!REG.X = REG.X /\ Printer!REG.RA = REG.RA
    /\ Printer!REG.RN = REG.RN /\ Printer!REG.RD = REG.RD
    /\ Printer!IMM.SF = REG.SF /\ Printer!IMM.OPC = REG.OPC
    /\ Printer!IMM.RD = REG.RD /\ Printer!IMM.RN = REG.RN
    /\ Printer!IMM.SH = IMM.SH /\ Printer!IMM.IMM12 = IMM.IMM12
    /\ Printer!IMM.HW = IMM.HW /\ Printer!IMM.IMM16 = IMM.IMM16
    /\ Emulated!DT_SF = DT_SF /\ Emulated!DT_SIMM19 = DT_SIMM19
    /\ Emulated!DT_RT = DT_RT /\ Emulated!SDT = SDT
    /\ Emulated!BRANCH.SIMM26 = BRANCH.SIMM26
    /\ Emulated!BRANCH.REG = BRANCH.REG
    /\ Emulated!BRANCH.SIMM19 = BRANCH.SIMM19
    /\ Emulated!REG.SF = REG.SF
    /\ Emulated!REG.RM = REG.RM
    /\ Emulated!REG.X = REG.X /\ Emulated!REG.RA = REG.RA
    /\ Emulated!REG.RN = REG.RN /\ Emulated!REG.RD = REG.RD
    /\ Emulated!IMM.OPC = REG.OPC
BY DEF Printer!DT_SF, DT_SF, Printer!DT_SIMM19, DT_SIMM19, Printer!DT_RT,
       DT_RT, Printer!SDT, SDT, Printer!BRANCH, BRANCH, Printer!REG, REG,
       Printer!IMM, IMM, Emulated!DT_SF, Emulated!DT_SIMM19, Emulated!DT_RT,
       Emulated!SDT, Emulated!BRANCH, Emulated!REG, Emulated!IMM

\* A field put back as it was selected, and a register number.
LEMMA PutSelected ==
    ASSUME NEW w, NEW u, NEW f, IsField(f), NEW v, v = SelectBits(w, f)
    PROVE  SetBits(u, f, v) = u \cup (w \cap Span(f))
<1>1. v \in Nat /\ v < Limit(f) /\ Limit(f) \in Nat \ {0}
  BY SelectFacts, LimitType
<1>2. v % Limit(f) = SelectBits(w, f)
  BY <1>1
<1>3. QED BY <1>1, <1>2, PutBack

\* A register that was printed from a field is encoded back into it.
LEMMA PutRegister ==
    ASSUME NEW w, NEW u, NEW f, IsField(f), Limit(f) = 32,
           NEW r, r.n = SelectBits(w, f)
    PROVE  /\ IsRegister(r)
           /\ SetBits(u, f, get_register(r)) = u \cup (w \cap Span(f))
<1>1. r.n \in 0 .. 31
  BY SelectFacts
<1>2. r.n % 256 = r.n
  BY <1>1
<1>3. QED BY <1>1, <1>2, PutSelected DEF IsRegister, get_register

-----------------------------------------------------------------------------
(***************************************************************************)
(* The classes of words the decoder tells apart: for each, how the         *)
(* emulator decodes it, what the disassembler prints of it, and what the   *)
(* assembler makes of that line.                                           *)
(***************************************************************************)
\* The two words that are tested for before the group.
Ordinary(w) == w # NOP_INSTRUCTION /\ w # HALT_INSTRUCTION

\* execute_cycle and disassemble_cycle take a word to the same group.
LEMMA Dispatch ==
    ASSUME NEW w, Ordinary(w)
    PROVE  /\ DPImm(w) =>
                /\ Decode(w) = Emulated!DecodeDPImm(w)
                /\ ~Printer!Unprintable(w)
                /\ \A a : Printer!disassemble_cycle(w, a)
                             = Printer!disassemble_dpimm_instruction(w)
           /\ DPReg(w) =>
                /\ Decode(w) = Emulated!DecodeDPReg(w)
                /\ Printer!Unprintable(w) <=> Emulated!InvalidShift(w)
                /\ \A a : Printer!disassemble_cycle(w, a)
                             = Printer!disassemble_dpreg_instruction(w)
           /\ LS(w) =>
                /\ Decode(w) = Emulated!DecodeTransfer(w)
                /\ Printer!Unprintable(w) <=> Emulated!InvalidSdt(w)
                /\ \A a : Printer!disassemble_cycle(w, a)
                             = Printer!disassemble_transfer(w, a)
           /\ Branches(w) =>
                /\ Decode(w) = Emulated!DecodeBranch(w)
                /\ Printer!Unprintable(w) <=> Printer!InvalidBranch(w)
                /\ \A a : Printer!disassemble_cycle(w, a)
                             = {<<Printer!branch_instruction(w, a)>>}
           /\ ~DPImm(w) /\ ~DPReg(w) /\ ~LS(w) /\ ~Branches(w) =>
                /\ Decode(w) = [op |-> "unallocated"]
                /\ ~Printer!Unprintable(w)
                /\ \A a : Printer!disassemble_cycle(w, a)
                             = {<<IntDirective(w)>>}
<1>1. /\ Printer!Op0Is(w, "DPIMM") <=> DPImm(w)
      /\ Printer!Op0Is(w, "DPREG") <=> DPReg(w)
      /\ Printer!Op0Is(w, "LS") <=> LS(w)
      /\ Printer!Op0Is(w, "BRANCH") <=> Branches(w)
      /\ Emulated!Op0Is(w, "DPIMM") <=> DPImm(w)
      /\ Emulated!Op0Is(w, "DPREG") <=> DPReg(w)
      /\ Emulated!Op0Is(w, "LS") <=> LS(w)
      /\ Emulated!Op0Is(w, "BRANCH") <=> Branches(w)
  BY Groups, SameTests
<1>2. /\ w # Emulated!NOP_INSTRUCTION /\ w # Emulated!HALT_INSTRUCTION
      /\ w # Printer!NOP_INSTRUCTION /\ w # Printer!HALT_INSTRUCTION
      /\ ~Printer!IsSpecial(w)
  BY SameMacros
     DEF Ordinary, NOP_INSTRUCTION, HALT_INSTRUCTION,
         Emulated!NOP_INSTRUCTION, Emulated!HALT_INSTRUCTION,
         Printer!NOP_INSTRUCTION, Printer!HALT_INSTRUCTION, Printer!IsSpecial
<1>3. /\ ~(DPImm(w) /\ DPReg(w)) /\ ~(DPImm(w) /\ LS(w))
      /\ ~(DPImm(w) /\ Branches(w)) /\ ~(DPReg(w) /\ LS(w))
      /\ ~(DPReg(w) /\ Branches(w)) /\ ~(LS(w) /\ Branches(w))
  BY DEF DPImm, DPReg, LS, Branches
<1>4. Printer!Unprintable(w)
         <=> \/ DPReg(w) /\ Emulated!InvalidShift(w)
             \/ LS(w) /\ Emulated!InvalidSdt(w)
             \/ Branches(w) /\ Printer!InvalidBranch(w)
  BY <1>1, <1>2, SameTests DEF Printer!Unprintable
<1>5. ASSUME NEW a
      PROVE  Printer!disassemble_cycle(w, a) =
               CASE DPImm(w) -> Printer!disassemble_dpimm_instruction(w)
                 [] DPReg(w) -> Printer!disassemble_dpreg_instruction(w)
                 [] LS(w) -> Printer!disassemble_transfer(w, a)
                 [] Branches(w) -> {<<Printer!branch_instruction(w, a)>>}
                 [] OTHER -> {<<IntDirective(w)>>}
  BY <1>1, <1>2
     DEF Printer!disassemble_cycle, Printer!IntDirective, IntDirective
<1>6. Decode(w) =
         CASE DPImm(w) -> Emulated!DecodeDPImm(w)
           [] DPReg(w) -> Emulated!DecodeDPReg(w)
           [] LS(w) -> Emulated!DecodeTransfer(w)
           [] Branches(w) -> Emulated!DecodeBranch(w)
           [] OTHER -> [op |-> "unallocated"]
  BY <1>1, <1>2 DEF Decode, Emulated!Decode
<1>7. CASE DPImm(w) BY <1>3, <1>4, <1>5, <1>6, <1>7
<1>8. CASE DPReg(w) BY <1>3, <1>4, <1>5, <1>6, <1>8
<1>9. CASE LS(w) BY <1>3, <1>4, <1>5, <1>6, <1>9
<1>10. CASE Branches(w) BY <1>3, <1>4, <1>5, <1>6, <1>10
<1>11. CASE ~DPImm(w) /\ ~DPReg(w) /\ ~LS(w) /\ ~Branches(w)
  BY <1>4, <1>5, <1>6, <1>11
<1>12. QED BY <1>7, <1>8, <1>9, <1>10, <1>11

-----------------------------------------------------------------------------
\* Whatever is printed of the word at an address is one line, accepted and
\* assembled there to the given word.
Returns(w, a, v) ==
    \A lines \in Printer!disassemble_cycle(w, a) :
        \E l : IsLine(l) /\ lines = <<l>> /\ Accepted(l) /\ Assembled(l, a) = v

\* Arithmetic with an immediate, by the bits.
ArithImm(w) == DPImm(w) /\ 23 \notin w /\ 24 \in w /\ 25 \notin w

\* Arithmetic with an immediate: the line printed is assembled to the word.
LEMMA ArithImmClass ==
    ASSUME NEW w \in Word, Ordinary(w), ArithImm(w)
    PROVE  /\ Decode(w).op = "arith_imm" /\ ~Printer!Unprintable(w)
           /\ \A a : Returns(w, a, w)
<1>1. DPImm(w) /\ Emulated!IsArithmeticImm(w) /\ Printer!IsArithmeticImm(w)
      /\ ~Emulated!IsWideMove(w) /\ ~Printer!IsWideMove(w)
  BY ImmTests, SameTests DEF ArithImm
<1>2. Decode(w).op = "arith_imm" /\ ~Printer!Unprintable(w)
  BY <1>1, Dispatch DEF Emulated!DecodeDPImm
<1> DEFINE l == Printer!handle_imm_arithmetic(w)
<1>3. \A a : Printer!disassemble_cycle(w, a) = {<<l>>}
  BY <1>1, Dispatch DEF Printer!disassemble_dpimm_instruction
<1> DEFINE sf == SelectBits(w, REG.SF)
           opc == SelectBits(w, REG.OPC)
           rd == SelectBits(w, REG.RD)
           rn == SelectBits(w, REG.RN)
           imm == SelectBits(w, IMM.IMM12)
           sh == SelectBits(w, IMM.SH)
           opcode == Printer!arithmetic_str[opc + 1]
<1>4. l = [form |-> "two_op", opcode |-> opcode, rd |-> [sf |-> sf, n |-> rd],
           rn |-> [sf |-> sf, n |-> rn], operand |-> [imm |-> imm],
           shift |-> [type |-> "lsl", amount |-> 12 * sh]]
  BY SameMacros, SameFields
     DEF Printer!handle_imm_arithmetic, Printer!TwoOp, Printer!Reg,
         Printer!Imm, Printer!Shift
<1>5. /\ opc \in 0 .. 3 /\ rd \in 0 .. 31 /\ rn \in 0 .. 31 /\ sh \in 0 .. 1
      /\ sf \in 0 .. 1 /\ imm \in 0 .. 4095
  BY SelectFacts, Fields, SMTT(30)
<1>6. opcode \in arithmetic_opcodes /\ arithmetic_opc[opcode] = opc
  <2>1. opc = 0 \/ opc = 1 \/ opc = 2 \/ opc = 3
    BY <1>5
  <2> HIDE DEF opc
  <2>2. QED BY <2>1
        DEF Printer!arithmetic_str, arithmetic_opcodes, arithmetic_opc
<1>7. Accepted(l)
  <2>1. is_immediate(l.operand)
    BY <1>4 DEF is_immediate
  <2>2. ImmShiftAccepted(l.shift)
    BY <1>4, <1>5 DEF ImmShiftAccepted
  <2>3. IsRegister(l.rd) /\ IsRegister(l.rn) /\ l.rd.sf = l.rn.sf
    BY <1>4, <1>5 DEF IsRegister
  <2> HIDE DEF l, opcode
  <2>4. QED
    BY <1>4, <1>6, <2>1, <2>2, <2>3
       DEF Accepted, Dispatched, OperandsAccepted, is_two_op_opcode,
           TwoOpAccepted
<1>8. ASSUME NEW here PROVE Assembled(l, here) = w
  <2> DEFINE u1 == SetBits({}, REG.RN, get_register(l.rn))
             u2 == WithRegister(u1, REG.SF, REG.RD, l.rd)
             u3 == SetBits(u2 \cup Halves(\h1000, 0), IMM.IMM12, imm)
             u4 == SetBits(u3, IMM.OPI, IMM_ARITHMETIC_OPI)
             u5 == SetBits(u4, REG.OPC, opc)
             u6 == SetBits(u5, IMM.SH, sh)
  <2>1. Assembled(l, here) = u6
    <3>1. is_immediate(l.operand) /\ l.shift # NoShift
      BY <1>4 DEF is_immediate, NoShift
    <3>2. ((12 * sh) % 256) \div 12 = sh
      <4>1. sh = 0 \/ sh = 1
        BY <1>5
      <4> HIDE DEF sh
      <4>2. CASE sh = 0 BY <4>2
      <4>3. CASE sh = 1 BY <4>3
      <4>4. QED BY <4>1, <4>2, <4>3
    <3>3. l.form = "two_op" /\ l.opcode = opcode /\ l.shift.amount = 12 * sh
          /\ l.operand.imm = imm
      BY <1>4
    <3> HIDE DEF l, opcode, sh, imm, opc
    <3>4. Assembled(l, here) = assemble_two_op(l)
      BY <3>3 DEF Assembled
    <3>5. assemble_two_op(l) = handle_two_op_imm(u2, opcode, l.operand, l.shift)
      BY <3>1, <3>3 DEF assemble_two_op, handle_two_op
    <3>6. handle_two_op_imm(u2, opcode, l.operand, l.shift)
             = handle_imm_shift(u5, l.shift)
      BY <1>6, <3>3 DEF handle_two_op_imm
    <3>7. handle_imm_shift(u5, l.shift) = u6
      BY <3>1, <3>2, <3>3 DEF handle_imm_shift
    <3>8. QED BY <3>4, <3>5, <3>6, <3>7
  <2>2. u1 = w \cap (5 .. 9)
    BY <1>4, PutRegister, Fields
  <2>3. u2 = u1 \cup (w \cap {31}) \cup (w \cap (0 .. 4))
    BY <1>4, PutRegister, PutSelected, Fields DEF WithRegister
  <2>4. u3 = u2 \cup {28} \cup (w \cap (10 .. 21))
    BY PutSelected, Fields, Constants
  <2>5. IMM_ARITHMETIC_OPI = SelectBits(w, IMM.OPI)
    BY <1>1, SameMacros
       DEF Emulated!IsArithmeticImm, IMM, Emulated!IMM,
           Emulated!IMM_ARITHMETIC_OPI, IMM_ARITHMETIC_OPI
  <2>6. u4 = u3 \cup (w \cap (23 .. 25))
    BY <2>5, PutSelected, Fields
  <2>7. u5 = u4 \cup (w \cap (29 .. 30)) /\ u6 = u5 \cup (w \cap {22})
    BY PutSelected, Fields
  <2> HIDE DEF u1, u2, u3, u4, u5, u6
  <2>8. 28 \in w /\ 27 \notin w /\ 26 \notin w /\ w \subseteq 0 .. 31
    BY <1>1 DEF DPImm, Word
  <2>9. u6 = w
    <3>1. u6 \subseteq w
      BY <2>2, <2>3, <2>4, <2>6, <2>7, <2>8
    <3>2. ASSUME NEW k \in w PROVE k \in u6
      <4>1. \/ k \in 0 .. 4 \/ k \in 5 .. 9 \/ k \in 10 .. 21 \/ k = 22
            \/ k \in 23 .. 25 \/ k = 28 \/ k \in 29 .. 30 \/ k = 31
        BY <2>8
      <4>2. QED BY <4>1, <2>2, <2>3, <2>4, <2>6, <2>7
    <3>3. QED BY <3>1, <3>2
  <2>10. QED BY <2>1, <2>9
<1>9. IsLine(l)
  <2>1. /\ l.rd \in Register /\ l.rn \in Register /\ l.operand \in Immediate
        /\ IsShift(l.shift) /\ l.form = "two_op"
    BY <1>4, <1>5, SMTT(30) DEF Register, Immediate, IsShift, SF32, SF64
  <2> HIDE DEF l
  <2>2. QED BY <2>1 DEF IsLine
<1>10. QED
  <2> HIDE DEF l
  <2>1. QED BY <1>2, <1>3, <1>7, <1>8, <1>9 DEF Returns

\* The wide moves, by the bits.
WideMove(w) == DPImm(w) /\ 23 \in w /\ 24 \notin w /\ 25 \in w

\* A wide move, as it is decoded and printed.
LEMMA WideMoveDecoded ==
    ASSUME NEW w, Ordinary(w), WideMove(w)
    PROVE  /\ Decode(w).op = "wide_move"
           /\ Decode(w).opc = SelectBits(w, REG.OPC)
           /\ ~Printer!Unprintable(w)
           /\ \A a : Printer!disassemble_cycle(w, a)
                        = {<<Printer!handle_mov(w, op_str)>> :
                              op_str \in Printer!wide_move_str(
                                            SelectBits(w, REG.OPC))}
<1>1. /\ DPImm(w) /\ Emulated!IsWideMove(w) /\ Printer!IsWideMove(w)
      /\ ~Emulated!IsArithmeticImm(w) /\ ~Printer!IsArithmeticImm(w)
  BY ImmTests, SameTests DEF WideMove
<1>2. Decode(w) = Emulated!DecodeDPImm(w)
  BY <1>1, Dispatch
<1>3. /\ Emulated!DecodeDPImm(w).op = "wide_move"
      /\ Emulated!DecodeDPImm(w).opc = SelectBits(w, REG.OPC)
  BY <1>1, SameMacros, SameFields DEF Emulated!DecodeDPImm
<1>4. QED
  BY <1>1, <1>2, <1>3, Dispatch, SameMacros, SameFields
     DEF Printer!disassemble_dpimm_instruction

\* What is printed of it with an opcode of the assembler is a line.
LEMMA MovPrinted ==
    ASSUME NEW w, NEW opcode \in wide_move_opcodes
    PROVE  Printer!handle_mov(w, opcode) =
             [form |-> "single_op", opcode |-> opcode,
              rd |-> [sf |-> SelectBits(w, REG.SF),
                      n |-> SelectBits(w, REG.RD)],
              operand |-> [imm |-> SelectBits(w, IMM.IMM16)],
              shift |-> [type |-> "lsl",
                         amount |-> 16 * SelectBits(w, IMM.HW)]]
<1>1. opcode # "garbage"
  BY DEF wide_move_opcodes
<1>2. QED
  BY <1>1, SameMacros, SameFields
     DEF Printer!handle_mov, Printer!SingleOp, Printer!Reg, Printer!Imm,
         Printer!Shift

\* Every wide move printed is accepted by the assembler.
LEMMA MovAccepted ==
    ASSUME NEW w, NEW opcode \in wide_move_opcodes
    PROVE  /\ IsLine(Printer!handle_mov(w, opcode))
           /\ Accepted(Printer!handle_mov(w, opcode))
<1> DEFINE l == Printer!handle_mov(w, opcode)
           hw == SelectBits(w, IMM.HW)
<1>1. /\ l.form = "single_op" /\ l.opcode = opcode
      /\ l.rd = [sf |-> SelectBits(w, REG.SF), n |-> SelectBits(w, REG.RD)]
      /\ l.operand = [imm |-> SelectBits(w, IMM.IMM16)]
      /\ l.shift = [type |-> "lsl", amount |-> 16 * hw]
  BY MovPrinted
<1>2. /\ SelectBits(w, REG.SF) \in 0 .. 1 /\ SelectBits(w, REG.RD) \in 0 .. 31
      /\ SelectBits(w, IMM.IMM16) \in Nat /\ hw \in 0 .. 3
  BY SelectFacts, Fields
<1>3. ((16 * hw) % 256) % 16 = 0
  <2>1. hw = 0 \/ hw = 1 \/ hw = 2 \/ hw = 3
    BY <1>2
  <2> HIDE DEF hw
  <2>2. QED BY <2>1
<1> HIDE DEF l, hw
<1>4. l.rd \in Register /\ l.operand \in Immediate /\ IsShift(l.shift)
  BY <1>1, <1>2 DEF Register, Immediate, IsShift, SF32, SF64
<1>5. opcode \notin {"mul", "mneg"}
  BY DEF wide_move_opcodes
<1>6. IsLine(l)
  BY <1>1, <1>4, <1>5 DEF IsLine
<1>7. IsRegister(l.rd)
  BY <1>1, <1>2 DEF IsRegister
<1>8. WideMoveAccepted(l)
  BY <1>1, <1>3 DEF WideMoveAccepted, is_immediate
<1>9. Accepted(l)
  BY <1>1, <1>7, <1>8
     DEF Accepted, Dispatched, OperandsAccepted, is_single_op_opcode,
         SingleOpAccepted
<1>10. QED BY <1>6, <1>9 DEF l

\* Wide moves come back, unless opc is the one that names no opcode.
LEMMA WideMoveClass ==
    ASSUME NEW w \in Word, Ordinary(w), WideMove(w),
           SelectBits(w, REG.OPC) # 1
    PROVE  \A a : Returns(w, a, w)
<1> DEFINE sf == SelectBits(w, REG.SF)
           opc == SelectBits(w, REG.OPC)
           rd == SelectBits(w, REG.RD)
           imm == SelectBits(w, IMM.IMM16)
           hw == SelectBits(w, IMM.HW)
<1>1. /\ opc \in 0 .. 3 /\ rd \in 0 .. 31 /\ hw \in 0 .. 3
      /\ sf \in 0 .. 1 /\ imm \in Nat
  BY SelectFacts, Fields
<1>2. PICK opcode \in wide_move_opcodes :
         Printer!wide_move_str(opc) = {opcode} /\ wide_move_opc[opcode] = opc
  <2>1. opc = 0 \/ opc = 2 \/ opc = 3
    BY <1>1
  <2> HIDE DEF opc
  <2>2. QED BY <2>1
        DEF Printer!wide_move_str, wide_move_opcodes, wide_move_opc
<1> DEFINE l == Printer!handle_mov(w, opcode)
<1>3. \A a : Printer!disassemble_cycle(w, a) = {<<l>>}
  BY <1>2, WideMoveDecoded
<1>4. /\ l.form = "single_op" /\ l.opcode = opcode
      /\ l.rd = [sf |-> sf, n |-> rd] /\ l.operand.imm = imm
      /\ l.shift # NoShift /\ l.shift.amount = 16 * hw
  BY MovPrinted DEF NoShift
<1>5. ASSUME NEW here PROVE Assembled(l, here) = w
  <2> DEFINE u1 == WithRegister({}, REG.SF, REG.RD, l.rd)
             u2 == SetBits(u1 \cup Halves(\h1000, 0), IMM.OPI,
                           IMM_WIDE_MOVE_OPI)
             u3 == SetBits(u2, IMM.IMM16, imm)
             u4 == SetBits(u3, REG.OPC, opc)
             u5 == SetBits(u4, IMM.HW, hw)
  <2>1. Assembled(l, here) = u5
    <3>1. ((16 * hw) % 256) \div 16 = hw
      <4>1. hw = 0 \/ hw = 1 \/ hw = 2 \/ hw = 3
        BY <1>1
      <4> HIDE DEF hw
      <4>2. CASE hw = 0 BY <4>2
      <4>3. CASE hw = 1 BY <4>3
      <4>4. CASE hw = 2 BY <4>4
      <4>5. CASE hw = 3 BY <4>5
      <4>6. QED BY <4>1, <4>2, <4>3, <4>4, <4>5
    <3> HIDE DEF l, hw, imm, opc
    <3>2. Assembled(l, here) = handle_wide_move(u1, l)
      BY <1>4 DEF Assembled, assemble_single_op
    <3>3. handle_wide_move(u1, l) = u5
      BY <1>2, <1>4, <3>1 DEF handle_wide_move
    <3>4. QED BY <3>2, <3>3
  <2>2. u1 = (w \cap {31}) \cup (w \cap (0 .. 4))
    BY <1>4, PutRegister, PutSelected, Fields DEF WithRegister
  <2>3. IMM_WIDE_MOVE_OPI = SelectBits(w, IMM.OPI)
    BY ImmTests, SameMacros
       DEF WideMove, Emulated!IsWideMove, IMM, Emulated!IMM,
           Emulated!IMM_WIDE_MOVE_OPI, IMM_WIDE_MOVE_OPI
  <2>4. u2 = u1 \cup {28} \cup (w \cap (23 .. 25))
    BY <2>3, PutSelected, Fields, Constants
  <2>5. /\ u3 = u2 \cup (w \cap (5 .. 20)) /\ u4 = u3 \cup (w \cap (29 .. 30))
        /\ u5 = u4 \cup (w \cap (21 .. 22))
    BY PutSelected, Fields
  <2> HIDE DEF u1, u2, u3, u4, u5
  <2>6. 28 \in w /\ 27 \notin w /\ 26 \notin w /\ w \subseteq 0 .. 31
    BY DEF WideMove, DPImm, Word
  <2>7. u5 \subseteq w
    BY <2>2, <2>4, <2>5, <2>6
  <2>8. ASSUME NEW k \in w PROVE k \in u5
    <3>1. \/ k \in 0 .. 4 \/ k \in 5 .. 20 \/ k \in 21 .. 22
          \/ k \in 23 .. 25 \/ k = 28 \/ k \in 29 .. 30 \/ k = 31
      BY <2>6
    <3>2. QED BY <3>1, <2>2, <2>4, <2>5
  <2>9. QED BY <2>1, <2>7, <2>8
<1>6. IsLine(l) /\ Accepted(l)
  BY MovAccepted
<1> HIDE DEF l
<1>7. QED BY <1>3, <1>5, <1>6 DEF Returns

-----------------------------------------------------------------------------
\* The shift of a register instruction.
LEMMA ShiftFields ==
    ASSUME NEW w
    PROVE  /\ Emulated!OprField(w, Emulated!SHIFT) = SelectBits(w, REG_SHIFT)
           /\ Printer!OprField(w, Printer!SHIFT) = SelectBits(w, REG_SHIFT)
           /\ Printer!OprField(w, Printer!N) = SelectBits(w, REG_N)
<1>1. Emulated!SHIFT = <<1, 2>> /\ Printer!SHIFT = <<1, 2>>
  BY DEF Emulated!SHIFT, Printer!SHIFT
<1>2. Printer!N = <<0, 1>>
  BY DEF Printer!N
<1>3. /\ Emulated!OprField(w, <<1, 2>>) = SelectBits(w, <<22, 2>>)
      /\ Emulated!OprField(w, <<0, 1>>) = SelectBits(w, <<21, 1>>)
  BY OprFields
<1>4. QED BY <1>1, <1>2, <1>3, SameTests DEF REG_SHIFT, REG_N

\* A two-operand instruction as it is printed, and as it is assembled.
TwoOpText(w, opcode) ==
    [form |-> "two_op", opcode |-> opcode,
     rd |-> [sf |-> SelectBits(w, REG.SF), n |-> SelectBits(w, REG.RD)],
     rn |-> [sf |-> SelectBits(w, REG.SF), n |-> SelectBits(w, REG.RN)],
     operand |-> [sf |-> SelectBits(w, REG.SF), n |-> SelectBits(w, REG.RM)],
     shift |-> [type |-> Printer!shift_str[SelectBits(w, REG_SHIFT) + 1],
                amount |-> SelectBits(w, REG.OPERAND)]]

\* A line of two operands, as the disassembler prints it.
LEMMA TwoOpPrinted ==
    ASSUME NEW w, NEW opcode
    PROVE  Printer!PrintTwoOp(w, opcode) = TwoOpText(w, opcode)
BY SameMacros, SameFields, ShiftFields
   DEF Printer!PrintTwoOp, Printer!TwoOp, Printer!Reg, Printer!Shift, TwoOpText

\* The name printed for a shift is the one the assembler looks up.
LEMMA ShiftNames ==
    ASSUME NEW w
    PROVE  /\ Printer!shift_str[SelectBits(w, REG_SHIFT) + 1]
                 \in DOMAIN shift_value \ {"none"}
           /\ shift_value[Printer!shift_str[SelectBits(w, REG_SHIFT) + 1]]
                 = SelectBits(w, REG_SHIFT)
<1> DEFINE h == SelectBits(w, REG_SHIFT)
<1>1. h \in 0 .. 3
  BY SelectFacts, Fields
<1>2. h = 0 \/ h = 1 \/ h = 2 \/ h = 3
  BY <1>1
<1> HIDE DEF h
<1>3. /\ Printer!shift_str[h + 1] \in DOMAIN shift_value \ {"none"}
      /\ shift_value[Printer!shift_str[h + 1]] = h
  BY <1>2 DEF Printer!shift_str, shift_value
<1>4. QED BY <1>3 DEF h

\* A line of two operands that was printed is accepted.
LEMMA TwoOpTaken ==
    ASSUME NEW w, NEW opcode, is_two_op_opcode(opcode)
    PROVE  IsLine(TwoOpText(w, opcode)) /\ Accepted(TwoOpText(w, opcode))
<1> DEFINE l == TwoOpText(w, opcode)
<1>1. /\ l.form = "two_op" /\ l.opcode = opcode
      /\ l.rd = [sf |-> SelectBits(w, REG.SF), n |-> SelectBits(w, REG.RD)]
      /\ l.rn = [sf |-> SelectBits(w, REG.SF), n |-> SelectBits(w, REG.RN)]
      /\ l.operand = [sf |-> SelectBits(w, REG.SF),
                      n |-> SelectBits(w, REG.RM)]
      /\ l.shift.type \in DOMAIN shift_value \ {"none"}
      /\ l.shift.amount = SelectBits(w, REG.OPERAND)
  BY ShiftNames DEF TwoOpText
<1>2. /\ SelectBits(w, REG.SF) \in 0 .. 1 /\ SelectBits(w, REG.RD) \in 0 .. 31
      /\ SelectBits(w, REG.RN) \in 0 .. 31 /\ SelectBits(w, REG.RM) \in 0 .. 31
      /\ SelectBits(w, REG.OPERAND) \in 0 .. 63
  BY SelectFacts, Fields
<1> HIDE DEF l
<1>3. /\ l.rd \in Register /\ l.rn \in Register /\ l.operand \in Register
      /\ IsShift(l.shift)
  BY <1>1, <1>2 DEF Register, IsShift, SF32, SF64
<1>4. IsLine(l)
  BY <1>1, <1>3 DEF IsLine
<1>5. ~is_immediate(l.operand)
  BY <1>1 DEF is_immediate
<1>6. /\ IsRegister(l.rd) /\ IsRegister(l.rn) /\ IsRegister(l.operand)
      /\ l.rd.sf = l.rn.sf
  BY <1>1, <1>2 DEF IsRegister
<1>7. Accepted(l)
  BY <1>1, <1>5, <1>6
     DEF Accepted, Dispatched, OperandsAccepted, TwoOpAccepted, ShiftAccepted
<1>8. QED BY <1>4, <1>7 DEF l

\* The word of a two-operand line, of which the handler composes the bits
\* that tell the kinds of instruction apart.
LEMMA TwoOpAssembled ==
    ASSUME NEW w, NEW opcode, NEW here,
           NEW kind,
           \A u : (IF opcode \in arithmetic_opcodes
                   THEN SetBits(SetBits(u, REG.OPR, ARITHMETIC_OPR),
                                REG.OPC, arithmetic_opc[opcode])
                   ELSE SetBits(SetBits(u, REG.OPC, bit_logic_opc[opcode]),
                                REG_N, bit_logic_N[opcode]))
                  = u \cup kind
    PROVE  Assembled(TwoOpText(w, opcode), here) =
             (w \cap ((0 .. 20) \cup (22 .. 23) \cup {31}))
                \cup {25, 27} \cup kind
<1> DEFINE l == TwoOpText(w, opcode)
           amount == SelectBits(w, REG.OPERAND)
           h == SelectBits(w, REG_SHIFT)
           u1 == SetBits({}, REG.RN, get_register(l.rn))
           u2 == WithRegister(u1, REG.SF, REG.RD, l.rd)
           u3 == SetBits(u2 \cup Halves(\h0A00, 0), REG.RM,
                         get_register(l.operand))
           u4 == u3 \cup kind
           u5 == SetBits(u4, REG_SHIFT, h)
           u6 == SetBits(u5, REG.OPERAND, amount)
<1>1. /\ l.form = "two_op" /\ l.opcode = opcode
      /\ l.rd = [sf |-> SelectBits(w, REG.SF), n |-> SelectBits(w, REG.RD)]
      /\ l.rn = [sf |-> SelectBits(w, REG.SF), n |-> SelectBits(w, REG.RN)]
      /\ l.operand = [sf |-> SelectBits(w, REG.SF),
                      n |-> SelectBits(w, REG.RM)]
      /\ l.shift # NoShift /\ shift_value[l.shift.type] = h
      /\ l.shift.amount = amount
  BY ShiftNames DEF TwoOpText, NoShift
<1>2. Assembled(l, here) = u6
  <2>1. ~is_immediate(l.operand)
    BY <1>1 DEF is_immediate
  <2>2. amount % 256 = amount
    <3>1. amount \in 0 .. 63
      BY SelectFacts, Fields
    <3> HIDE DEF amount
    <3>2. QED BY <3>1
  <2> HIDE DEF l, h, amount, u1, u2, u3, u4, u5, u6
  <2>3. Assembled(l, here) = assemble_two_op(l)
    BY <1>1 DEF Assembled
  <2>4. assemble_two_op(l)
           = handle_two_op_reg(u2, opcode, l.operand, l.shift)
    BY <1>1, <2>1 DEF assemble_two_op, handle_two_op, u1, u2
  <2>5. handle_two_op_reg(u2, opcode, l.operand, l.shift)
           = handle_reg_shift(u4, l.shift)
    <3> DEFINE arithmetic(u) == SetBits(SetBits(u, REG.OPR, ARITHMETIC_OPR),
                                        REG.OPC, arithmetic_opc[opcode])
               logic(u) == SetBits(SetBits(u, REG.OPC, bit_logic_opc[opcode]),
                                   REG_N, bit_logic_N[opcode])
    <3>1. handle_two_op_reg(u2, opcode, l.operand, l.shift)
             = handle_reg_shift(IF opcode \in arithmetic_opcodes
                                THEN arithmetic(u3) ELSE logic(u3), l.shift)
      BY DEF handle_two_op_reg, u3
    <3>2. (IF opcode \in arithmetic_opcodes
           THEN arithmetic(u3) ELSE logic(u3)) = u4
      BY DEF u4
    <3>3. QED BY <3>1, <3>2
  <2>6. handle_reg_shift(u4, l.shift) = u6
    BY <1>1, <2>2 DEF handle_reg_shift, u5, u6
  <2>7. QED BY <2>3, <2>4, <2>5, <2>6
<1>3. u1 = w \cap (5 .. 9)
  BY <1>1, PutRegister, Fields
<1>4. u2 = u1 \cup (w \cap {31}) \cup (w \cap (0 .. 4))
  BY <1>1, PutRegister, PutSelected, Fields DEF WithRegister
<1>5. u3 = u2 \cup {25, 27} \cup (w \cap (16 .. 20))
  BY <1>1, PutRegister, Fields, Constants
<1>6. u5 = u4 \cup (w \cap (22 .. 23)) /\ u6 = u5 \cup (w \cap (10 .. 15))
  <2> HIDE DEF l, u1, u2, u3, u4
  <2>1. u5 = u4 \cup (w \cap (22 .. 23))
    BY PutSelected, Fields
  <2>2. u6 = u5 \cup (w \cap (10 .. 15))
    <3> HIDE DEF u5
    <3>1. QED BY PutSelected, Fields
  <2>3. QED BY <2>1, <2>2
<1>7. 0 .. 20 = (0 .. 4) \cup (5 .. 9) \cup (10 .. 15) \cup (16 .. 20)
  OBVIOUS
<1> HIDE DEF l, u1, u2, u3, u5, u6
<1>8. u6 = (w \cap ((0 .. 20) \cup (22 .. 23) \cup {31}))
              \cup {25, 27} \cup kind
  <2> DEFINE A == 0 .. 4
             B == 5 .. 9
             C == 10 .. 15
             D == 16 .. 20
             E == 22 .. 23
  <2>1. u6 = (w \cap B) \cup (w \cap {31}) \cup (w \cap A) \cup {25, 27}
                \cup (w \cap D) \cup kind \cup (w \cap E) \cup (w \cap C)
    BY <1>3, <1>4, <1>5, <1>6 DEF u4
  <2>2. 0 .. 20 = A \cup B \cup C \cup D
    BY <1>7
  <2> HIDE DEF A, B, C, D, E
  <2>3. QED BY <2>1, <2>2 DEF E
<1>9. QED BY <1>2, <1>8 DEF l

\* The three kinds of register instructions, by the bits.
RegArith(w) == /\ DPReg(w) /\ 28 \notin w /\ 24 \in w /\ 21 \notin w
               /\ ~({22, 23} \subseteq w)
RegLogic(w) == DPReg(w) /\ 28 \notin w /\ 24 \notin w
RegMultiply(w) == /\ DPReg(w) /\ 28 \in w /\ 24 \in w
                  /\ 21 \notin w /\ 22 \notin w /\ 23 \notin w

\* The bit that the arithmetic instructions have in opr.
LEMMA Eight == \A u : SetBits(u, REG.OPR, ARITHMETIC_OPR) = u \cup {24}
<1>1. ASSUME NEW u PROVE SetBits(u, REG.OPR, 8) = u \cup {24}
  <2>1. 8 % 2^4 = 8
    OBVIOUS
  <2>2. SetBits(u, REG.OPR, 8) = u \cup {21 + k : k \in Bits(8)}
    BY <2>1 DEF SetBits, REG
  <2>3. Bits(8) = {3}
    BY Ones
  <2>4. QED BY <2>2, <2>3
<1>2. QED BY <1>1 DEF ARITHMETIC_OPR

\* The tables of names of the disassembler and the tables of numbers of the
\* assembler agree.
LEMMA OpcodeNumbers ==
    ASSUME NEW opc \in 0 .. 3
    PROVE  /\ Printer!arithmetic_str[opc + 1] \in arithmetic_opcodes
           /\ arithmetic_opc[Printer!arithmetic_str[opc + 1]] = opc
           /\ \A n \in 0 .. 1 :
                LET opcode == Printer!bit_logic_str[n + 1][opc + 1]
                IN  /\ opcode \in bit_logic_opcodes
                    /\ opcode \notin arithmetic_opcodes
                    /\ bit_logic_opc[opcode] = opc /\ bit_logic_N[opcode] = n
<1>1. opc = 0 \/ opc = 1 \/ opc = 2 \/ opc = 3
  OBVIOUS
<1>2. /\ Printer!arithmetic_str[opc + 1] \in arithmetic_opcodes
      /\ arithmetic_opc[Printer!arithmetic_str[opc + 1]] = opc
  BY <1>1 DEF Printer!arithmetic_str, arithmetic_opcodes, arithmetic_opc
<1>3. ASSUME NEW n \in 0 .. 1
      PROVE  LET opcode == Printer!bit_logic_str[n + 1][opc + 1]
             IN  /\ opcode \in bit_logic_opcodes
                 /\ opcode \notin arithmetic_opcodes
                 /\ bit_logic_opc[opcode] = opc /\ bit_logic_N[opcode] = n
  <2>1. n = 0 \/ n = 1
    OBVIOUS
  <2>2. CASE n = 0
    BY <1>1, <2>2 DEF Printer!bit_logic_str, arithmetic_opcodes,
             bit_logic_opcodes, bit_logic_opc, bit_logic_N
  <2>3. CASE n = 1
    BY <1>1, <2>3 DEF Printer!bit_logic_str, arithmetic_opcodes,
             bit_logic_opcodes, bit_logic_opc, bit_logic_N
  <2>4. QED BY <2>1, <2>2, <2>3
<1>4. QED BY <1>2, <1>3

\* A data processing instruction with registers, as it is decoded and
\* printed.
LEMMA RegDecoded ==
    ASSUME NEW w, Ordinary(w), DPReg(w)
    PROVE  /\ RegArith(w) =>
                /\ Decode(w) = Emulated!DecodeArithmetic(w)
                /\ ~Printer!Unprintable(w)
                /\ \A a : Printer!disassemble_cycle(w, a)
                             = {<<Printer!handle_reg_arithmetic(w)>>}
           /\ RegLogic(w) =>
                /\ Decode(w) = Emulated!DecodeBitLogic(w)
                /\ ~Printer!Unprintable(w)
                /\ \A a : Printer!disassemble_cycle(w, a)
                             = {<<Printer!handle_bit_logic(w)>>}
           /\ RegMultiply(w) =>
                /\ Decode(w) = Emulated!DecodeMultiply(w)
                /\ ~Printer!Unprintable(w)
                /\ \A a : Printer!disassemble_cycle(w, a)
                             = {<<Printer!PrintMultiply(w)>>}
           /\ 28 \notin w /\ 24 \in w /\ 21 \notin w /\ {22, 23} \subseteq w =>
                /\ Decode(w) = [op |-> "illegal"]
                /\ Printer!Unprintable(w)
           /\ (24 \in w /\ 21 \in w) \/ (28 \in w /\ ~RegMultiply(w)) =>
                /\ Decode(w) = [op |-> "unhandled"]
                /\ ~Printer!Unprintable(w)
                /\ \A a : Printer!disassemble_cycle(w, a) = {<<>>}
<1>1. /\ Decode(w) = Emulated!DecodeDPReg(w)
      /\ Printer!Unprintable(w) <=> Emulated!InvalidShift(w)
      /\ \A a : Printer!disassemble_cycle(w, a)
                   = Printer!disassemble_dpreg_instruction(w)
  BY Dispatch
<1> DEFINE A == 28 \notin w /\ 24 \in w /\ 21 \notin w
           B == 28 \notin w /\ 24 \notin w
           M == /\ 28 \in w /\ 24 \in w
                /\ 21 \notin w /\ 22 \notin w /\ 23 \notin w
           I == A /\ 22 \in w /\ 23 \in w
<1>2. /\ Emulated!DPRegIs(w, "ARITHMETIC") <=> A
      /\ Emulated!DPRegIs(w, "BIT_LOGIC") <=> B
      /\ Emulated!DPRegIs(w, "MULTIPLY") <=> M
      /\ Emulated!InvalidShift(w) <=> I
      /\ Printer!DPRegIs(w, "ARITHMETIC") <=> A
      /\ Printer!DPRegIs(w, "BIT_LOGIC") <=> B
      /\ Printer!DPRegIs(w, "MULTIPLY") <=> M
  BY RegTests, SameTests
<1>3. ~(A /\ B) /\ ~(A /\ M) /\ ~(B /\ M) /\ (I => A)
  OBVIOUS
<1>4. /\ RegArith(w) <=> A /\ ~I
      /\ RegLogic(w) <=> B
      /\ RegMultiply(w) <=> M
      /\ (28 \notin w /\ 24 \in w /\ 21 \notin w /\ {22, 23} \subseteq w) <=> I
  BY DEF RegArith, RegLogic, RegMultiply
<1>5. (24 \in w /\ 21 \in w) \/ (28 \in w /\ ~RegMultiply(w))
         => ~A /\ ~B /\ ~M /\ ~I
  BY <1>4
<1> HIDE DEF A, B, M, I
<1>6. Emulated!DecodeDPReg(w) =
         CASE I -> [op |-> "illegal"]
           [] A /\ ~I -> Emulated!DecodeArithmetic(w)
           [] B -> Emulated!DecodeBitLogic(w)
           [] M -> Emulated!DecodeMultiply(w)
           [] OTHER -> [op |-> "unhandled"]
  BY <1>2 DEF Emulated!DecodeDPReg
<1>7. Printer!disassemble_dpreg_instruction(w) =
         CASE A -> {<<Printer!handle_reg_arithmetic(w)>>}
           [] B -> {<<Printer!handle_bit_logic(w)>>}
           [] M -> {<<Printer!PrintMultiply(w)>>}
           [] OTHER -> {<<>>}
  BY <1>2 DEF Printer!disassemble_dpreg_instruction
<1>8. ASSUME A, ~I
      PROVE  /\ Emulated!DecodeDPReg(w) = Emulated!DecodeArithmetic(w)
             /\ Printer!disassemble_dpreg_instruction(w)
                   = {<<Printer!handle_reg_arithmetic(w)>>}
  BY <1>3, <1>6, <1>7, <1>8
<1>9. ASSUME B
      PROVE  /\ Emulated!DecodeDPReg(w) = Emulated!DecodeBitLogic(w)
             /\ Printer!disassemble_dpreg_instruction(w)
                   = {<<Printer!handle_bit_logic(w)>>}
             /\ ~I
  BY <1>3, <1>6, <1>7, <1>9
<1>10. ASSUME M
       PROVE  /\ Emulated!DecodeDPReg(w) = Emulated!DecodeMultiply(w)
              /\ Printer!disassemble_dpreg_instruction(w)
                    = {<<Printer!PrintMultiply(w)>>}
              /\ ~I
  BY <1>3, <1>6, <1>7, <1>10
<1>11. ASSUME I PROVE Emulated!DecodeDPReg(w) = [op |-> "illegal"]
  BY <1>3, <1>6, <1>11
<1>12. ASSUME ~A, ~B, ~M, ~I
       PROVE  /\ Emulated!DecodeDPReg(w) = [op |-> "unhandled"]
              /\ Printer!disassemble_dpreg_instruction(w) = {<<>>}
  BY <1>6, <1>7, <1>12
<1>13. QED
  BY <1>1, <1>2, <1>4, <1>5, <1>8, <1>9, <1>10, <1>11, <1>12

\* Arithmetic with registers comes back.
LEMMA RegArithClass ==
    ASSUME NEW w \in Word, Ordinary(w), RegArith(w)
    PROVE  /\ Decode(w).op = "arith_reg" /\ ~Printer!Unprintable(w)
           /\ \A a : Returns(w, a, w)
<1> DEFINE opc == SelectBits(w, REG.OPC)
           opcode == Printer!arithmetic_str[opc + 1]
<1>1. opc \in 0 .. 3
  BY SelectFacts, Fields
<1>2. opcode \in arithmetic_opcodes /\ arithmetic_opc[opcode] = opc
  <2> HIDE DEF opc
  <2>1. QED BY <1>1, OpcodeNumbers
<1>3. DPReg(w)
  BY DEF RegArith
<1>4. Printer!handle_reg_arithmetic(w) = TwoOpText(w, opcode)
  BY TwoOpPrinted, SameMacros, SameFields DEF Printer!handle_reg_arithmetic
<1>5. Decode(w).op = "arith_reg" /\ ~Printer!Unprintable(w)
  BY <1>3, RegDecoded DEF Emulated!DecodeArithmetic
<1>6. \A a : Printer!disassemble_cycle(w, a) = {<<TwoOpText(w, opcode)>>}
  BY <1>3, <1>4, RegDecoded
<1> HIDE DEF opcode
<1>7. IsLine(TwoOpText(w, opcode)) /\ Accepted(TwoOpText(w, opcode))
  BY <1>2, TwoOpTaken DEF is_two_op_opcode
<1>8. ASSUME NEW here PROVE Assembled(TwoOpText(w, opcode), here) = w
  <2> DEFINE kind == {24} \cup (w \cap (29 .. 30))
  <2>1. ASSUME NEW u
        PROVE  SetBits(SetBits(u, REG.OPR, ARITHMETIC_OPR), REG.OPC,
                       arithmetic_opc[opcode]) = u \cup kind
    <3>1. SetBits(u \cup {24}, REG.OPC, arithmetic_opc[opcode])
             = (u \cup {24}) \cup (w \cap (29 .. 30))
      BY <1>2, PutSelected, Fields
    <3>2. QED BY <3>1, Eight
  <2>2. Assembled(TwoOpText(w, opcode), here) =
             (w \cap ((0 .. 20) \cup (22 .. 23) \cup {31}))
                \cup {25, 27} \cup kind
    <3> HIDE DEF kind
    <3>1. QED BY <1>2, <2>1, TwoOpAssembled
  <2>3. /\ 28 \notin w /\ 27 \in w /\ 26 \notin w /\ 25 \in w /\ 24 \in w
        /\ 21 \notin w /\ w \subseteq 0 .. 31
    BY DEF RegArith, DPReg, Word
  <2>4. ASSUME NEW k \in w
        PROVE  k \in (w \cap ((0 .. 20) \cup (22 .. 23) \cup {31}))
                \cup {25, 27} \cup kind
    BY <2>3
  <2>5. QED BY <2>2, <2>3, <2>4
<1>9. QED BY <1>5, <1>6, <1>7, <1>8 DEF Returns

\* The bitwise instructions come back.
LEMMA RegLogicClass ==
    ASSUME NEW w \in Word, Ordinary(w), RegLogic(w)
    PROVE  /\ Decode(w).op = "logic_reg" /\ ~Printer!Unprintable(w)
           /\ \A a : Returns(w, a, w)
<1> DEFINE opc == SelectBits(w, REG.OPC)
           n == SelectBits(w, REG_N)
           opcode == Printer!bit_logic_str[n + 1][opc + 1]
<1>1. opc \in 0 .. 3 /\ n \in 0 .. 1
  BY SelectFacts, Fields
<1>2. /\ opcode \in bit_logic_opcodes /\ opcode \notin arithmetic_opcodes
      /\ bit_logic_opc[opcode] = opc /\ bit_logic_N[opcode] = n
  <2> HIDE DEF opc, n
  <2>1. QED BY <1>1, OpcodeNumbers
<1>3. DPReg(w)
  BY DEF RegLogic
<1>4. Printer!handle_bit_logic(w) = TwoOpText(w, opcode)
  BY TwoOpPrinted, SameMacros, SameFields, ShiftFields
     DEF Printer!handle_bit_logic
<1>5. Decode(w).op = "logic_reg" /\ ~Printer!Unprintable(w)
  BY <1>3, RegDecoded DEF Emulated!DecodeBitLogic
<1>6. \A a : Printer!disassemble_cycle(w, a) = {<<TwoOpText(w, opcode)>>}
  BY <1>3, <1>4, RegDecoded
<1> HIDE DEF opcode
<1>7. IsLine(TwoOpText(w, opcode)) /\ Accepted(TwoOpText(w, opcode))
  BY <1>2, TwoOpTaken DEF is_two_op_opcode
<1>8. ASSUME NEW here PROVE Assembled(TwoOpText(w, opcode), here) = w
  <2> DEFINE kind == (w \cap (29 .. 30)) \cup (w \cap {21})
  <2>1. ASSUME NEW u
        PROVE  SetBits(SetBits(u, REG.OPC, bit_logic_opc[opcode]), REG_N,
                       bit_logic_N[opcode]) = u \cup kind
    <3>1. SetBits(u, REG.OPC, bit_logic_opc[opcode])
             = u \cup (w \cap (29 .. 30))
      BY <1>2, PutSelected, Fields
    <3>2. SetBits(u \cup (w \cap (29 .. 30)), REG_N, bit_logic_N[opcode])
             = (u \cup (w \cap (29 .. 30))) \cup (w \cap {21})
      BY <1>2, PutSelected, Fields
    <3>3. QED BY <3>1, <3>2
  <2>2. Assembled(TwoOpText(w, opcode), here) =
             (w \cap ((0 .. 20) \cup (22 .. 23) \cup {31}))
                \cup {25, 27} \cup kind
    <3> HIDE DEF kind
    <3>1. QED BY <1>2, <2>1, TwoOpAssembled
  <2>3. /\ 28 \notin w /\ 27 \in w /\ 26 \notin w /\ 25 \in w /\ 24 \notin w
        /\ w \subseteq 0 .. 31
    BY DEF RegLogic, DPReg, Word
  <2>4. ASSUME NEW k \in w
        PROVE  k \in (w \cap ((0 .. 20) \cup (22 .. 23) \cup {31}))
                \cup {25, 27} \cup kind
    BY <2>3
  <2>5. QED BY <2>2, <2>3, <2>4
<1>9. QED BY <1>5, <1>6, <1>7, <1>8 DEF Returns

\* Words that agree on a field.
LEMMA SameSelected ==
    ASSUME NEW w, NEW v, NEW f, IsField(f), w \cap Span(f) = v \cap Span(f)
    PROVE  SelectBits(w, f) = SelectBits(v, f)
<1> DEFINE o == f[1]
           s == f[2]
<1>1. o \in Nat /\ s \in Nat /\ Span(f) = o .. o + s - 1
  BY DEF IsField, Span
<1>2. ASSUME NEW k \in 0 .. s - 1 PROVE o + k \in w <=> o + k \in v
  <2>1. o + k \in Span(f)
    BY <1>1
  <2>2. QED BY <2>1
<1>3. {k \in 0 .. s - 1 : o + k \in w} = {k \in 0 .. s - 1 : o + k \in v}
  BY <1>2
<1>4. QED BY <1>3 DEF SelectBits

\* The bits of nop and of the halting word.
LEMMA SpecialBits ==
    /\ NOP_INSTRUCTION = {0, 1, 2, 3, 4, 13, 16, 17, 24, 26, 28, 30, 31}
    /\ HALT_INSTRUCTION = {25, 27, 31}
BY Constants DEF NOP_INSTRUCTION, HALT_INSTRUCTION

\* A multiplication comes back with opc cleared, two bits neither the
\* emulator nor the disassembler looks at.
LEMMA RegMultiplyClass ==
    ASSUME NEW w \in Word, Ordinary(w), RegMultiply(w)
    PROVE  /\ Decode(w).op = "multiply_reg" /\ ~Printer!Unprintable(w)
           /\ Decode(w \ {29, 30}) = Decode(w)
           /\ \A a : Returns(w, a, w \ {29, 30})
<1> DEFINE l == Printer!PrintMultiply(w)
           sf == SelectBits(w, REG.SF)
           x == SelectBits(w, REG.X)
           opcode == Printer!multiply_str[x + 1]
<1>1. DPReg(w)
  BY DEF RegMultiply
<1>2. /\ sf \in 0 .. 1 /\ x \in 0 .. 1
      /\ SelectBits(w, REG.RD) \in 0 .. 31 /\ SelectBits(w, REG.RN) \in 0 .. 31
      /\ SelectBits(w, REG.RM) \in 0 .. 31 /\ SelectBits(w, REG.RA) \in 0 .. 31
  BY SelectFacts, Fields
<1>3. opcode \in multiply_opcodes /\ multiply_x[opcode] = x
  <2>1. x = 0 \/ x = 1
    BY <1>2
  <2> HIDE DEF x
  <2>2. QED BY <2>1 DEF Printer!multiply_str, multiply_opcodes, multiply_x
<1>4. Decode(w).op = "multiply_reg" /\ ~Printer!Unprintable(w)
  BY <1>1, RegDecoded DEF Emulated!DecodeMultiply
<1>5. \A a : Printer!disassemble_cycle(w, a) = {<<l>>}
  BY <1>1, RegDecoded
<1>6. /\ l.form = "multiply" /\ l.opcode = opcode
      /\ l.rd = [sf |-> sf, n |-> SelectBits(w, REG.RD)]
      /\ l.rn = [sf |-> sf, n |-> SelectBits(w, REG.RN)]
      /\ l.rm = [sf |-> sf, n |-> SelectBits(w, REG.RM)]
      /\ l.ra = [sf |-> sf, n |-> SelectBits(w, REG.RA)]
  BY SameMacros, SameFields
     DEF Printer!PrintMultiply, Printer!Multiply, Printer!Reg
<1>7. IsLine(l) /\ Accepted(l)
  <2> HIDE DEF l, opcode, sf
  <2>1. /\ l.rd \in Register /\ l.rn \in Register /\ l.rm \in Register
        /\ l.ra \in Register
    BY <1>2, <1>6 DEF Register, SF32, SF64
  <2>2. IsLine(l)
    BY <1>6, <2>1 DEF IsLine
  <2>3. /\ IsRegister(l.rd) /\ IsRegister(l.rn) /\ IsRegister(l.rm)
        /\ IsRegister(l.ra) /\ l.rn.sf = l.rm.sf
    BY <1>2, <1>6 DEF IsRegister
  <2>4. QED
    BY <1>3, <1>6, <2>2, <2>3 DEF Accepted, Dispatched, OperandsAccepted
<1>8. /\ 28 \in w /\ 27 \in w /\ 26 \notin w /\ 25 \in w /\ 24 \in w
      /\ 21 \notin w /\ 22 \notin w /\ 23 \notin w /\ w \subseteq 0 .. 31
  BY DEF RegMultiply, DPReg, Word
<1>9. ASSUME NEW here PROVE Assembled(l, here) = w \ {29, 30}
  <2> DEFINE u1 == WithRegister({}, REG.SF, REG.RD, l.rd)
             u2 == SetBits(u1, REG.RA, get_register(l.ra))
             u3 == SetBits(u2 \cup Halves(\h1B00, 0), REG.RN,
                           get_register(l.rn))
             u4 == SetBits(u3, REG.RM, get_register(l.rm))
             u5 == SetBits(u4, REG.X, x)
  <2>1. Assembled(l, here) = u5
    <3> HIDE DEF l, opcode, x
    <3>1. QED
      BY <1>3, <1>6 DEF Assembled, assemble_multiply, handle_multiply
  <2>2. u1 = (w \cap {31}) \cup (w \cap (0 .. 4))
    BY <1>6, PutRegister, PutSelected, Fields DEF WithRegister
  <2>3. u2 = u1 \cup (w \cap (10 .. 14))
    BY <1>6, PutRegister, Fields
  <2>4. u3 = u2 \cup {24, 25, 27, 28} \cup (w \cap (5 .. 9))
    BY <1>6, PutRegister, Fields, Constants
  <2>5. u4 = u3 \cup (w \cap (16 .. 20))
    BY <1>6, PutRegister, Fields
  <2>6. u5 = u4 \cup (w \cap {15})
    <3> HIDE DEF u4
    <3>1. QED BY PutSelected, Fields
  <2> HIDE DEF u1, u2, u3, u4, u5
  <2>7. u5 \subseteq w \ {29, 30}
    BY <1>8, <2>2, <2>3, <2>4, <2>5, <2>6
  <2>8. ASSUME NEW k \in w, k # 29, k # 30 PROVE k \in u5
    <3>1. \/ k \in 0 .. 4 \/ k \in 5 .. 9 \/ k \in 10 .. 14 \/ k = 15
          \/ k \in 16 .. 20 \/ k = 24 \/ k = 25 \/ k = 27 \/ k = 28 \/ k = 31
      BY <1>8, <2>8
    <3>2. QED BY <3>1, <2>2, <2>3, <2>4, <2>5, <2>6
  <2>9. QED BY <2>1, <2>7, <2>8
<1> DEFINE v == w \ {29, 30}
<1>10. Decode(v) = Decode(w)
  <2>1. Ordinary(v)
    BY <1>8, SpecialBits DEF Ordinary
  <2>2. RegMultiply(v) /\ DPReg(v)
    BY <1>8 DEF RegMultiply, DPReg
  <2>3. /\ SelectBits(v, REG.SF) = sf /\ SelectBits(v, REG.X) = x
        /\ SelectBits(v, REG.RM) = SelectBits(w, REG.RM)
        /\ SelectBits(v, REG.RA) = SelectBits(w, REG.RA)
        /\ SelectBits(v, REG.RN) = SelectBits(w, REG.RN)
        /\ SelectBits(v, REG.RD) = SelectBits(w, REG.RD)
    BY SameSelected, Fields
  <2> HIDE DEF v
  <2>4. Decode(v) = Emulated!DecodeMultiply(v)
    BY <2>1, <2>2, RegDecoded
  <2>5. Decode(w) = Emulated!DecodeMultiply(w)
    BY <1>1, RegDecoded
  <2>6. QED
    BY <2>3, <2>4, <2>5, SameMacros, SameFields DEF Emulated!DecodeMultiply
<1> HIDE DEF l
<1>11. QED BY <1>4, <1>5, <1>7, <1>9, <1>10 DEF Returns

-----------------------------------------------------------------------------
\* The single data transfers, by the bits.
SdtUnsigned(w) == IsSdt(w) /\ 24 \in w
SdtRegister(w) == IsSdt(w) /\ 24 \notin w /\ ByRegister(w)
SdtIndex(w) == IsSdt(w) /\ 24 \notin w /\ ByIndex(w)
SdtInvalid(w) == IsSdt(w) /\ 24 \notin w /\ ~ByRegister(w) /\ ~ByIndex(w)

\* What the data transfers are decoded to.
UnsignedDecoding(w) ==
    [op |-> "sdt_uimm", sf |-> SelectBits(w, DT_SF),
     l |-> SelectBits(w, SDT.L), xn |-> SelectBits(w, SDT.XN),
     rt |-> SelectBits(w, DT_RT), offset |-> SelectBits(w, SDT.OFFSET)]
RegisterDecoding(w) ==
    [op |-> "sdt_regoffset", sf |-> SelectBits(w, DT_SF),
     l |-> SelectBits(w, SDT.L), xn |-> SelectBits(w, SDT.XN),
     rt |-> SelectBits(w, DT_RT), xm |-> SelectBits(w, SDT.XM)]
IndexDecoding(w) ==
    [op |-> IF SelectBits(w, SDT.I) = 1 THEN "sdt_preind" ELSE "sdt_postind",
     sf |-> SelectBits(w, DT_SF), l |-> SelectBits(w, SDT.L),
     xn |-> SelectBits(w, SDT.XN), rt |-> SelectBits(w, DT_RT),
     simm9 |-> SignExt(SelectBits(w, SDT.SIMM9), 9)]
LiteralDecoding(w) ==
    [op |-> "load_literal", sf |-> SelectBits(w, DT_SF),
     rt |-> SelectBits(w, DT_RT),
     simm19 |-> SignExt(SelectBits(w, DT_SIMM19), 19)]

\* A data transfer, as the emulator decodes it.
LEMMA TransferFields ==
    ASSUME NEW w, Ordinary(w), LS(w)
    PROVE  /\ SdtUnsigned(w) => Decode(w) = UnsignedDecoding(w)
           /\ SdtRegister(w) => Decode(w) = RegisterDecoding(w)
           /\ SdtIndex(w) => Decode(w) = IndexDecoding(w)
           /\ SdtInvalid(w) => Decode(w) = [op |-> "illegal"]
           /\ IsLiteral(w) => Decode(w) = LiteralDecoding(w)
           /\ ~IsSdt(w) /\ ~IsLiteral(w) => Decode(w) = [op |-> "unhandled"]
<1>1. Decode(w) = Emulated!DecodeTransfer(w)
  BY Dispatch
<1>2. /\ Emulated!TransferIs(w, "SDT") <=> IsSdt(w)
      /\ Emulated!TransferIs(w, "LOADLIT") <=> IsLiteral(w)
      /\ Emulated!UnsignedOffset(w) <=> 24 \in w
      /\ Emulated!OffsetIs(w, "REG_OFFSET") <=> 24 \notin w /\ ByRegister(w)
      /\ Emulated!OffsetIs(w, "PRE_POST") <=> 24 \notin w /\ ByIndex(w)
      /\ Emulated!InvalidSdt(w) <=> SdtInvalid(w)
  BY TransferTests DEF SdtInvalid
<1>3. ~(IsSdt(w) /\ IsLiteral(w))
  BY DEF IsSdt, IsLiteral
<1>4. ~(ByRegister(w) /\ ByIndex(w))
  BY DEF ByRegister, ByIndex
<1>5. /\ SdtUnsigned(w) => Emulated!DecodeSdt(w) = UnsignedDecoding(w)
      /\ SdtRegister(w) => Emulated!DecodeSdt(w) = RegisterDecoding(w)
      /\ SdtIndex(w) => Emulated!DecodeSdt(w) = IndexDecoding(w)
      /\ SdtInvalid(w) => Emulated!DecodeSdt(w) = [op |-> "illegal"]
  <2>1. /\ Emulated!SelectBits(w, Emulated!DT_SF) = SelectBits(w, DT_SF)
        /\ Emulated!SelectBits(w, Emulated!SDT.L) = SelectBits(w, SDT.L)
        /\ Emulated!SelectBits(w, Emulated!SDT.XN) = SelectBits(w, SDT.XN)
        /\ Emulated!SelectBits(w, Emulated!DT_RT) = SelectBits(w, DT_RT)
        /\ Emulated!SelectBits(w, Emulated!SDT.OFFSET)
              = SelectBits(w, SDT.OFFSET)
        /\ Emulated!SelectBits(w, Emulated!SDT.XM) = SelectBits(w, SDT.XM)
        /\ Emulated!SelectBits(w, Emulated!SDT.I) = SelectBits(w, SDT.I)
        /\ Emulated!SignExt(Emulated!SelectBits(w, Emulated!SDT.SIMM9), 9)
              = SignExt(SelectBits(w, SDT.SIMM9), 9)
    BY SameMacros, SameFields
  <2>2. Emulated!DecodeSdt(w) =
           CASE Emulated!UnsignedOffset(w) -> UnsignedDecoding(w)
             [] Emulated!OffsetIs(w, "REG_OFFSET") -> RegisterDecoding(w)
             [] Emulated!OffsetIs(w, "PRE_POST") -> IndexDecoding(w)
             [] Emulated!InvalidSdt(w) -> [op |-> "illegal"]
    BY <2>1 DEF Emulated!DecodeSdt, UnsignedDecoding, RegisterDecoding,
                IndexDecoding
  <2>3. QED
    BY <1>2, <1>4, <2>2 DEF SdtUnsigned, SdtRegister, SdtIndex, SdtInvalid
<1>6. Emulated!DecodeTransfer(w) =
         CASE IsSdt(w) -> Emulated!DecodeSdt(w)
           [] IsLiteral(w) -> LiteralDecoding(w)
           [] OTHER -> [op |-> "unhandled"]
  BY <1>2, SameMacros, SameFields DEF Emulated!DecodeTransfer, LiteralDecoding
<1>7. CASE IsSdt(w)
  <2>1. Decode(w) = Emulated!DecodeSdt(w)
    BY <1>1, <1>3, <1>6, <1>7
  <2>2. QED BY <1>3, <1>5, <1>7, <2>1
<1>8. CASE ~IsSdt(w)
  <2>1. Decode(w) = IF IsLiteral(w) THEN LiteralDecoding(w)
                                    ELSE [op |-> "unhandled"]
    BY <1>1, <1>6, <1>8
  <2>2. QED
    BY <1>8, <2>1 DEF SdtUnsigned, SdtRegister, SdtIndex, SdtInvalid
<1>9. QED BY <1>7, <1>8

\* The kind of a data transfer that is decoded.
LEMMA TransferDecoded ==
    ASSUME NEW w, Ordinary(w), LS(w)
    PROVE  /\ SdtUnsigned(w) =>
                /\ Decode(w).op = "sdt_uimm"
                /\ Decode(w).sf = SelectBits(w, DT_SF)
                /\ Decode(w).offset = SelectBits(w, SDT.OFFSET)
           /\ SdtRegister(w) => Decode(w).op = "sdt_regoffset"
           /\ SdtIndex(w) => Decode(w).op \in {"sdt_preind", "sdt_postind"}
           /\ SdtInvalid(w) => Decode(w) = [op |-> "illegal"]
           /\ IsLiteral(w) => Decode(w).op = "load_literal"
           /\ ~IsSdt(w) /\ ~IsLiteral(w) => Decode(w) = [op |-> "unhandled"]
<1>1. /\ UnsignedDecoding(w).op = "sdt_uimm"
      /\ UnsignedDecoding(w).sf = SelectBits(w, DT_SF)
      /\ UnsignedDecoding(w).offset = SelectBits(w, SDT.OFFSET)
  BY DEF UnsignedDecoding
<1>2. /\ RegisterDecoding(w).op = "sdt_regoffset"
      /\ IndexDecoding(w).op \in {"sdt_preind", "sdt_postind"}
      /\ LiteralDecoding(w).op = "load_literal"
  BY DEF RegisterDecoding, IndexDecoding, LiteralDecoding
<1>3. QED BY <1>1, <1>2, TransferFields

\* A data transfer, as it is printed.
LEMMA TransferPrinted ==
    ASSUME NEW w, Ordinary(w), LS(w)
    PROVE  /\ Printer!Unprintable(w) <=> SdtInvalid(w)
           /\ IsSdt(w) => \A a : Printer!disassemble_cycle(w, a)
                                    = {<<Printer!execute_sdt(w)>>}
           /\ IsLiteral(w) =>
                \A a : Printer!disassemble_cycle(w, a)
                          = {<<Printer!execute_load_literal(w, a)>>}
           /\ ~IsSdt(w) /\ ~IsLiteral(w) =>
                \A a : Printer!disassemble_cycle(w, a) = {<<>>}
<1>1. /\ Printer!Unprintable(w) <=> SdtInvalid(w)
      /\ \A a : Printer!disassemble_cycle(w, a)
                   = Printer!disassemble_transfer(w, a)
  BY Dispatch, TransferTests DEF SdtInvalid
<1>2. ~(IsSdt(w) /\ IsLiteral(w))
  BY DEF IsSdt, IsLiteral
<1>3. ASSUME NEW a
      PROVE  Printer!disassemble_transfer(w, a) =
               CASE IsSdt(w) -> {<<Printer!execute_sdt(w)>>}
                 [] IsLiteral(w) -> {<<Printer!execute_load_literal(w, a)>>}
                 [] OTHER -> {<<>>}
  BY TransferTests, SameTests DEF Printer!disassemble_transfer
<1>4. QED BY <1>1, <1>2, <1>3

\* A transfer as it is printed.
TransferText(w, mode, offset) ==
    [form |-> "transfer",
     opcode |-> IF SelectBits(w, SDT.L) = 1 THEN "ldr" ELSE "str",
     rt |-> [sf |-> SelectBits(w, DT_SF), n |-> SelectBits(w, DT_RT)],
     mode |-> mode, xn |-> [sf |-> 1, n |-> SelectBits(w, SDT.XN)],
     offset |-> offset]

\* The line of a single data transfer, by its addressing mode.
LEMMA SdtPrinted ==
    ASSUME NEW w
    PROVE  /\ SdtUnsigned(w) =>
                Printer!execute_sdt(w) =
                  TransferText(w, "unsigned",
                               [imm |-> SelectBits(w, SDT.OFFSET) * 8])
           /\ SdtRegister(w) =>
                Printer!execute_sdt(w) =
                  TransferText(w, "register",
                               [sf |-> 1, n |-> SelectBits(w, SDT.XM)])
           /\ SdtIndex(w) =>
                Printer!execute_sdt(w) =
                  TransferText(w, IF SelectBits(w, SDT.I) = 1
                                  THEN "pre" ELSE "post",
                               [imm |-> SignExt(SelectBits(w, SDT.SIMM9), 9)])
<1>1. /\ Printer!UnsignedOffset(w) <=> 24 \in w
      /\ Printer!OffsetIs(w, "REG_OFFSET") <=> 24 \notin w /\ ByRegister(w)
      /\ Printer!OffsetIs(w, "PRE_POST") <=> 24 \notin w /\ ByIndex(w)
  BY TransferTests, SameTests
<1>2. ~(ByRegister(w) /\ ByIndex(w))
  BY DEF ByRegister, ByIndex
<1>3. /\ SelectBits(w, SDT.OFFSET)
            = Printer!SelectBits(w, Printer!SDT.OFFSET)
      /\ SelectBits(w, SDT.L) = Printer!SelectBits(w, Printer!SDT.L)
      /\ SelectBits(w, SDT.XN) = Printer!SelectBits(w, Printer!SDT.XN)
      /\ SelectBits(w, SDT.XM) = Printer!SelectBits(w, Printer!SDT.XM)
      /\ SelectBits(w, SDT.I) = Printer!SelectBits(w, Printer!SDT.I)
      /\ SelectBits(w, DT_SF) = Printer!SelectBits(w, Printer!DT_SF)
      /\ SelectBits(w, DT_RT) = Printer!SelectBits(w, Printer!DT_RT)
      /\ SignExt(SelectBits(w, SDT.SIMM9), 9)
            = Printer!SignExt(Printer!SelectBits(w, Printer!SDT.SIMM9), 9)
  BY SameMacros, SameFields
<1>4. ASSUME NEW mode, NEW offset
      PROVE  Printer!Transfer(
                IF Printer!SelectBits(w, Printer!SDT.L) = 1
                THEN "ldr" ELSE "str",
                Printer!Reg(Printer!SelectBits(w, Printer!DT_SF),
                            Printer!SelectBits(w, Printer!DT_RT)),
                mode, Printer!X(Printer!SelectBits(w, Printer!SDT.XN)), offset)
             = TransferText(w, mode, offset)
  BY <1>3 DEF Printer!Transfer, Printer!Reg, Printer!X, Printer!SF64,
              TransferText
<1>5. ASSUME SdtUnsigned(w)
      PROVE  Printer!execute_sdt(w) =
               TransferText(w, "unsigned",
                            [imm |-> SelectBits(w, SDT.OFFSET) * 8])
  <2>1. /\ Printer!UnsignedOffset(w) /\ ~Printer!OffsetIs(w, "REG_OFFSET")
        /\ ~Printer!OffsetIs(w, "PRE_POST")
    BY <1>1, <1>5 DEF SdtUnsigned
  <2>2. Printer!Imm(Printer!SelectBits(w, Printer!SDT.OFFSET) * 8)
           = [imm |-> SelectBits(w, SDT.OFFSET) * 8]
    BY <1>3 DEF Printer!Imm
  <2>3. QED BY <1>4, <2>1, <2>2 DEF Printer!execute_sdt, Printer!PrintSdt
<1>6. ASSUME SdtRegister(w)
      PROVE  Printer!execute_sdt(w) =
               TransferText(w, "register",
                            [sf |-> 1, n |-> SelectBits(w, SDT.XM)])
  <2>1. /\ ~Printer!UnsignedOffset(w) /\ Printer!OffsetIs(w, "REG_OFFSET")
        /\ ~Printer!OffsetIs(w, "PRE_POST")
    BY <1>1, <1>2, <1>6 DEF SdtRegister
  <2>2. Printer!X(Printer!SelectBits(w, Printer!SDT.XM))
           = [sf |-> 1, n |-> SelectBits(w, SDT.XM)]
    BY <1>3 DEF Printer!X, Printer!SF64
  <2>3. QED BY <1>4, <2>1, <2>2 DEF Printer!execute_sdt, Printer!PrintSdt
<1>7. ASSUME SdtIndex(w)
      PROVE  Printer!execute_sdt(w) =
               TransferText(w, IF SelectBits(w, SDT.I) = 1
                               THEN "pre" ELSE "post",
                            [imm |-> SignExt(SelectBits(w, SDT.SIMM9), 9)])
  <2>1. /\ ~Printer!UnsignedOffset(w) /\ ~Printer!OffsetIs(w, "REG_OFFSET")
        /\ Printer!OffsetIs(w, "PRE_POST")
    BY <1>1, <1>2, <1>7 DEF SdtIndex
  <2>2. Printer!Imm(Printer!SignExt(
                       Printer!SelectBits(w, Printer!SDT.SIMM9), 9))
           = [imm |-> SignExt(SelectBits(w, SDT.SIMM9), 9)]
    BY <1>3 DEF Printer!Imm
  <2>3. QED
    BY <1>3, <1>4, <2>1, <2>2 DEF Printer!execute_sdt, Printer!PrintSdt
<1>8. QED BY <1>5, <1>6, <1>7

-----------------------------------------------------------------------------
\* A value below the limit of an empty field is selected from it again.
LEMMA PutSelects ==
    ASSUME NEW u, NEW f, IsField(f), NEW v \in Nat, v < Limit(f),
           u \cap Span(f) = {}
    PROVE  SelectBits(SetBits(u, f, v), f) = v
<1> DEFINE o == f[1]
           s == f[2]
           B == Bits(v)
           T == u \cup {o + k : k \in B}
<1>1. o \in Nat /\ s \in 0 .. 31 /\ Span(f) = o .. o + s - 1
  BY DEF IsField, Span
<1>2. v % Limit(f) = v
  BY LimitType
<1>3. SetBits(u, f, v) = T
  BY <1>2 DEF SetBits, Limit
<1>4. B \subseteq 0 .. s - 1
  <2>1. v \in 0 .. 2^s - 1
    BY LimitType DEF Limit
  <2> HIDE DEF s
  <2>2. PICK S \in SUBSET (0 .. s - 1) : Number(S) = v
    BY <1>1, <2>1, NumberOnto
  <2>3. Bits(v) = S
    BY <1>1, <2>2, BitsOfNumber
  <2>4. QED BY <2>3
<1>5. {k \in 0 .. s - 1 : o + k \in T} = B
  <2> HIDE DEF o, s, B
  <2>1. ASSUME NEW k \in 0 .. s - 1, o + k \in T PROVE k \in B
    <3>1. o + k \in Span(f)
      BY <1>1
    <3>2. PICK j \in B : o + k = o + j
      BY <2>1, <3>1
    <3>3. j = k
      BY <1>1, <1>4, <3>2
    <3>4. QED BY <3>3
  <2>2. ASSUME NEW k \in B PROVE k \in 0 .. s - 1 /\ o + k \in T
    BY <1>4
  <2>3. QED BY <2>1, <2>2
<1>6. Selected(T, f) = B
  BY <1>5 DEF Selected
<1>7. QED BY <1>3, <1>6, FieldIs

\* The word of a transfer before its offset is put in.
LEMMA TransferAssembled ==
    ASSUME NEW w, NEW mode, NEW offset, mode # "other",
           NEW l, l = TransferText(w, mode, offset)
    PROVE  /\ l.form = "transfer" /\ l.mode = mode /\ l.offset = offset
           /\ l.rt \in Register /\ IsRegister(l.rt)
           /\ l.rt.sf = SelectBits(w, DT_SF)
           /\ l.xn \in Register /\ IsXRegister(l.xn) /\ Dispatched(l)
           /\ \A here : Assembled(l, here)
                           = AddressingMode(w \cap ((0 .. 9) \cup {22, 30}), l)
<1>1. /\ l.form = "transfer" /\ l.mode = mode /\ l.offset = offset
      /\ l.rt = [sf |-> SelectBits(w, DT_SF), n |-> SelectBits(w, DT_RT)]
      /\ l.xn = [sf |-> 1, n |-> SelectBits(w, SDT.XN)]
      /\ l.opcode = IF SelectBits(w, SDT.L) = 1 THEN "ldr" ELSE "str"
  BY DEF TransferText
<1>2. /\ SelectBits(w, DT_SF) \in 0 .. 1 /\ SelectBits(w, DT_RT) \in 0 .. 31
      /\ SelectBits(w, SDT.XN) \in 0 .. 31 /\ SelectBits(w, SDT.L) \in 0 .. 1
  BY SelectFacts, Fields
<1>3. /\ l.rt \in Register /\ IsRegister(l.rt) /\ l.xn \in Register
      /\ IsXRegister(l.xn)
  BY <1>1, <1>2 DEF Register, IsRegister, IsXRegister, SF32, SF64
<1>4. Dispatched(l)
  BY <1>1 DEF Dispatched, load_store_opcodes
<1>5. ASSUME NEW here
      PROVE  Assembled(l, here)
                = AddressingMode(w \cap ((0 .. 9) \cup {22, 30}), l)
  <2> DEFINE bit == IF l.opcode = "ldr" THEN 1 ELSE 0
             u1 == WithRegister({}, DT_SF, DT_RT, l.rt)
             u2 == SetBits(u1, SDT.L, bit)
             u3 == SetBits(u2, SDT.XN, get_register(l.xn))
  <2>1. bit = SelectBits(w, SDT.L)
    BY <1>1, <1>2
  <2>2. u1 = (w \cap {30}) \cup (w \cap (0 .. 4))
    BY <1>1, PutRegister, PutSelected, Fields DEF WithRegister
  <2>3. u2 = u1 \cup (w \cap {22})
    <3> HIDE DEF bit
    <3>1. QED BY <2>1, PutSelected, Fields
  <2>4. u3 = u2 \cup (w \cap (5 .. 9))
    BY <1>1, PutRegister, Fields
  <2>5. Assembled(l, here) = AddressingMode(u3, l)
    BY <1>1 DEF Assembled, assemble_load_store
  <2> HIDE DEF u1, u2, u3
  <2>6. 0 .. 9 = (0 .. 4) \cup (5 .. 9)
    OBVIOUS
  <2>7. u3 = w \cap ((0 .. 9) \cup {22, 30})
    BY <2>2, <2>3, <2>4, <2>6
  <2>8. QED BY <2>5, <2>7
<1>6. QED BY <1>1, <1>3, <1>4, <1>5

\* A transfer with an unsigned offset: the disassembler prints eight times
\* the field whatever the size, so one of a 32-bit register comes back as
\* another word, or is refused when the offset is too large.
LEMMA UnsignedClass ==
    ASSUME NEW w \in Word, Ordinary(w), SdtUnsigned(w)
    PROVE  LET n == SelectBits(w, SDT.OFFSET)
           IN  /\ SelectBits(w, DT_SF) = 1 \/ n = 0 => \A a : Returns(w, a, w)
               /\ SelectBits(w, DT_SF) # 1 /\ n # 0 =>
                    \A a : \A lines \in Printer!disassemble_cycle(w, a) :
                        \E l : /\ IsLine(l) /\ lines = <<l>>
                               /\ Accepted(l) <=> n <= 2047
                               /\ Accepted(l) => Assembled(l, a) # w
<1> DEFINE n == SelectBits(w, SDT.OFFSET)
           sf == SelectBits(w, DT_SF)
           l == TransferText(w, "unsigned", [imm |-> n * 8])
           u == w \cap ((0 .. 9) \cup {22, 30})
           scale == IF sf = 1 THEN 8 ELSE 4
<1>1. LS(w) /\ IsSdt(w)
  BY DEF SdtUnsigned, IsSdt, LS
<1>2. \A a : Printer!disassemble_cycle(w, a) = {<<l>>}
  BY <1>1, SdtPrinted, TransferPrinted
<1>3. n \in 0 .. 4095 /\ sf \in 0 .. 1
  BY SelectFacts, Fields, SMTT(30)
<1>4. /\ l.form = "transfer" /\ l.mode = "unsigned" /\ l.offset = [imm |-> n * 8]
      /\ l.rt \in Register /\ IsRegister(l.rt) /\ l.rt.sf = sf
      /\ l.xn \in Register /\ IsXRegister(l.xn) /\ Dispatched(l)
      /\ \A here : Assembled(l, here) = AddressingMode(u, l)
  <2> DEFINE offset == [imm |-> n * 8]
             mode == "unsigned"
  <2>1. /\ l = TransferText(w, mode, offset) /\ mode # "other"
        /\ u = w \cap ((0 .. 9) \cup {22, 30}) /\ sf = SelectBits(w, DT_SF)
    OBVIOUS
  <2> HIDE DEF l, offset, mode, u, n, sf, scale
  <2>2. /\ l.form = "transfer" /\ l.mode = mode /\ l.offset = offset
        /\ l.rt \in Register /\ IsRegister(l.rt)
        /\ l.rt.sf = SelectBits(w, DT_SF)
        /\ l.xn \in Register /\ IsXRegister(l.xn) /\ Dispatched(l)
        /\ \A here : Assembled(l, here)
                        = AddressingMode(w \cap ((0 .. 9) \cup {22, 30}), l)
    BY <2>1, TransferAssembled
  <2>3. QED BY <2>1, <2>2 DEF offset, mode
<1> HIDE DEF l
<1>5. IsLine(l)
  <2>1. n * 8 \in Int
    <3> HIDE DEF n
    <3>1. QED BY <1>3
  <2>2. l.offset \in Immediate
    <3> HIDE DEF n
    <3>1. QED BY <1>4, <2>1 DEF Immediate
  <2>3. QED BY <1>4, <2>2 DEF IsLine
<1>6. Scale(l.rt) = scale
  BY <1>4 DEF Scale, SF64
<1>13. scale = IF sf = 1 THEN 8 ELSE 4
  OBVIOUS
<1>14. /\ IsUimm12(n * 8, scale) <=> sf = 1 \/ n <= 2047
       /\ (n * 8) \div scale = IF sf = 1 THEN n ELSE 2 * n
  <2> HIDE DEF n, sf, scale
  <2>1. CASE sf = 1
    <3>1. scale = 8 /\ (n * 8) % 8 = 0 /\ (n * 8) \div 8 = n /\ n * 8 >= 0
      BY <1>3, <1>13, <2>1
    <3>2. QED BY <1>3, <2>1, <3>1 DEF IsUimm12
  <2>2. CASE sf = 0
    <3>1. /\ scale = 4 /\ (n * 8) % 4 = 0 /\ (n * 8) \div 4 = 2 * n
          /\ n * 8 >= 0
      BY <1>3, <1>13, <2>2
    <3>2. QED BY <1>3, <2>2, <3>1 DEF IsUimm12
  <2>3. QED BY <1>3, <2>1, <2>2
<1>7. Accepted(l) <=> IsUimm12(n * 8, scale)
  BY <1>4, <1>6 DEF Accepted, OperandsAccepted, TransferAccepted
<1>8. Accepted(l) <=> (sf = 1 \/ n <= 2047)
  <2> HIDE DEF n, sf, scale
  <2>1. QED BY <1>7, <1>14
<1> DEFINE m == (n * 8) \div scale
           u1 == u \cup {27, 28, 29, 31} \cup {24}
<1>9. \A here : Assembled(l, here) = SetBits(u1, SDT.OFFSET, m)
  <2>1. SetBits(u \cup Halves(\hB800, 0), SDT.U, 1) = u1
    <3>1. SelectBits(w, SDT.U) = 1
      <4>1. 24 \in w /\ SDT.U[1] = 24 /\ SDT.U[2] = 1
        BY DEF SdtUnsigned, SDT
      <4>2. QED BY <4>1, OneBit
    <3>2. w \cap Span(SDT.U) = {24}
      BY Fields DEF SdtUnsigned
    <3> HIDE DEF u
    <3>3. SetBits(u \cup {27, 28, 29, 31}, SDT.U, 1) = u1
      BY <3>1, <3>2, PutSelected, Fields
    <3>4. QED BY <3>3, Constants
  <2> HIDE DEF u, n, scale, u1
  <2>2. AddressingMode(u, l) = SetBits(u1, SDT.OFFSET, m)
    <3>1. (l.offset.imm) \div Scale(l.rt) = m
      BY <1>4, <1>6
    <3> HIDE DEF m
    <3>2. QED BY <1>4, <2>1, <3>1 DEF AddressingMode
  <2>3. QED BY <1>4, <2>2
<1>10. ASSUME sf = 1 \/ n = 0 PROVE \A here : Assembled(l, here) = w
  <2>1. m = n
    <3> HIDE DEF n, sf, scale
    <3>1. QED BY <1>3, <1>10, <1>14
  <2>2. SetBits(u1, SDT.OFFSET, m) = u1 \cup (w \cap (10 .. 21))
    <3> HIDE DEF u1, m
    <3>1. QED BY <2>1, PutSelected, Fields
  <2>3. u1 \cup (w \cap (10 .. 21)) = w
    <3>1. /\ {27, 28, 29, 31, 24} \subseteq w /\ 23 \notin w /\ 25 \notin w
          /\ 26 \notin w /\ w \subseteq 0 .. 31
      BY <1>1 DEF IsSdt, SdtUnsigned, Word
    <3>2. u1 \cup (w \cap (10 .. 21)) \subseteq w
      BY <3>1
    <3>3. ASSUME NEW k \in w PROVE k \in u1 \cup (w \cap (10 .. 21))
      <4>1. \/ k \in 0 .. 9 \/ k \in 10 .. 21 \/ k = 22 \/ k = 24
            \/ k = 27 \/ k = 28 \/ k = 29 \/ k = 30 \/ k = 31
        BY <3>1
      <4>2. QED BY <4>1
    <3>4. QED BY <3>2, <3>3
  <2>4. QED BY <1>9, <2>2, <2>3
<1>11. ASSUME sf # 1, n # 0, n <= 2047
       PROVE  \A here : Assembled(l, here) # w
  <2>1. m \in Nat /\ m < 4096 /\ m # n
    <3> HIDE DEF n, sf, scale
    <3>1. QED BY <1>3, <1>11, <1>14
  <2>2. u1 \cap Span(SDT.OFFSET) = {}
    BY Fields
  <2>3. SelectBits(SetBits(u1, SDT.OFFSET, m), SDT.OFFSET) = m
    <3> HIDE DEF u1, m
    <3>1. QED BY <2>1, <2>2, PutSelects, Fields
  <2> HIDE DEF m, u1
  <2>4. QED BY <1>9, <2>1, <2>3
<1>12. QED
  <2> HIDE DEF n, sf
  <2>1. sf = 1 \/ n = 0 => \A a : Returns(w, a, w)
    BY <1>2, <1>3, <1>5, <1>8, <1>10 DEF Returns
  <2>2. sf # 1 /\ n # 0 =>
          \A a : \A lines \in Printer!disassemble_cycle(w, a) :
              \E k : /\ IsLine(k) /\ lines = <<k>>
                     /\ Accepted(k) <=> n <= 2047
                     /\ Accepted(k) => Assembled(k, a) # w
    BY <1>2, <1>5, <1>8, <1>11
  <2>3. QED BY <2>1, <2>2 DEF n, sf

\* A field read with its sign is put back as it was.
LEMMA SignFolds ==
    ASSUME NEW f, IsField(f), NEW n \in Nat, n < Limit(f), NEW size,
           size = f[2]
    PROVE  SignExt(n, size) \in Int /\ SignExt(n, size) % Limit(f) = n
<1> DEFINE p == Limit(f)
           s == SignExt(n, size)
<1>1. p \in Nat \ {0} /\ p = 2^size
  BY LimitType DEF Limit
<1>2. s = n \/ s = n - p
  BY <1>1 DEF SignExt
<1> HIDE DEF p, s
<1>3. n % p = n
  BY <1>1 DEF p
<1>4. n - p = n + p * (-1)
  BY <1>1
<1>5. (n + p * (-1)) % p = n % p
  BY <1>1, ModShift
<1>6. s \in Int /\ s % p = n
  BY <1>1, <1>2, <1>3, <1>4, <1>5
<1>7. QED BY <1>6 DEF p, s

\* A transfer with a register as its offset comes back.
LEMMA RegisterClass ==
    ASSUME NEW w \in Word, Ordinary(w), SdtRegister(w)
    PROVE  \A a : Returns(w, a, w)
<1> DEFINE n == SelectBits(w, SDT.XM)
           l == TransferText(w, "register", [sf |-> 1, n |-> n])
           u == w \cap ((0 .. 9) \cup {22, 30})
           u1 == u \cup {21, 27, 28, 29, 31, 11, 13, 14}
<1>1. LS(w) /\ IsSdt(w)
  BY DEF SdtRegister, IsSdt, LS
<1>2. \A a : Printer!disassemble_cycle(w, a) = {<<l>>}
  BY <1>1, SdtPrinted, TransferPrinted
<1>3. n \in 0 .. 31
  BY SelectFacts, Fields
<1>4. /\ l.form = "transfer" /\ l.mode = "register"
      /\ l.offset = [sf |-> 1, n |-> n]
      /\ l.rt \in Register /\ IsRegister(l.rt)
      /\ l.xn \in Register /\ IsXRegister(l.xn) /\ Dispatched(l)
      /\ \A here : Assembled(l, here) = AddressingMode(u, l)
  <2> DEFINE off == [sf |-> 1, n |-> n]
             mode == "register"
  <2>1. l = TransferText(w, mode, off) /\ mode # "other"
    OBVIOUS
  <2> HIDE DEF off, l, mode
  <2>2. /\ l.form = "transfer" /\ l.mode = mode /\ l.offset = off
        /\ l.rt \in Register /\ IsRegister(l.rt)
        /\ l.xn \in Register /\ IsXRegister(l.xn) /\ Dispatched(l)
        /\ \A here : Assembled(l, here) = AddressingMode(u, l)
    BY <2>1, TransferAssembled
  <2>3. QED BY <2>2 DEF off, mode
<1> HIDE DEF l
<1>5. l.offset \in Register /\ IsXRegister(l.offset)
  <2> HIDE DEF n
  <2>1. QED BY <1>3, <1>4 DEF Register, IsXRegister, IsRegister, SF32, SF64
<1>6. IsLine(l)
  BY <1>4, <1>5 DEF IsLine
<1>7. Accepted(l)
  BY <1>4, <1>5 DEF Accepted, OperandsAccepted, TransferAccepted
<1>8. AddressingMode(u, l) = u1 \cup (w \cap (16 .. 20))
  <2>1. SetBits(u1, SDT.XM, get_register(l.offset))
           = u1 \cup (w \cap (16 .. 20))
    <3>1. l.offset.n = n
      BY <1>4
    <3> HIDE DEF u1
    <3>2. QED BY <3>1, PutRegister, Fields
  <2> HIDE DEF u
  <2>2. AddressingMode(u, l) = SetBits(u1, SDT.XM, get_register(l.offset))
    <3>1. AddressingMode(u, l) =
             SetBits(u \cup Halves(\hB820, \h6800), SDT.XM,
                     get_register(l.offset))
      BY <1>4 DEF AddressingMode
    <3>2. QED BY <3>1, Constants, SMTT(30)
  <2>3. QED BY <2>1, <2>2
<1>9. u1 \cup (w \cap (16 .. 20)) = w
  <2>1. /\ {21, 27, 28, 29, 31, 11, 13, 14} \subseteq w
        /\ 10 \notin w /\ 12 \notin w /\ 15 \notin w /\ 23 \notin w
        /\ 24 \notin w /\ 25 \notin w /\ 26 \notin w /\ w \subseteq 0 .. 31
    BY <1>1 DEF IsSdt, SdtRegister, ByRegister, Word
  <2>2. u1 \cup (w \cap (16 .. 20)) \subseteq w
    BY <2>1
  <2>3. ASSUME NEW k \in w PROVE k \in u1 \cup (w \cap (16 .. 20))
    <3>1. \/ k \in 0 .. 9 \/ k = 11 \/ k = 13 \/ k = 14 \/ k \in 16 .. 20
          \/ k = 21 \/ k = 22 \/ k = 27 \/ k = 28 \/ k = 29 \/ k = 30 \/ k = 31
      BY <2>1
    <3>2. QED BY <3>1
  <2>4. QED BY <2>2, <2>3
<1>10. QED
  <2> HIDE DEF u, u1
  <2>1. QED BY <1>2, <1>4, <1>6, <1>7, <1>8, <1>9 DEF Returns

\* A pre- or post-indexed transfer comes back.
LEMMA IndexClass ==
    ASSUME NEW w \in Word, Ordinary(w), SdtIndex(w)
    PROVE  \A a : Returns(w, a, w)
<1> DEFINE n == SelectBits(w, SDT.SIMM9)
           i == SelectBits(w, SDT.I)
           s == SignExt(n, 9)
           mode == IF i = 1 THEN "pre" ELSE "post"
           l == TransferText(w, mode, [imm |-> s])
           u == w \cap ((0 .. 9) \cup {22, 30})
           u1 == u \cup {27, 28, 29, 31, 10}
           u2 == u1 \cup (w \cap {11})
<1>1. LS(w) /\ IsSdt(w)
  BY DEF SdtIndex, IsSdt, LS
<1>2. \A a : Printer!disassemble_cycle(w, a) = {<<l>>}
  BY <1>1, SdtPrinted, TransferPrinted
<1>3. n \in Nat /\ n < Limit(SDT.SIMM9) /\ i \in 0 .. 1
  BY SelectFacts, Fields
<1>4. s \in Int /\ s % Limit(SDT.SIMM9) = n
  <2>1. SDT.SIMM9[2] = 9
    BY DEF SDT
  <2> HIDE DEF n
  <2>2. QED BY <1>3, <2>1, SignFolds, Fields
<1>5. IsSimm9(s)
  <2>1. n \in 0 .. 511 /\ 2^(9 - 1) = 256 /\ 2^9 = 512
    BY <1>3, Fields
  <2> HIDE DEF n
  <2>2. QED BY <2>1 DEF SignExt, IsSimm9
<1>6. /\ l.form = "transfer" /\ l.mode = mode /\ l.offset = [imm |-> s]
      /\ l.rt \in Register /\ IsRegister(l.rt)
      /\ l.xn \in Register /\ IsXRegister(l.xn) /\ Dispatched(l)
      /\ \A here : Assembled(l, here) = AddressingMode(u, l)
  <2>1. mode # "other"
    OBVIOUS
  <2> HIDE DEF mode, s
  <2>2. QED BY <2>1, TransferAssembled
<1> HIDE DEF l, s
<1>7. l.offset \in Immediate /\ l.offset.imm = s
  BY <1>4, <1>6 DEF Immediate
<1>8. IsLine(l)
  BY <1>6, <1>7 DEF IsLine
<1>9. Accepted(l)
  BY <1>5, <1>6, <1>7 DEF Accepted, OperandsAccepted, TransferAccepted
<1>10. AddressingMode(u, l) = u2 \cup (w \cap (12 .. 20))
  <2>1. SetBits(u1, SDT.I, i) = u2
    <3> HIDE DEF u1
    <3>1. QED BY PutSelected, Fields
  <2>2. SetBits(u2, SDT.SIMM9, s) = u2 \cup (w \cap (12 .. 20))
    <3> HIDE DEF u2
    <3>1. QED BY <1>4, PutBack, Fields
  <2>3. AddressingMode(u, l) = IndexWord(u, l, i)
    <3> HIDE DEF i, u
    <3>1. i = 0 \/ i = 1
      BY <1>3
    <3>2. QED BY <1>6, <3>1 DEF AddressingMode
  <2>4. IndexWord(u, l, i) = SetBits(SetBits(u1, SDT.I, i), SDT.SIMM9, s)
    <3> HIDE DEF u, i
    <3>1. IndexWord(u, l, i) =
             SetBits(SetBits(u \cup Halves(\hB800, \h0400), SDT.I, i),
                     SDT.SIMM9, s)
      BY <1>7 DEF IndexWord
    <3>2. Halves(\hB800, \h0400) = {27, 28, 29, 31, 10}
      BY Constants
    <3>3. QED BY <3>1, <3>2
  <2> HIDE DEF u, u1, u2, i
  <2>5. QED BY <2>1, <2>2, <2>3, <2>4
<1>11. u2 \cup (w \cap (12 .. 20)) = w
  <2>1. /\ {27, 28, 29, 31, 10} \subseteq w
        /\ 21 \notin w /\ 23 \notin w
        /\ 24 \notin w /\ 25 \notin w /\ 26 \notin w /\ w \subseteq 0 .. 31
    BY <1>1 DEF IsSdt, SdtIndex, ByIndex, Word
  <2>2. u2 \cup (w \cap (12 .. 20)) \subseteq w
    BY <2>1
  <2>3. ASSUME NEW k \in w PROVE k \in u2 \cup (w \cap (12 .. 20))
    <3>1. \/ k \in 0 .. 9 \/ k = 10 \/ k = 11 \/ k \in 12 .. 20
          \/ k = 22 \/ k = 27 \/ k = 28 \/ k = 29 \/ k = 30 \/ k = 31
      BY <2>1
    <3>2. QED BY <3>1
  <2>4. QED BY <2>2, <2>3
<1>12. QED
  <2> HIDE DEF u, u1, u2
  <2>1. QED BY <1>2, <1>6, <1>8, <1>9, <1>10, <1>11 DEF Returns

\* The assembler takes the offset of a target from the address that the
\* disassembler added to it.
LEMMA OffsetBack ==
    ASSUME NEW a \in Nat, NEW s \in Int, NEW t \in Int, t = a + s * 4
    PROVE  WordOffset(t, a) = s
<1>1. t - a = 4 * s
  OBVIOUS
<1>2. (4 * s) \div 4 = s
  OBVIOUS
<1>3. WordOffset(t, a) = (t - a) \div 4
  BY DEF WordOffset
<1>4. QED BY <1>1, <1>2, <1>3

\* A load from a literal comes back, at every address.
LEMMA LiteralClass ==
    ASSUME NEW w \in Word, Ordinary(w), IsLiteral(w)
    PROVE  \A a \in Nat : Returns(w, a, w)
<1> SUFFICES ASSUME NEW a \in Nat PROVE Returns(w, a, w)
  OBVIOUS
<1> DEFINE n == SelectBits(w, DT_SIMM19)
           s == SignExt(n, 19)
           l == Printer!execute_load_literal(w, a)
           u == {27, 28} \cup (w \cap {30}) \cup (w \cap (0 .. 4))
<1>1. LS(w)
  BY DEF IsLiteral, LS
<1>2. Printer!disassemble_cycle(w, a) = {<<l>>}
  BY <1>1, TransferPrinted
<1>3. n \in Nat /\ n < Limit(DT_SIMM19)
  BY SelectFacts, Fields
<1>4. s \in Int /\ s % Limit(DT_SIMM19) = n
  <2>1. DT_SIMM19[2] = 19
    BY DEF DT_SIMM19
  <2> HIDE DEF n
  <2>2. QED BY <1>3, <2>1, SignFolds, Fields
<1>5. /\ l.form = "literal" /\ l.opcode = "ldr"
      /\ l.rt = [sf |-> SelectBits(w, DT_SF), n |-> SelectBits(w, DT_RT)]
      /\ l.address = a + s * 4
  BY SameMacros, SameFields
     DEF Printer!execute_load_literal, Printer!Literal, Printer!Reg
<1>6. l.rt \in Register /\ IsRegister(l.rt)
  <2>1. SelectBits(w, DT_SF) \in 0 .. 1 /\ SelectBits(w, DT_RT) \in 0 .. 31
    BY SelectFacts, Fields
  <2> HIDE DEF l
  <2>2. QED BY <1>5, <2>1 DEF Register, IsRegister, SF32, SF64
<1> HIDE DEF l, s
<1>7. IsLine(l)
  <2>1. l.address \in Int
    BY <1>4, <1>5
  <2>2. QED BY <1>5, <1>6, <2>1 DEF IsLine
<1>8. Accepted(l)
  BY <1>5, <1>6
     DEF Accepted, Dispatched, OperandsAccepted, load_store_opcodes
<1>9. Assembled(l, a) = w
  <2>1. WordOffset(l.address, a) = s
    <3>1. l.address \in Int
      BY <1>4, <1>5
    <3>2. QED BY <1>4, <1>5, <3>1, OffsetBack
  <2>2. WithRegister(Halves(\h1800, 0), DT_SF, DT_RT, l.rt) = u
    <3>1. SetBits({27, 28}, DT_SF, l.rt.sf) = {27, 28} \cup (w \cap {30})
      BY <1>5, PutSelected, Fields
    <3>2. SetBits({27, 28} \cup (w \cap {30}), DT_RT, get_register(l.rt)) = u
      BY <1>5, PutRegister, Fields
    <3>3. Halves(\h1800, 0) = {27, 28}
      BY Constants
    <3>4. QED BY <3>1, <3>2, <3>3 DEF WithRegister
  <2>3. SetBits(u, DT_SIMM19, s) = u \cup (w \cap (5 .. 23))
    <3> HIDE DEF u
    <3>1. QED BY <1>4, PutBack, Fields
  <2>4. Assembled(l, a) = SetBits(u, DT_SIMM19, s)
    <3> HIDE DEF u
    <3>1. QED BY <1>5, <2>1, <2>2 DEF Assembled, assemble_load_literal
  <2>5. u \cup (w \cap (5 .. 23)) = w
    <3>1. /\ {27, 28} \subseteq w /\ 24 \notin w /\ 25 \notin w
          /\ 26 \notin w /\ 29 \notin w /\ 31 \notin w /\ w \subseteq 0 .. 31
      BY DEF IsLiteral, Word
    <3>2. u \cup (w \cap (5 .. 23)) \subseteq w
      BY <3>1
    <3>3. ASSUME NEW k \in w PROVE k \in u \cup (w \cap (5 .. 23))
      <4>1. k \in 0 .. 4 \/ k \in 5 .. 23 \/ k = 27 \/ k = 28 \/ k = 30
        BY <3>1
      <4>2. QED BY <4>1
    <3>4. QED BY <3>2, <3>3
  <2> HIDE DEF u
  <2>6. QED BY <2>3, <2>4, <2>5
<1>10. QED BY <1>2, <1>7, <1>8, <1>9 DEF Returns

-----------------------------------------------------------------------------
\* Whatever is printed of the word is one line, which is refused.
Refused(w, a) ==
    \A lines \in Printer!disassemble_cycle(w, a) :
        \E l : IsLine(l) /\ lines = <<l>> /\ ~Accepted(l)

\* A branch on a condition that has a name.
Named(w) == \E cond \in DOMAIN cond_value :
               cond_value[cond] = SelectBits(w, BRANCH.COND)

\* A branch, as it is decoded.
LEMMA BranchDecoded ==
    ASSUME NEW w, Ordinary(w), Branches(w)
    PROVE  /\ IsUncon(w) =>
                /\ Decode(w).op = "b"
                /\ Decode(w).simm26 = SignExt(SelectBits(w, BRANCH.SIMM26), 26)
                /\ ~Printer!Unprintable(w)
           /\ IsBr(w) =>
                /\ Decode(w) = [op |-> "br", rn |-> SelectBits(w, BRANCH.REG)]
                /\ Decode(w).op = "br"
                /\ ~Printer!Unprintable(w)
           /\ IsCond(w) =>
                /\ Decode(w).op = "b_cond"
                /\ Decode(w).simm19 = SignExt(SelectBits(w, BRANCH.SIMM19), 19)
                /\ Decode(w).cond = SelectBits(w, BRANCH.COND)
                /\ Printer!Unprintable(w) <=> ~Named(w)
           /\ ~IsUncon(w) /\ ~IsBr(w) /\ ~IsCond(w) =>
                /\ Decode(w).op = "illegal" /\ Printer!Unprintable(w)
<1>1. /\ Decode(w) = Emulated!DecodeBranch(w)
      /\ Printer!Unprintable(w) <=> Printer!InvalidBranch(w)
  BY Dispatch
<1>2. /\ Emulated!BranchIs(w, "UNCON") <=> IsUncon(w)
      /\ Emulated!BranchIs(w, "REGISTER") <=> IsBr(w)
      /\ Emulated!BranchIs(w, "CON") <=> IsCond(w)
      /\ Printer!BranchIs(w, "UNCON") <=> IsUncon(w)
      /\ Printer!BranchIs(w, "REGISTER") <=> IsBr(w)
      /\ Printer!BranchIs(w, "CON") <=> IsCond(w)
  BY BranchTests, SameTests
<1>3. ~(IsUncon(w) /\ IsBr(w)) /\ ~(IsUncon(w) /\ IsCond(w))
      /\ ~(IsBr(w) /\ IsCond(w))
  <2>1. IsUncon(w) => 30 \notin w
    BY DEF IsUncon
  <2>2. IsBr(w) => 30 \in w /\ 31 \in w
    BY DEF IsBr
  <2>3. IsCond(w) => 30 \in w /\ 31 \notin w
    BY DEF IsCond
  <2>4. QED BY <2>1, <2>2, <2>3
<1>4. Printer!CondIn(w, DOMAIN Printer!cond_str) <=> IsCond(w) /\ Named(w)
  <2>1. Printer!cond_str = cond_value
    BY DEF Printer!cond_str, cond_value
  <2>2. Printer!CondOf(w) = SelectBits(w, BRANCH.COND)
    BY SameMacros, SameFields DEF Printer!CondOf
  <2>3. QED BY <1>2, <2>1, <2>2 DEF Printer!CondIn, Named
<1>5. Printer!Unprintable(w)
         <=> ~IsUncon(w) /\ ~IsBr(w) /\ ~(IsCond(w) /\ Named(w))
  BY <1>1, <1>2, <1>4 DEF Printer!InvalidBranch
<1> DEFINE s26 == SignExt(SelectBits(w, BRANCH.SIMM26), 26)
           s19 == SignExt(SelectBits(w, BRANCH.SIMM19), 19)
           rn == SelectBits(w, BRANCH.REG)
           cond == SelectBits(w, BRANCH.COND)
<1>6. /\ Emulated!SignExt(Emulated!SelectBits(w, Emulated!BRANCH.SIMM26), 26)
            = s26
      /\ Emulated!SignExt(Emulated!SelectBits(w, Emulated!BRANCH.SIMM19), 19)
            = s19
      /\ Emulated!SelectBits(w, Emulated!BRANCH.REG) = rn
      /\ Emulated!SelectBits(w, <<0, 4>>) = cond
  BY SameMacros, SameFields
<1> HIDE DEF s26, s19, rn, cond
<1>7. IsUncon(w) => Decode(w) = [op |-> "b", simm26 |-> s26]
  BY <1>1, <1>2, <1>3, <1>6 DEF Emulated!DecodeBranch, Emulated!BranchWith
<1>8. IsBr(w) => Decode(w) = [op |-> "br", rn |-> rn]
  BY <1>1, <1>2, <1>3, <1>6 DEF Emulated!DecodeBranch, Emulated!BranchWith
<1>9. IsCond(w) => Decode(w) = [op |-> "b_cond", simm19 |-> s19, cond |-> cond]
  BY <1>1, <1>2, <1>3, <1>6 DEF Emulated!DecodeBranch, Emulated!BranchWith
<1>10. ~IsUncon(w) /\ ~IsBr(w) /\ ~IsCond(w) => Decode(w) = [op |-> "illegal"]
  BY <1>1, <1>2 DEF Emulated!DecodeBranch, Emulated!BranchWith
<1>11. QED
  BY <1>3, <1>5, <1>7, <1>8, <1>9, <1>10 DEF s26, s19, rn, cond

\* The largest number strtoll returns is no address of a word.
LEMMA Farthest ==
    /\ LLONG_MAX \in Nat /\ LLONG_MAX % 4 # 0
<1> DEFINE p == 2^28
<1>1. p \in Nat \ {0} /\ 2^30 = 4 * p
  <2>1. 28 \in Positions /\ 29 \in Positions /\ 28 + 1 = 29 /\ 29 + 1 = 30
    BY DEF Positions
  <2>2. 2^28 \in Nat \ {0} /\ 2^29 = 2 * 2^28 /\ 2^30 = 2 * 2^29
    BY <2>1, Doubling
  <2>3. QED BY <2>2
<1> HIDE DEF p
<1>2. 4 * p - 1 \in Nat /\ (4 * p - 1) % 4 # 0
  BY <1>1
<1>3. QED BY <1>1, <1>2 DEF LLONG_MAX

\* A target as it is read back.
LEMMA TargetRead ==
    ASSUME NEW a \in Nat, a % 4 = 0, NEW s \in Int, NEW t,
           t = strtoll(a + s * 4)
    PROVE  /\ t \in Int
           /\ t % 4 = 0 <=> a + s * 4 >= 0
           /\ a + s * 4 >= 0 => WordOffset(t, a) = s
<1>1. (a + s * 4) % 4 = 0
  BY SMT
<1>2. CASE a + s * 4 < 0
  BY <1>2, Farthest DEF strtoll
<1>3. CASE a + s * 4 >= 0
  <2>1. t = a + s * 4
    BY <1>3 DEF strtoll
  <2>2. t \in Int
    BY <2>1
  <2>3. WordOffset(t, a) = s
    BY <2>1, <2>2, OffsetBack
  <2>4. QED BY <1>1, <1>3, <2>1, <2>2, <2>3
<1>4. QED BY <1>2, <1>3

\* A branch, as it is printed.
LEMMA BranchPrinted ==
    ASSUME NEW w, NEW a, Ordinary(w), Branches(w)
    PROVE  /\ IsUncon(w) =>
                Printer!disassemble_cycle(w, a) =
                  {<<[form |-> "b",
                      target |-> strtoll(a + SignExt(
                                    SelectBits(w, BRANCH.SIMM26), 26) * 4)]>>}
           /\ IsBr(w) =>
                Printer!disassemble_cycle(w, a) =
                  {<<[form |-> "br",
                      xn |-> [sf |-> 1, n |-> SelectBits(w, BRANCH.REG)]]>>}
           /\ IsCond(w) /\ Named(w) =>
                \E cond \in DOMAIN cond_value :
                  /\ cond_value[cond] = SelectBits(w, BRANCH.COND)
                  /\ Printer!disassemble_cycle(w, a) =
                       {<<[form |-> "b.", cond |-> cond,
                           target |-> strtoll(a + SignExt(
                                    SelectBits(w, BRANCH.SIMM19), 19) * 4)]>>}
<1> DEFINE s26 == SignExt(SelectBits(w, BRANCH.SIMM26), 26)
           s19 == SignExt(SelectBits(w, BRANCH.SIMM19), 19)
           rn == SelectBits(w, BRANCH.REG)
           value == SelectBits(w, BRANCH.COND)
           t26 == strtoll(a + s26 * 4)
           t19 == strtoll(a + s19 * 4)
           l == Printer!branch_instruction(w, a)
<1>1. Printer!disassemble_cycle(w, a) = {<<l>>}
  BY Dispatch
<1>2. /\ Printer!BranchIs(w, "UNCON") <=> IsUncon(w)
      /\ Printer!BranchIs(w, "REGISTER") <=> IsBr(w)
      /\ Printer!BranchIs(w, "CON") <=> IsCond(w)
  BY BranchTests, SameTests
<1>3. ~(IsUncon(w) /\ IsBr(w)) /\ ~(IsUncon(w) /\ IsCond(w))
      /\ ~(IsBr(w) /\ IsCond(w))
  <2>1. IsUncon(w) => 30 \notin w
    BY DEF IsUncon
  <2>2. IsBr(w) => 30 \in w /\ 31 \in w
    BY DEF IsBr
  <2>3. IsCond(w) => 30 \in w /\ 31 \notin w
    BY DEF IsCond
  <2>4. QED BY <2>1, <2>2, <2>3
<1>4. Printer!strtoll(a + s26 * 4) = t26 /\ Printer!strtoll(a + s19 * 4) = t19
  BY DEF Printer!strtoll, strtoll, Printer!LLONG_MAX, LLONG_MAX
<1>5. /\ Printer!SignExt(Printer!SelectBits(w, Printer!BRANCH.SIMM26), 26)
            = s26
      /\ Printer!SignExt(Printer!SelectBits(w, Printer!BRANCH.SIMM19), 19)
            = s19
      /\ Printer!SelectBits(w, Printer!BRANCH.REG) = rn
  BY SameMacros, SameFields
<1> HIDE DEF s26, s19
<1>6. IsUncon(w) => l = Printer!Branch(t26)
  <2> HIDE DEF t26
  <2>1. QED BY <1>2, <1>3, <1>4, <1>5 DEF Printer!branch_instruction
<1>7. IsBr(w) => l = Printer!BranchReg(Printer!X(rn))
  <2> HIDE DEF rn
  <2>1. QED BY <1>2, <1>3, <1>5 DEF Printer!branch_instruction
<1> DEFINE cond == Printer!OpcodeOf(Printer!cond_str, DOMAIN Printer!cond_str,
                                    Printer!CondOf(w))
<1>8. IsCond(w) => l = Printer!BranchCond(cond, t19)
  <2> HIDE DEF t19, cond
  <2>1. QED BY <1>2, <1>3, <1>4, <1>5 DEF Printer!branch_instruction, cond
<1>9. Named(w) => cond \in DOMAIN cond_value /\ cond_value[cond] = value
  <2>1. Printer!cond_str = cond_value
    BY DEF Printer!cond_str, cond_value
  <2>2. Printer!CondOf(w) = value
    BY SameMacros, SameFields DEF Printer!CondOf
  <2>3. cond = CHOOSE c \in DOMAIN cond_value : cond_value[c] = value
    BY <2>1, <2>2 DEF Printer!OpcodeOf
  <2> HIDE DEF cond, value
  <2>4. QED BY <2>3 DEF Named, value
<1>10. IsUncon(w) => l = [form |-> "b", target |-> t26]
  BY <1>6 DEF Printer!Branch
<1>11. IsBr(w) => l = [form |-> "br", xn |-> [sf |-> 1, n |-> rn]]
  BY <1>7 DEF Printer!BranchReg, Printer!X, Printer!SF64
<1>12. IsCond(w) => l = [form |-> "b.", cond |-> cond, target |-> t19]
  BY <1>8 DEF Printer!BranchCond
<1> HIDE DEF l, cond
<1>13. QED BY <1>1, <1>9, <1>10, <1>11, <1>12 DEF s26, s19

\* An unconditional branch comes back unless its target is below zero, and
\* is then refused.
LEMMA UnconClass ==
    ASSUME NEW w \in Word, Ordinary(w), IsUncon(w), NEW a \in Nat, a % 4 = 0
    PROVE  /\ JumpsBelowZero(w, a) => Refused(w, a)
           /\ ~JumpsBelowZero(w, a) => Returns(w, a, w)
<1> DEFINE n == SelectBits(w, BRANCH.SIMM26)
           s == SignExt(n, 26)
           t == strtoll(a + s * 4)
           l == [form |-> "b", target |-> t]
<1>1. Branches(w) /\ w \subseteq 0 .. 31
  BY DEF IsUncon, Branches, Word
<1>2. Printer!disassemble_cycle(w, a) = {<<l>>}
  BY <1>1, BranchPrinted
<1>3. n \in Nat /\ n < Limit(BRANCH.SIMM26)
  BY SelectFacts, Fields
<1>4. s \in Int /\ s % Limit(BRANCH.SIMM26) = n
  <2>1. BRANCH.SIMM26[2] = 26
    BY DEF BRANCH
  <2> HIDE DEF n
  <2>2. QED BY <1>3, <2>1, SignFolds, Fields
<1>5. JumpsBelowZero(w, a) <=> a + s * 4 < 0
  <2>1. Decode(w).op = "b" /\ Decode(w).simm26 = s
    BY <1>1, BranchDecoded
  <2> HIDE DEF s
  <2>2. QED BY <2>1 DEF JumpsBelowZero
<1>6. l.form = "b" /\ l.target = t
  OBVIOUS
<1> HIDE DEF s, l
<1>7. /\ t \in Int
      /\ t % 4 = 0 <=> a + s * 4 >= 0
      /\ a + s * 4 >= 0 => WordOffset(t, a) = s
  <2>1. t = strtoll(a + s * 4)
    OBVIOUS
  <2> HIDE DEF t
  <2>2. QED BY <1>4, <2>1, TargetRead
<1> HIDE DEF t
<1>8. IsLine(l)
  BY <1>6, <1>7 DEF IsLine
<1>9. Accepted(l) <=> a + s * 4 >= 0
  BY <1>6, <1>7 DEF Accepted, Dispatched, OperandsAccepted
<1>10. ASSUME a + s * 4 >= 0 PROVE Assembled(l, a) = w
  <2>1. Assembled(l, a) = SetBits(Halves(\h1400, 0), BRANCH.SIMM26, s)
    BY <1>6, <1>7, <1>10 DEF Assembled, assemble_branch
  <2>2. SetBits({26, 28}, BRANCH.SIMM26, s) = {26, 28} \cup (w \cap (0 .. 25))
    BY <1>4, PutBack, Fields
  <2>3. {26, 28} \cup (w \cap (0 .. 25)) = w
    <3>1. {26, 28} \subseteq w /\ 27 \notin w /\ 29 \notin w /\ 30 \notin w
          /\ 31 \notin w
      BY DEF IsUncon
    <3>2. ASSUME NEW j \in w PROVE j \in {26, 28} \cup (w \cap (0 .. 25))
      <4>1. j \in 0 .. 25 \/ j = 26 \/ j = 28
        BY <1>1, <3>1
      <4>2. QED BY <4>1
    <3>3. QED BY <3>1, <3>2
  <2>4. Halves(\h1400, 0) = {26, 28}
    BY Constants
  <2>5. QED BY <2>1, <2>2, <2>3, <2>4
<1>11. a + s * 4 < 0 <=> ~(a + s * 4 >= 0)
  BY <1>4
<1>12. QED
  BY <1>2, <1>5, <1>8, <1>9, <1>10, <1>11 DEF Returns, Refused

\* A conditional branch comes back unless its target is below zero, and is
\* then refused.
LEMMA CondClass ==
    ASSUME NEW w \in Word, Ordinary(w), IsCond(w), Named(w),
           NEW a \in Nat, a % 4 = 0
    PROVE  /\ JumpsBelowZero(w, a) => Refused(w, a)
           /\ ~JumpsBelowZero(w, a) => Returns(w, a, w)
<1> DEFINE n == SelectBits(w, BRANCH.SIMM19)
           s == SignExt(n, 19)
           t == strtoll(a + s * 4)
<1>1. Branches(w) /\ w \subseteq 0 .. 31
  BY DEF IsCond, Branches, Word
<1>2. PICK cond \in DOMAIN cond_value :
         /\ cond_value[cond] = SelectBits(w, BRANCH.COND)
         /\ Printer!disassemble_cycle(w, a)
               = {<<[form |-> "b.", cond |-> cond, target |-> t]>>}
  BY <1>1, BranchPrinted
<1> DEFINE l == [form |-> "b.", cond |-> cond, target |-> t]
<1>3. n \in Nat /\ n < Limit(BRANCH.SIMM19)
  BY SelectFacts, Fields
<1>4. s \in Int /\ s % Limit(BRANCH.SIMM19) = n
  <2>1. BRANCH.SIMM19[2] = 19
    BY DEF BRANCH
  <2> HIDE DEF n
  <2>2. QED BY <1>3, <2>1, SignFolds, Fields
<1>5. JumpsBelowZero(w, a) <=> a + s * 4 < 0
  <2>1. Decode(w).op = "b_cond" /\ Decode(w).simm19 = s
    BY <1>1, BranchDecoded
  <2> HIDE DEF s
  <2>2. QED BY <2>1 DEF JumpsBelowZero
<1>6. l.form = "b." /\ l.target = t /\ l.cond = cond
  OBVIOUS
<1>13. Printer!disassemble_cycle(w, a) = {<<l>>}
  BY <1>2
<1> HIDE DEF s, l
<1>7. /\ t \in Int
      /\ t % 4 = 0 <=> a + s * 4 >= 0
      /\ a + s * 4 >= 0 => WordOffset(t, a) = s
  <2>1. t = strtoll(a + s * 4)
    OBVIOUS
  <2> HIDE DEF t
  <2>2. QED BY <1>4, <2>1, TargetRead
<1> HIDE DEF t
<1>8. IsLine(l)
  BY <1>6, <1>7 DEF IsLine
<1>9. Accepted(l) <=> a + s * 4 >= 0
  BY <1>2, <1>6, <1>7 DEF Accepted, Dispatched, OperandsAccepted
<1>10. ASSUME a + s * 4 >= 0 PROVE Assembled(l, a) = w
  <2> DEFINE u == {26, 28, 30} \cup (w \cap (5 .. 23))
  <2>1. Assembled(l, a) = SetBits(SetBits(Halves(\h5400, 0), BRANCH.SIMM19, s),
                                  BRANCH.COND, cond_value[cond])
    BY <1>6, <1>7, <1>10 DEF Assembled, assemble_branch
  <2>2. SetBits({26, 28, 30}, BRANCH.SIMM19, s) = u
    BY <1>4, PutBack, Fields
  <2>3. SetBits(u, BRANCH.COND, cond_value[cond]) = u \cup (w \cap (0 .. 3))
    <3> HIDE DEF u
    <3>1. QED BY <1>2, PutSelected, Fields
  <2>4. u \cup (w \cap (0 .. 3)) = w
    <3>1. /\ {26, 28, 30} \subseteq w /\ 4 \notin w /\ 24 \notin w
          /\ 25 \notin w /\ 27 \notin w /\ 29 \notin w /\ 31 \notin w
      BY DEF IsCond
    <3>2. u \cup (w \cap (0 .. 3)) \subseteq w
      BY <3>1
    <3>3. ASSUME NEW k \in w PROVE k \in u \cup (w \cap (0 .. 3))
      <4>1. k \in 0 .. 3 \/ k \in 5 .. 23 \/ k = 26 \/ k = 28 \/ k = 30
        BY <1>1, <3>1
      <4>2. QED BY <4>1
    <3>4. QED BY <3>2, <3>3
  <2>5. Halves(\h5400, 0) = {26, 28, 30}
    BY Constants
  <2> HIDE DEF u
  <2>6. Assembled(l, a) = SetBits(u, BRANCH.COND, cond_value[cond])
    BY <2>1, <2>2, <2>5
  <2>7. SetBits(u, BRANCH.COND, cond_value[cond]) = w
    BY <2>3, <2>4
  <2>8. QED BY <2>6, <2>7
<1>11. a + s * 4 < 0 <=> ~(a + s * 4 >= 0)
  BY <1>4
<1>12. QED
  BY <1>13, <1>5, <1>8, <1>9, <1>10, <1>11 DEF Returns, Refused

\* A branch to a register comes back.
LEMMA BrClass ==
    ASSUME NEW w \in Word, Ordinary(w), IsBr(w)
    PROVE  \A a : Returns(w, a, w)
<1> DEFINE n == SelectBits(w, BRANCH.REG)
           l == [form |-> "br", xn |-> [sf |-> 1, n |-> n]]
           k == {16, 17, 18, 19, 20, 25, 26, 28, 30, 31}
<1>1. Branches(w) /\ w \subseteq 0 .. 31
  BY DEF IsBr, Branches, Word
<1>2. \A a : Printer!disassemble_cycle(w, a) = {<<l>>}
  BY <1>1, BranchPrinted
<1>3. n \in 0 .. 31
  BY SelectFacts, Fields
<1>4. l.form = "br" /\ l.xn = [sf |-> 1, n |-> n]
  OBVIOUS
<1> HIDE DEF l
<1>5. l.xn \in Register /\ IsXRegister(l.xn)
  <2> HIDE DEF n
  <2>1. QED BY <1>3, <1>4 DEF Register, IsXRegister, IsRegister, SF32, SF64
<1>6. IsLine(l)
  BY <1>4, <1>5 DEF IsLine
<1>7. Accepted(l)
  BY <1>4, <1>5 DEF Accepted, Dispatched, OperandsAccepted
<1>8. ASSUME NEW a PROVE Assembled(l, a) = w
  <2>1. Assembled(l, a) = SetBits(Halves(\hD61F, 0), BRANCH.REG,
                                  get_register(l.xn))
    BY <1>4 DEF Assembled, assemble_branch
  <2>2. SetBits(k, BRANCH.REG, get_register(l.xn)) = k \cup (w \cap (5 .. 9))
    <3> HIDE DEF k
    <3>1. QED BY <1>4, PutRegister, Fields
  <2>3. k \cup (w \cap (5 .. 9)) = w
    <3>1. k \subseteq w
      BY DEF IsBr
    <3>2. ASSUME NEW j \in w PROVE j \in k \cup (w \cap (5 .. 9))
      <4>1. j \in 5 .. 9 \/ j \in (10 .. 31) \cup (0 .. 4)
        BY <1>1
      <4>2. w \cap ((10 .. 31) \cup (0 .. 4)) = k
        BY DEF IsBr
      <4> HIDE DEF k
      <4>3. QED BY <4>1, <4>2
    <3> HIDE DEF k
    <3>3. QED BY <3>1, <3>2
  <2>4. Halves(\hD61F, 0) = k
    BY Constants
  <2> HIDE DEF k
  <2>5. Assembled(l, a) = SetBits(k, BRANCH.REG, get_register(l.xn))
    BY <2>1, <2>4
  <2>6. SetBits(k, BRANCH.REG, get_register(l.xn)) = w
    BY <2>2, <2>3
  <2>7. QED BY <2>5, <2>6
<1>9. QED BY <1>2, <1>6, <1>7, <1>8 DEF Returns

\* Setting a field to zero sets no bit.
LEMMA PutZero ==
    ASSUME NEW u, NEW f, IsField(f)
    PROVE  SetBits(u, f, 0) = u
<1>1. 0 % Limit(f) = 0
  BY LimitType
<1>2. SetBits(u, f, 0) = u \cup {f[1] + k : k \in Bits(0 % Limit(f))}
  BY DEF SetBits, Limit
<1>3. QED BY <1>1, <1>2, BitsOfZero

\* nop comes back.
LEMMA NopClass ==
    ASSUME NEW w, w = NOP_INSTRUCTION
    PROVE  /\ Decode(w).op = "nop" /\ ~Printer!Unprintable(w)
           /\ \A a : Returns(w, a, w)
<1>1. w = Printer!NOP_INSTRUCTION /\ w = Emulated!NOP_INSTRUCTION
  BY SameMacros DEF NOP_INSTRUCTION, Printer!NOP_INSTRUCTION,
                    Emulated!NOP_INSTRUCTION
<1>2. w # Printer!HALT_INSTRUCTION
  <2>1. Printer!HALT_INSTRUCTION = HALT_INSTRUCTION
    BY SameMacros DEF HALT_INSTRUCTION, Printer!HALT_INSTRUCTION
  <2>2. 0 \in NOP_INSTRUCTION /\ 0 \notin HALT_INSTRUCTION
    BY SpecialBits
  <2>3. QED BY <2>1, <2>2
<1> DEFINE l == [form |-> "nop"]
<1>3. ~Printer!Op0Is(w, "DPIMM") /\ ~Printer!Op0Is(w, "LS")
  <2>1. 26 \in w /\ 27 \notin w
    BY SpecialBits
  <2>2. QED BY <2>1, Groups, SameTests DEF DPImm, LS
<1>4. \A a : Printer!disassemble_cycle(w, a) = {<<l>>}
  BY <1>1, <1>2, <1>3
     DEF Printer!disassemble_cycle, Printer!Nop, Printer!IsSpecial
<1>5. Decode(w).op = "nop" /\ ~Printer!Unprintable(w)
  BY <1>1
     DEF Decode, Emulated!Decode, Printer!Unprintable, Printer!IsSpecial
<1>6. l.form = "nop"
  OBVIOUS
<1> HIDE DEF l
<1>7. IsLine(l)
  BY <1>6 DEF IsLine
<1>8. Accepted(l)
  BY <1>6 DEF Accepted, Dispatched, OperandsAccepted
<1>9. ASSUME NEW a PROVE Assembled(l, a) = w
  BY <1>6 DEF Assembled
<1>10. QED BY <1>4, <1>5, <1>7, <1>8, <1>9 DEF Returns

\* The halting word comes back.
LEMMA HaltClass ==
    ASSUME NEW w, w = HALT_INSTRUCTION
    PROVE  /\ Decode(w).op = "halt" /\ ~Printer!Unprintable(w)
           /\ \A a : Returns(w, a, w)
<1>1. w = Printer!HALT_INSTRUCTION /\ w = Emulated!HALT_INSTRUCTION
  BY SameMacros DEF HALT_INSTRUCTION, Printer!HALT_INSTRUCTION,
                    Emulated!HALT_INSTRUCTION
<1>2. w # Printer!NOP_INSTRUCTION /\ w # Emulated!NOP_INSTRUCTION
  <2>1. /\ Printer!NOP_INSTRUCTION = NOP_INSTRUCTION
        /\ Emulated!NOP_INSTRUCTION = NOP_INSTRUCTION
    BY SameMacros DEF NOP_INSTRUCTION, Printer!NOP_INSTRUCTION,
                      Emulated!NOP_INSTRUCTION
  <2>2. 0 \in NOP_INSTRUCTION /\ 0 \notin HALT_INSTRUCTION
    BY SpecialBits
  <2>3. QED BY <2>1, <2>2
<1> DEFINE l == [form |-> "two_op", opcode |-> "and",
                 rd |-> [sf |-> 1, n |-> 0], rn |-> [sf |-> 1, n |-> 0],
                 operand |-> [sf |-> 1, n |-> 0], shift |-> [type |-> "none"]]
<1>3. Printer!HaltText = l
  BY DEF Printer!HaltText, Printer!TwoOp, Printer!X, Printer!SF64,
         Printer!NoShift
<1>4. ~Printer!Op0Is(w, "DPIMM") /\ ~Printer!Op0Is(w, "LS")
      /\ ~Printer!Op0Is(w, "BRANCH")
  <2>1. 27 \in w /\ 25 \in w
    BY SpecialBits
  <2>2. QED BY <2>1, Groups, SameTests DEF DPImm, LS, Branches
<1>5. \A a : Printer!disassemble_cycle(w, a) = {<<l>>}
  <2> HIDE DEF l
  <2>1. QED BY <1>1, <1>2, <1>3, <1>4
        DEF Printer!disassemble_cycle, Printer!IsSpecial
<1>6. Decode(w).op = "halt" /\ ~Printer!Unprintable(w)
  BY <1>1, <1>2
     DEF Decode, Emulated!Decode, Printer!Unprintable, Printer!IsSpecial
<1>7. /\ l.form = "two_op" /\ l.opcode = "and"
      /\ l.rd = [sf |-> 1, n |-> 0] /\ l.rn = [sf |-> 1, n |-> 0]
      /\ l.operand = [sf |-> 1, n |-> 0] /\ l.shift = NoShift
      /\ l.shift.type = "none"
  BY DEF NoShift
<1> HIDE DEF l
<1>8. /\ l.rd \in Register /\ IsRegister(l.rd) /\ l.rn \in Register
      /\ IsRegister(l.rn) /\ l.operand \in Register /\ IsRegister(l.operand)
      /\ ~is_immediate(l.operand)
      /\ get_register(l.rd) = 0 /\ get_register(l.rn) = 0
      /\ get_register(l.operand) = 0
  BY <1>7 DEF Register, IsRegister, SF32, SF64, is_immediate, get_register
<1>9. IsLine(l)
  BY <1>7, <1>8 DEF IsLine, IsShift
<1>10. "and" \in bit_logic_opcodes /\ "and" \notin arithmetic_opcodes
       /\ bit_logic_opc["and"] = 0 /\ bit_logic_N["and"] = 0
  BY DEF bit_logic_opcodes, arithmetic_opcodes, bit_logic_opc, bit_logic_N
<1>11. Accepted(l)
  <2>1. TwoOpAccepted(l.opcode, l.operand, l.shift)
    BY <1>7, <1>8 DEF TwoOpAccepted, ShiftAccepted
  <2>2. is_two_op_opcode(l.opcode)
    BY <1>7, <1>10 DEF is_two_op_opcode
  <2>3. l.rd.sf = l.rn.sf
    BY <1>7
  <2>4. QED BY <1>7, <1>8, <2>1, <2>2, <2>3
        DEF Accepted, Dispatched, OperandsAccepted
<1>12. ASSUME NEW a PROVE Assembled(l, a) = w
  <2> DEFINE u == WithRegister(SetBits({}, REG.RN, get_register(l.rn)),
                               REG.SF, REG.RD, l.rd)
  <2>1. u = {31}
    <3>1. SetBits({}, REG.RN, 0) = {}
      BY PutZero, Fields
    <3>2. SetBits({}, REG.SF, 1) = {31}
      <4>1. 31 \in w /\ REG.SF[1] = 31 /\ REG.SF[2] = 1
        BY SpecialBits DEF REG
      <4>2. SelectBits(w, REG.SF) = 1
        BY <4>1, OneBit
      <4>3. SetBits({}, REG.SF, 1) = {} \cup (w \cap Span(REG.SF))
        BY <4>2, PutSelected, Fields
      <4>4. QED BY <4>1, <4>3, Fields
    <3>3. SetBits({31}, REG.RD, 0) = {31}
      BY PutZero, Fields
    <3>4. l.rd.sf = 1
      BY <1>7
    <3>5. QED BY <1>8, <3>1, <3>2, <3>3, <3>4 DEF WithRegister
  <2>2. Assembled(l, a) = assemble_two_op(l)
    BY <1>7 DEF Assembled
  <2>3. assemble_two_op(l) = handle_two_op(u, l.opcode, l.operand, l.shift)
    BY DEF assemble_two_op
  <2>4. handle_two_op(u, l.opcode, l.operand, l.shift)
           = handle_two_op_reg(u, l.opcode, l.operand, l.shift)
    BY <1>8 DEF handle_two_op
  <2> HIDE DEF u
  <2>5. handle_two_op_reg(u, l.opcode, l.operand, l.shift)
           = SetBits(SetBits(SetBits(u \cup Halves(\h0A00, 0), REG.RM, 0),
                             REG.OPC, 0), REG_N, 0)
    BY <1>7, <1>8, <1>10 DEF handle_two_op_reg, handle_reg_shift
  <2> DEFINE v == u \cup Halves(\h0A00, 0)
  <2>6. /\ SetBits(v, REG.RM, 0) = v /\ SetBits(v, REG.OPC, 0) = v
        /\ SetBits(v, REG_N, 0) = v
    <3> HIDE DEF v
    <3>1. QED BY PutZero, Fields
  <2>7. v = w
    BY <2>1, Constants, SpecialBits
  <2>8. QED
    <3> HIDE DEF v
    <3>1. handle_two_op_reg(u, l.opcode, l.operand, l.shift) = w
      BY <2>5, <2>6, <2>7 DEF v
    <3>2. QED BY <2>2, <2>3, <2>4, <3>1
<1>13. QED BY <1>5, <1>6, <1>9, <1>11, <1>12 DEF Returns

\* A word of no group is printed as a number, and comes back.
LEMMA UnallocatedClass ==
    ASSUME NEW w \in Word, Ordinary(w),
           ~DPImm(w), ~DPReg(w), ~LS(w), ~Branches(w)
    PROVE  /\ Decode(w).op = "unallocated" /\ ~Printer!Unprintable(w)
           /\ \A a : Returns(w, a, w)
<1> DEFINE l == [form |-> ".int", word |-> w]
<1>1. /\ Decode(w) = [op |-> "unallocated"] /\ ~Printer!Unprintable(w)
      /\ \A a : Printer!disassemble_cycle(w, a) = {<<l>>}
  BY Dispatch DEF IntDirective
<1>2. l.form = ".int" /\ l.word = w
  OBVIOUS
<1> HIDE DEF l
<1>3. IsLine(l)
  BY <1>2 DEF IsLine
<1>4. Accepted(l)
  BY <1>2 DEF Accepted, Dispatched, OperandsAccepted
<1>5. ASSUME NEW a PROVE Assembled(l, a) = w
  BY <1>2 DEF Assembled
<1>6. QED BY <1>1, <1>3, <1>4, <1>5 DEF Returns

\* A data processing immediate that is neither arithmetic nor a wide move
\* prints nothing.
LEMMA UnhandledImm ==
    ASSUME NEW w, Ordinary(w), DPImm(w), ~ArithImm(w), ~WideMove(w)
    PROVE  /\ Decode(w) = [op |-> "unhandled"] /\ ~Printer!Unprintable(w)
           /\ \A a : Printer!disassemble_cycle(w, a) = {<<>>}
<1>1. /\ ~Emulated!IsArithmeticImm(w) /\ ~Emulated!IsWideMove(w)
      /\ ~Printer!IsArithmeticImm(w) /\ ~Printer!IsWideMove(w)
  BY ImmTests, SameTests DEF ArithImm, WideMove
<1>2. QED
  BY <1>1, Dispatch
     DEF Emulated!DecodeDPImm, Printer!disassemble_dpimm_instruction

-----------------------------------------------------------------------------
\* The words at which the disassembler exits, by their decoding.
Fatal(w) ==
    \/ Decode(w).op = "illegal"
    \/ Decode(w).op = "b_cond"
          /\ \A cond \in DOMAIN cond_value : cond_value[cond] # Decode(w).cond

\* A wide move whose opc names no opcode.
IsGarbage(w) == Decode(w).op = "wide_move" /\ Decode(w).opc = 1

\* What is printed is assembled to a word decoded as the given one, which it
\* is but for the bits a multiply does not look at.
Canonical(w) ==
    IF Decode(w).op = "multiply_reg" THEN w \ {29, 30} ELSE w

\* What is printed of the word is assembled to its canonical form.
Kept(w, a) ==
    /\ Canonical(w) \in Word /\ Decode(Canonical(w)) = Decode(w)
    /\ Returns(w, a, Canonical(w))

\* What is printed of the word is assembled to another one.
Changed(w, a) ==
    \A lines \in Printer!disassemble_cycle(w, a) :
        \E l : /\ IsLine(l) /\ lines = <<l>> /\ Accepted(l)
               /\ Assembled(l, a) # w

\* Nothing is printed of the word.
Silent(w, a) == Printer!disassemble_cycle(w, a) = {<<>>}

\* One line is printed of the word.
OneLine(w, a) ==
    \A lines \in Printer!disassemble_cycle(w, a) :
        \E l : IsLine(l) /\ lines = <<l>>

\* What becomes of a word the disassembler prints.
Outcome(w, a) ==
    /\ ~Printer!Unprintable(w) /\ ~Fatal(w)
    /\ \/ Decode(w).op = "unhandled" /\ ~Unreadable(w, a) /\ Silent(w, a)
       \/ ~LostWord(w) /\ ~Unreadable(w, a) /\ Kept(w, a)
       \/ ~LostWord(w) /\ Unreadable(w, a) /\ Refused(w, a)
       \/ Doubled(w) /\ Unreadable(w, a) /\ Refused(w, a)
       \/ Doubled(w) /\ ~Unreadable(w, a) /\ Changed(w, a)
       \/ IsGarbage(w) /\ ~Unreadable(w, a) /\ OneLine(w, a)

\* A word that comes back as it was has its outcome.
LEMMA PlainOutcome ==
    ASSUME NEW w \in Word, NEW a, ~Printer!Unprintable(w),
           Decode(w).op \notin {"unhandled", "sdt_uimm", "wide_move", "b",
                                "b_cond", "illegal", "multiply_reg"},
           Returns(w, a, w)
    PROVE  Outcome(w, a)
<1>1. ~LostWord(w) /\ ~Unreadable(w, a) /\ ~Fatal(w)
  BY DEF LostWord, Doubled, Unreadable, JumpsBelowZero, Fatal
<1>2. Kept(w, a)
  BY DEF Kept, Canonical
<1>3. QED BY <1>1, <1>2 DEF Outcome

\* A word that prints nothing has its outcome.
LEMMA SilentOutcome ==
    ASSUME NEW w \in Word, NEW a, ~Printer!Unprintable(w),
           Decode(w) = [op |-> "unhandled"],
           Printer!disassemble_cycle(w, a) = {<<>>}
    PROVE  Outcome(w, a)
<1>1. Decode(w).op = "unhandled"
  OBVIOUS
<1>2. ~Fatal(w) /\ ~Unreadable(w, a) /\ Silent(w, a)
  BY <1>1 DEF Fatal, Doubled, Unreadable, JumpsBelowZero, Silent
<1>3. QED BY <1>1, <1>2 DEF Outcome

\* The words of the group of immediates.
LEMMA ImmOutcome ==
    ASSUME NEW w \in Word, Ordinary(w), DPImm(w), NEW a
    PROVE  Outcome(w, a)
<1>1. CASE ArithImm(w)
  BY <1>1, ArithImmClass, PlainOutcome
<1>2. CASE WideMove(w) /\ SelectBits(w, REG.OPC) # 1
  <2>1. /\ Decode(w).op = "wide_move" /\ Decode(w).opc # 1
        /\ ~Printer!Unprintable(w) /\ Returns(w, a, w)
    BY <1>2, WideMoveDecoded, WideMoveClass
  <2>2. ~LostWord(w) /\ ~Unreadable(w, a) /\ ~Fatal(w)
    BY <2>1 DEF LostWord, Doubled, Unreadable, JumpsBelowZero, Fatal
  <2>3. Kept(w, a)
    BY <2>1 DEF Kept, Canonical
  <2>4. QED BY <2>1, <2>2, <2>3 DEF Outcome
<1>3. CASE WideMove(w) /\ SelectBits(w, REG.OPC) = 1
  <2>1. /\ Decode(w).op = "wide_move" /\ Decode(w).opc = 1
        /\ ~Printer!Unprintable(w)
        /\ Printer!disassemble_cycle(w, a)
              = {<<Printer!handle_mov(w, op_str)>> :
                    op_str \in Printer!wide_move_str(1)}
    BY <1>3, WideMoveDecoded
  <2>2. IsGarbage(w) /\ ~Unreadable(w, a) /\ ~Fatal(w)
    BY <2>1 DEF IsGarbage, Doubled, Unreadable, JumpsBelowZero, Fatal
  <2>3. ASSUME NEW op_str \in Printer!wide_move_str(1)
        PROVE  IsLine(Printer!handle_mov(w, op_str))
    <3>1. op_str \in wide_move_opcodes \/ op_str = "garbage"
      BY DEF Printer!wide_move_str, wide_move_opcodes
    <3>2. CASE op_str \in wide_move_opcodes
      BY <3>2, MovAccepted
    <3>3. CASE op_str = "garbage"
      <4>1. Printer!handle_mov(w, op_str).form = "garbage"
        BY <3>3 DEF Printer!handle_mov, Printer!Garbage
      <4>2. QED BY <4>1 DEF IsLine
    <3>4. QED BY <3>1, <3>2, <3>3
  <2>4. OneLine(w, a)
    BY <2>1, <2>3 DEF OneLine
  <2>5. QED BY <2>1, <2>2, <2>4 DEF Outcome
<1>4. CASE ~ArithImm(w) /\ ~WideMove(w)
  BY <1>4, UnhandledImm, SilentOutcome
<1>5. QED BY <1>1, <1>2, <1>3, <1>4

\* The words of the group of registers.
LEMMA RegOutcome ==
    ASSUME NEW w \in Word, Ordinary(w), DPReg(w), NEW a
    PROVE  Outcome(w, a) \/ (Printer!Unprintable(w) /\ Fatal(w))
<1>1. CASE RegArith(w)
  BY <1>1, RegArithClass, PlainOutcome
<1>2. CASE RegLogic(w)
  BY <1>2, RegLogicClass, PlainOutcome
<1>3. CASE RegMultiply(w)
  <2>1. w \ {29, 30} \in Word
    BY DEF Word
  <2>2. /\ Decode(w).op = "multiply_reg" /\ ~Printer!Unprintable(w)
        /\ Canonical(w) = w \ {29, 30}
    BY <1>3, RegMultiplyClass DEF Canonical
  <2>3. Kept(w, a)
    BY <1>3, <2>1, <2>2, RegMultiplyClass DEF Kept
  <2>4. ~LostWord(w) /\ ~Unreadable(w, a) /\ ~Fatal(w)
    BY <2>2 DEF LostWord, Doubled, Unreadable, JumpsBelowZero, Fatal
  <2>5. QED BY <2>2, <2>3, <2>4 DEF Outcome
<1>4. CASE 28 \notin w /\ 24 \in w /\ 21 \notin w /\ {22, 23} \subseteq w
  <2>1. Decode(w) = [op |-> "illegal"] /\ Printer!Unprintable(w)
    BY <1>4, RegDecoded
  <2>2. QED BY <2>1 DEF Fatal
<1>5. CASE (24 \in w /\ 21 \in w) \/ (28 \in w /\ ~RegMultiply(w))
  BY <1>5, RegDecoded, SilentOutcome
<1>6. QED BY <1>1, <1>2, <1>3, <1>4, <1>5 DEF RegArith, RegLogic

\* The words of the group of transfers.
LEMMA TransferOutcome ==
    ASSUME NEW w \in Word, Ordinary(w), LS(w), NEW a \in Nat
    PROVE  Outcome(w, a) \/ (Printer!Unprintable(w) /\ Fatal(w))
<1>1. Printer!Unprintable(w) <=> SdtInvalid(w)
  BY TransferPrinted
<1>2. CASE SdtUnsigned(w)
  <2> DEFINE n == SelectBits(w, SDT.OFFSET)
             sf == SelectBits(w, DT_SF)
  <2>1. /\ Decode(w).op = "sdt_uimm" /\ Decode(w).sf = sf
        /\ Decode(w).offset = n
    BY <1>2, TransferDecoded
  <2>2. sf \in 0 .. 1 /\ n \in Nat
    BY SelectFacts, Fields
  <2>3. ~Printer!Unprintable(w)
    BY <1>1, <1>2 DEF SdtInvalid, SdtUnsigned
  <2>4. /\ sf = 1 \/ n = 0 => \A b : Returns(w, b, w)
        /\ sf # 1 /\ n # 0 =>
             \A b : \A lines \in Printer!disassemble_cycle(w, b) :
                 \E l : /\ IsLine(l) /\ lines = <<l>>
                        /\ Accepted(l) <=> n <= 2047
                        /\ Accepted(l) => Assembled(l, b) # w
    BY <1>2, UnsignedClass
  <2> HIDE DEF n, sf
  <2>5. Doubled(w) <=> sf # 1 /\ n # 0
    BY <2>1, <2>2 DEF Doubled, SF32
  <2>6. ~Fatal(w) /\ (LostWord(w) <=> Doubled(w))
        /\ (Unreadable(w, a) <=> Doubled(w) /\ n > 2047)
    BY <2>1 DEF Fatal, LostWord, Unreadable, JumpsBelowZero
  <2>7. CASE sf = 1 \/ n = 0
    <3>1. Kept(w, a)
      BY <2>1, <2>4, <2>7 DEF Kept, Canonical
    <3>2. QED BY <2>2, <2>3, <2>5, <2>6, <2>7, <3>1 DEF Outcome
  <2>8. CASE sf # 1 /\ n # 0 /\ n > 2047
    <3>1. Refused(w, a)
      BY <2>2, <2>4, <2>8 DEF Refused
    <3>2. QED BY <2>3, <2>5, <2>6, <2>8, <3>1 DEF Outcome
  <2>9. CASE sf # 1 /\ n # 0 /\ n <= 2047
    <3>1. Changed(w, a)
      BY <2>4, <2>9 DEF Changed
    <3>2. ~(n > 2047)
      BY <2>2, <2>9
    <3>3. QED BY <2>3, <2>5, <2>6, <2>9, <3>1, <3>2 DEF Outcome
  <2>10. QED BY <2>2, <2>7, <2>8, <2>9
<1>3. CASE SdtRegister(w)
  <2>1. ~SdtInvalid(w)
    BY <1>3 DEF SdtRegister, SdtInvalid
  <2>2. Decode(w).op = "sdt_regoffset" /\ Returns(w, a, w)
    BY <1>3, TransferDecoded, RegisterClass
  <2>3. QED BY <1>1, <2>1, <2>2, PlainOutcome
<1>4. CASE SdtIndex(w)
  <2>1. ~SdtInvalid(w)
    BY <1>4 DEF SdtIndex, SdtInvalid
  <2>2. /\ Decode(w).op \in {"sdt_preind", "sdt_postind"}
        /\ Returns(w, a, w)
    BY <1>4, TransferDecoded, IndexClass
  <2>3. QED BY <1>1, <2>1, <2>2, PlainOutcome
<1>5. CASE SdtInvalid(w)
  <2>1. Decode(w) = [op |-> "illegal"]
    BY <1>5, TransferDecoded
  <2>2. QED BY <1>1, <1>5, <2>1 DEF Fatal
<1>6. CASE IsLiteral(w)
  <2>1. ~SdtInvalid(w)
    BY <1>6 DEF IsLiteral, SdtInvalid, IsSdt
  <2>2. Decode(w).op = "load_literal" /\ Returns(w, a, w)
    BY <1>6, TransferDecoded, LiteralClass
  <2>3. QED BY <1>1, <2>1, <2>2, PlainOutcome
<1>7. CASE ~IsSdt(w) /\ ~IsLiteral(w)
  <2>1. ~SdtInvalid(w)
    BY <1>7 DEF SdtInvalid
  <2>2. /\ Decode(w) = [op |-> "unhandled"]
        /\ Printer!disassemble_cycle(w, a) = {<<>>}
    BY <1>7, TransferDecoded, TransferPrinted
  <2>3. QED BY <1>1, <2>1, <2>2, SilentOutcome
<1>8. QED
  BY <1>2, <1>3, <1>4, <1>5, <1>6, <1>7
     DEF SdtUnsigned, SdtRegister, SdtIndex, SdtInvalid

\* The words of the group of branches.
LEMMA BranchOutcome ==
    ASSUME NEW w \in Word, Ordinary(w), Branches(w), NEW a \in Nat, a % 4 = 0
    PROVE  Outcome(w, a) \/ (Printer!Unprintable(w) /\ Fatal(w))
<1>1. CASE IsUncon(w)
  <2>1. Decode(w).op = "b" /\ ~Printer!Unprintable(w)
    BY <1>1, BranchDecoded
  <2>2. ~Fatal(w) /\ ~LostWord(w) /\ (Unreadable(w, a) <=> JumpsBelowZero(w, a))
    BY <2>1 DEF Fatal, LostWord, Doubled, Unreadable
  <2>3. CASE JumpsBelowZero(w, a)
    BY <1>1, <2>1, <2>2, <2>3, UnconClass DEF Outcome
  <2>4. CASE ~JumpsBelowZero(w, a)
    BY <1>1, <2>1, <2>2, <2>4, UnconClass DEF Outcome, Kept, Canonical
  <2>5. QED BY <2>3, <2>4
<1>2. CASE IsBr(w)
  BY <1>2, BranchDecoded, BrClass, PlainOutcome
<1>3. CASE IsCond(w) /\ Named(w)
  <2>1. /\ Decode(w).op = "b_cond" /\ ~Printer!Unprintable(w)
        /\ Decode(w).cond = SelectBits(w, BRANCH.COND)
    BY <1>3, BranchDecoded
  <2>2. ~Fatal(w) /\ ~LostWord(w) /\ (Unreadable(w, a) <=> JumpsBelowZero(w, a))
    BY <1>3, <2>1 DEF Fatal, Named, LostWord, Doubled, Unreadable
  <2>3. CASE JumpsBelowZero(w, a)
    BY <1>3, <2>1, <2>2, <2>3, CondClass DEF Outcome
  <2>4. CASE ~JumpsBelowZero(w, a)
    BY <1>3, <2>1, <2>2, <2>4, CondClass DEF Outcome, Kept, Canonical
  <2>5. QED BY <2>3, <2>4
<1>4. CASE IsCond(w) /\ ~Named(w)
  <2>1. /\ Decode(w).op = "b_cond" /\ Printer!Unprintable(w)
        /\ Decode(w).cond = SelectBits(w, BRANCH.COND)
    BY <1>4, BranchDecoded
  <2>2. QED BY <1>4, <2>1 DEF Fatal, Named
<1>5. CASE ~IsUncon(w) /\ ~IsBr(w) /\ ~IsCond(w)
  BY <1>5, BranchDecoded DEF Fatal
<1>6. QED BY <1>1, <1>2, <1>3, <1>4, <1>5

\* What becomes of any word at any address of a word.
LEMMA WordOutcome ==
    ASSUME NEW w \in Word, NEW a \in Nat, a % 4 = 0
    PROVE  Outcome(w, a) \/ (Printer!Unprintable(w) /\ Fatal(w))
<1>1. CASE w = NOP_INSTRUCTION
  BY <1>1, NopClass, PlainOutcome
<1>2. CASE w = HALT_INSTRUCTION
  BY <1>2, HaltClass, PlainOutcome
<1>3. CASE Ordinary(w)
  <2>1. CASE DPImm(w) BY <1>3, <2>1, ImmOutcome
  <2>2. CASE DPReg(w) BY <1>3, <2>2, RegOutcome
  <2>3. CASE LS(w) BY <1>3, <2>3, TransferOutcome
  <2>4. CASE Branches(w) BY <1>3, <2>4, BranchOutcome
  <2>5. CASE ~DPImm(w) /\ ~DPReg(w) /\ ~LS(w) /\ ~Branches(w)
    BY <1>3, <2>5, UnallocatedClass, PlainOutcome
  <2>6. QED BY <2>1, <2>2, <2>3, <2>4, <2>5
<1>4. QED BY <1>1, <1>2, <1>3 DEF Ordinary

-----------------------------------------------------------------------------
(***************************************************************************)
(* What the assembler writes: which bits a line can set, so that every     *)
(* word written is of a shape whose disassembly tells every bit.           *)
(***************************************************************************)
\* What a field set to any number adds to a word.
LEMMA Adds ==
    ASSUME NEW u, NEW f, IsField(f), NEW v \in Int
    PROVE  u \subseteq SetBits(u, f, v) /\ SetBits(u, f, v) \subseteq u \cup Span(f)
<1> DEFINE o == f[1]
           s == f[2]
           B == Bits(v % 2^s)
<1>1. o \in Nat /\ s \in 0 .. 31 /\ Span(f) = o .. o + s - 1
  BY DEF IsField, Span
<1>2. SetBits(u, f, v) = u \cup {o + k : k \in B}
  BY DEF SetBits
<1>3. v % 2^s \in 0 .. 2^s - 1
  <2>1. 2^s \in Nat \ {0}
    BY LimitType DEF Limit
  <2> DEFINE p == 2^s
  <2> HIDE DEF p
  <2>2. v % p \in 0 .. p - 1
    BY <2>1, DivisionParts DEF p
  <2>3. QED BY <2>2 DEF p
<1> HIDE DEF s
<1>4. B \subseteq 0 .. s - 1
  BY <1>1, <1>3, BitsBelow
<1> HIDE DEF B, o
<1>5. {o + k : k \in B} \subseteq Span(f)
  BY <1>1, <1>4
<1>6. QED BY <1>2, <1>5

\* Encoding a register sets bits of its two fields only.
LEMMA AddsRegister ==
    ASSUME NEW u, NEW f, IsField(f), NEW g, IsField(g), NEW r \in Register
    PROVE  /\ get_register(r) \in Int
           /\ u \subseteq WithRegister(u, f, g, r)
           /\ WithRegister(u, f, g, r) \subseteq u \cup Span(f) \cup Span(g)
<1>1. r.sf \in Int /\ get_register(r) \in Int
  BY DEF Register, SF32, SF64, get_register
<1> DEFINE t == SetBits(u, f, r.sf)
<1>2. u \subseteq t /\ t \subseteq u \cup Span(f)
  BY <1>1, Adds
<1> HIDE DEF t
<1>3. /\ t \subseteq SetBits(t, g, get_register(r))
      /\ SetBits(t, g, get_register(r)) \subseteq t \cup Span(g)
  BY <1>1, Adds
<1>4. QED BY <1>1, <1>2, <1>3 DEF WithRegister, t

\* A word the assembler makes of an instruction: it is printed, as an
\* instruction of which every bit tells.
Shaped(w) ==
    /\ w \in Word
    /\ Decode(w).op # "unhandled" /\ ~IsGarbage(w)
    /\ Canonical(w) = w

\* Every word but those of three kinds is of the shape the assembler
\* writes.
LEMMA ShapedOf ==
    ASSUME NEW w \in Word,
           Decode(w).op \notin {"unhandled", "wide_move", "multiply_reg"}
    PROVE  Shaped(w)
BY DEF Shaped, IsGarbage, Canonical

\* A word that is neither nop nor the halting word, by three bits.
LEMMA NotSpecial ==
    ASSUME NEW w, 26 \notin w \/ 27 \in w, 28 \in w \/ 27 \notin w \/ 31 \notin w
    PROVE  Ordinary(w)
BY SpecialBits DEF Ordinary

\* What arithmetic with an immediate is assembled to.
LEMMA ImmShaped ==
    ASSUME NEW u, u \subseteq (0 .. 9) \cup {31},
           NEW opcode \in arithmetic_opcodes, NEW operand \in Immediate,
           NEW shift, IsShift(shift)
    PROVE  Shaped(handle_two_op_imm(u, opcode, operand, shift))
<1> DEFINE u1 == u \cup Halves(\h1000, 0)
           u2 == SetBits(u1, IMM.IMM12, operand.imm)
           u3 == SetBits(u2, IMM.OPI, IMM_ARITHMETIC_OPI)
           u4 == SetBits(u3, REG.OPC, arithmetic_opc[opcode])
           w == handle_imm_shift(u4, shift)
<1>1. u1 = u \cup {28}
  BY Constants
<1> HIDE DEF u1
<1>2. u1 \subseteq u2 /\ u2 \subseteq u1 \cup (10 .. 21)
  BY Adds, Fields DEF Immediate
<1> HIDE DEF u2
<1>3. u3 = u2 \cup {24}
  <2>1. SetBits(u2, IMM.OPI, 2) = u2 \cup {23 + k : k \in Bits(2 % 2^3)}
    BY DEF SetBits, IMM
  <2>2. 2 % 2^3 = 2
    OBVIOUS
  <2>3. Bits(2) = {1}
    BY Ones
  <2>4. QED BY <2>1, <2>2, <2>3 DEF IMM_ARITHMETIC_OPI
<1> HIDE DEF u3
<1>4. u3 \subseteq u4 /\ u4 \subseteq u3 \cup (29 .. 30)
  <2>1. arithmetic_opc[opcode] \in Int
    BY DEF arithmetic_opc, arithmetic_opcodes
  <2>2. QED BY <2>1, Adds, Fields
<1> HIDE DEF u4
<1>5. u4 \subseteq w /\ w \subseteq u4 \cup {22}
  <2>1. CASE shift = NoShift
    BY <2>1 DEF handle_imm_shift
  <2>2. CASE shift # NoShift
    <3>1. shift.amount \in Int
      BY <2>2 DEF IsShift
    <3>2. (shift.amount % 256) \div 12 \in Int
      BY <3>1
    <3>3. w = SetBits(u4, IMM.SH, (shift.amount % 256) \div 12)
      BY <2>2 DEF handle_imm_shift
    <3>4. QED BY <3>2, <3>3, Adds, Fields
  <2>3. QED BY <2>1, <2>2
<1>6. handle_two_op_imm(u, opcode, operand, shift) = w
  BY DEF handle_two_op_imm, u1, u2, u3, u4
<1> HIDE DEF w
<1>7. /\ w \in Word /\ 28 \in w /\ 24 \in w
      /\ 23 \notin w /\ 25 \notin w /\ 26 \notin w /\ 27 \notin w
  BY <1>1, <1>2, <1>3, <1>4, <1>5 DEF Word
<1>8. Decode(w).op = "arith_imm"
  BY <1>7, NotSpecial, ArithImmClass DEF ArithImm, DPImm
<1>9. QED BY <1>6, <1>7, <1>8, ShapedOf

\* What a line with a second register is assembled to.
LEMMA RegShaped ==
    ASSUME NEW u, u \subseteq (0 .. 9) \cup {31},
           NEW opcode \in arithmetic_opcodes \cup bit_logic_opcodes,
           NEW rm \in Register,
           NEW shift, IsShift(shift), ShiftAccepted(shift)
    PROVE  Shaped(handle_two_op_reg(u, opcode, rm, shift))
<1> DEFINE u1 == u \cup Halves(\h0A00, 0)
           u2 == SetBits(u1, REG.RM, get_register(rm))
           u3 == IF opcode \in arithmetic_opcodes
                 THEN SetBits(SetBits(u2, REG.OPR, ARITHMETIC_OPR),
                              REG.OPC, arithmetic_opc[opcode])
                 ELSE SetBits(SetBits(u2, REG.OPC, bit_logic_opc[opcode]),
                              REG_N, bit_logic_N[opcode])
           w == handle_reg_shift(u3, shift)
<1>0. handle_two_op_reg(u, opcode, rm, shift) = w
  BY DEF handle_two_op_reg
<1>1. u1 = u \cup {25, 27}
  BY Constants
<1> HIDE DEF u1
<1>2. u1 \subseteq u2 /\ u2 \subseteq u1 \cup (16 .. 20)
  BY AddsRegister, Adds, Fields
<1> HIDE DEF u2
<1>3. ASSUME opcode \in arithmetic_opcodes
      PROVE  u2 \cup {24} \subseteq u3 /\ u3 \subseteq u2 \cup {24} \cup (29 .. 30)
  <2>1. arithmetic_opc[opcode] \in Int
    BY <1>3 DEF arithmetic_opc, arithmetic_opcodes
  <2>2. u3 = SetBits(u2 \cup {24}, REG.OPC, arithmetic_opc[opcode])
    BY <1>3, Eight
  <2>3. QED BY <2>1, <2>2, Adds, Fields
<1>4. ASSUME opcode \notin arithmetic_opcodes
      PROVE  u2 \subseteq u3 /\ u3 \subseteq u2 \cup {21} \cup (29 .. 30)
  <2>1. bit_logic_opc[opcode] \in Int /\ bit_logic_N[opcode] \in Int
    BY <1>4 DEF bit_logic_opc, bit_logic_N, bit_logic_opcodes
  <2> DEFINE t == SetBits(u2, REG.OPC, bit_logic_opc[opcode])
  <2>2. u2 \subseteq t /\ t \subseteq u2 \cup (29 .. 30)
    BY <2>1, Adds, Fields
  <2>3. u3 = SetBits(t, REG_N, bit_logic_N[opcode])
    BY <1>4
  <2> HIDE DEF t, u3
  <2>4. t \subseteq u3 /\ u3 \subseteq t \cup {21}
    BY <2>1, <2>3, Adds, Fields
  <2>5. QED BY <2>2, <2>4
<1> HIDE DEF u3
<1>5. u3 \subseteq w /\ w \subseteq u3 \cup (22 .. 23) \cup (10 .. 15)
  <2>1. CASE shift = NoShift
    BY <2>1 DEF handle_reg_shift
  <2>2. CASE shift # NoShift
    <3>1. shift.amount \in Int /\ shift.type # "none"
      BY <2>2 DEF IsShift
    <3>2. shift.amount % 256 \in Int
      BY <3>1
    <3>3. shift_value[shift.type] \in Int
      BY <3>1 DEF ShiftAccepted, shift_value
    <3> DEFINE t == SetBits(u3, REG_SHIFT, shift_value[shift.type])
    <3>4. u3 \subseteq t /\ t \subseteq u3 \cup (22 .. 23)
      BY <3>3, Adds, Fields
    <3>5. w = SetBits(t, REG.OPERAND, shift.amount % 256)
      BY <2>2 DEF handle_reg_shift
    <3> HIDE DEF t, w
    <3>6. t \subseteq w /\ w \subseteq t \cup (10 .. 15)
      BY <3>2, <3>5, Adds, Fields
    <3>7. QED BY <3>4, <3>6
  <2>3. QED BY <2>1, <2>2
<1> HIDE DEF w
<1>6. /\ w \in Word /\ 25 \in w /\ 27 \in w /\ 26 \notin w /\ 28 \notin w
      /\ (24 \in w => 21 \notin w)
  <2>1. /\ u2 \subseteq (0 .. 9) \cup (16 .. 20) \cup {25, 27, 31}
        /\ 25 \in u2 /\ 27 \in u2
    BY <1>1, <1>2
  <2>2. CASE opcode \in arithmetic_opcodes
    <3>1. /\ u3 \subseteq (0 .. 9) \cup (16 .. 20) \cup {25, 27, 31}
                              \cup {24} \cup (29 .. 30)
          /\ 25 \in u3 /\ 27 \in u3
      BY <1>3, <2>1, <2>2
    <3>2. /\ w \subseteq 0 .. 31 /\ 25 \in w /\ 27 \in w
          /\ 26 \notin w /\ 28 \notin w /\ 21 \notin w
      BY <1>5, <3>1
    <3>3. QED BY <3>2 DEF Word
  <2>3. CASE opcode \notin arithmetic_opcodes
    <3>1. /\ u3 \subseteq (0 .. 9) \cup (16 .. 20) \cup {25, 27, 31}
                              \cup {21} \cup (29 .. 30)
          /\ 25 \in u3 /\ 27 \in u3
      BY <1>4, <2>1, <2>3
    <3>2. /\ w \subseteq 0 .. 31 /\ 25 \in w /\ 27 \in w
          /\ 26 \notin w /\ 28 \notin w /\ 24 \notin w
      BY <1>5, <3>1
    <3>3. QED BY <3>2 DEF Word
  <2>4. QED BY <2>2, <2>3
<1>7. DPReg(w)
  BY <1>6 DEF DPReg
<1>8. CASE w = HALT_INSTRUCTION
  BY <1>0, <1>6, <1>8, HaltClass, ShapedOf
<1>9. CASE w # HALT_INSTRUCTION
  <2>1. Ordinary(w)
    BY <1>6, <1>9, SpecialBits DEF Ordinary
  <2>2. Decode(w).op \in {"arith_reg", "logic_reg", "illegal"}
    <3>1. CASE RegArith(w) BY <2>1, <3>1, <1>6, RegArithClass
    <3>2. CASE RegLogic(w) BY <2>1, <3>2, <1>6, RegLogicClass
    <3>3. CASE 24 \in w /\ {22, 23} \subseteq w
      <4>1. Decode(w) = [op |-> "illegal"]
        BY <1>6, <1>7, <2>1, <3>3, RegDecoded
      <4>2. QED BY <4>1
    <3>4. QED BY <1>6, <1>7, <3>1, <3>2, <3>3 DEF RegArith, RegLogic
  <2>3. QED BY <1>0, <1>6, <2>2, ShapedOf
<1>10. QED BY <1>8, <1>9

\* What a multiplication is assembled to.
LEMMA MulShaped ==
    ASSUME NEW u, u \subseteq (0 .. 4) \cup (10 .. 14) \cup {31},
           NEW x \in Int, NEW rn \in Register, NEW rm \in Register
    PROVE  Shaped(handle_multiply(u, x, rn, rm))
<1> DEFINE u1 == u \cup Halves(\h1B00, 0)
           u2 == SetBits(u1, REG.RN, get_register(rn))
           u3 == SetBits(u2, REG.RM, get_register(rm))
           w == SetBits(u3, REG.X, x)
<1>0. handle_multiply(u, x, rn, rm) = w
  BY DEF handle_multiply
<1>1. u1 = u \cup {24, 25, 27, 28}
  BY Constants
<1> HIDE DEF u1
<1>2. u1 \subseteq u2 /\ u2 \subseteq u1 \cup (5 .. 9)
  BY AddsRegister, Adds, Fields
<1> HIDE DEF u2
<1>3. u2 \subseteq u3 /\ u3 \subseteq u2 \cup (16 .. 20)
  BY AddsRegister, Adds, Fields
<1> HIDE DEF u3
<1>4. u3 \subseteq w /\ w \subseteq u3 \cup {15}
  BY Adds, Fields
<1> HIDE DEF w
<1>5. /\ {24, 25, 27, 28} \subseteq w
      /\ w \subseteq (0 .. 20) \cup {24, 25, 27, 28, 31}
  BY <1>1, <1>2, <1>3, <1>4
<1>6. /\ w \in Word /\ w \ {29, 30} = w
      /\ 21 \notin w /\ 22 \notin w /\ 23 \notin w /\ 26 \notin w
      /\ 24 \in w /\ 25 \in w /\ 27 \in w /\ 28 \in w
  BY <1>5 DEF Word
<1>7. RegMultiply(w) /\ Ordinary(w)
  <2>1. w # HALT_INSTRUCTION
    BY <1>6, SpecialBits
  <2>2. w # NOP_INSTRUCTION
    BY <1>6, SpecialBits
  <2>3. QED BY <1>6, <2>1, <2>2 DEF RegMultiply, DPReg, Ordinary
<1>8. Decode(w).op = "multiply_reg"
  BY <1>6, <1>7, RegMultiplyClass
<1>9. QED BY <1>0, <1>6, <1>8 DEF Shaped, IsGarbage, Canonical

\* A line of which no encoding is set: product with an immediate, and a
\* transfer of no known form.
LEMMA BareShaped ==
    ASSUME NEW w, w \subseteq (0 .. 9) \cup {22, 30, 31}
    PROVE  Shaped(w)
<1>1. /\ w \in Word /\ 26 \notin w /\ 27 \notin w /\ 28 \notin w
      /\ 25 \notin w
  BY DEF Word
<1>2. Ordinary(w)
  BY <1>1, SpecialBits DEF Ordinary
<1>3. ~DPImm(w) /\ ~DPReg(w) /\ ~LS(w) /\ ~Branches(w)
  BY <1>1 DEF DPImm, DPReg, LS, Branches
<1>4. QED BY <1>1, <1>2, <1>3, UnallocatedClass, ShapedOf

\* What a load from a literal is assembled to.
LEMMA LoadLiteralShaped ==
    ASSUME NEW r \in Register, NEW n \in Int
    PROVE  Shaped(SetBits(WithRegister(Halves(\h1800, 0), DT_SF, DT_RT, r),
                          DT_SIMM19, n))
<1> DEFINE u == WithRegister({27, 28}, DT_SF, DT_RT, r)
           w == SetBits(u, DT_SIMM19, n)
<1>0. Halves(\h1800, 0) = {27, 28}
  BY Constants
<1>1. {27, 28} \subseteq u /\ u \subseteq {27, 28, 30} \cup (0 .. 4)
  BY AddsRegister, Fields
<1> HIDE DEF u
<1>2. u \subseteq w /\ w \subseteq u \cup (5 .. 23)
  BY Adds, Fields
<1> HIDE DEF w
<1>3. /\ w \subseteq (0 .. 23) \cup {27, 28, 30} /\ {27, 28} \subseteq w
  BY <1>1, <1>2
<1>4. /\ w \in Word /\ IsLiteral(w) /\ LS(w)
  BY <1>3 DEF Word, IsLiteral, LS
<1>5. Ordinary(w)
  BY <1>3, SpecialBits DEF Ordinary
<1>6. Decode(w).op = "load_literal"
  BY <1>4, <1>5, TransferDecoded
<1>7. QED BY <1>0, <1>4, <1>6, ShapedOf DEF u, w

\* What a single data transfer is assembled to.
LEMMA LoadStoreShaped ==
    ASSUME NEW w \in Word, {27, 28, 29, 31} \subseteq w,
           23 \notin w, 25 \notin w, 26 \notin w
    PROVE  Shaped(w)
<1>1. LS(w) /\ IsSdt(w)
  BY DEF LS, IsSdt
<1>2. Ordinary(w)
  BY SpecialBits DEF Ordinary
<1>3. \/ SdtUnsigned(w) \/ SdtRegister(w) \/ SdtIndex(w) \/ SdtInvalid(w)
  BY <1>1 DEF SdtUnsigned, SdtRegister, SdtIndex, SdtInvalid
<1>4. Decode(w).op \in {"sdt_uimm", "sdt_regoffset", "sdt_preind",
                        "sdt_postind", "illegal"}
  BY <1>1, <1>2, <1>3, TransferDecoded
<1>5. QED BY <1>4, ShapedOf

\* Every data transfer accepted.
LEMMA TransferShaped ==
    ASSUME NEW l, IsLine(l), l.form = "transfer", TransferAccepted(l)
    PROVE  Shaped(assemble_load_store(l))
<1> DEFINE bit == IF l.opcode = "ldr" THEN 1 ELSE 0
           u1 == WithRegister({}, DT_SF, DT_RT, l.rt)
           u2 == SetBits(u1, SDT.L, bit)
           u3 == SetBits(u2, SDT.XN, get_register(l.xn))
           w == AddressingMode(u3, l)
<1>1. /\ l.rt \in Register /\ l.xn \in Register
      /\ l.mode \in {"unsigned", "pre", "post", "register", "other"}
      /\ l.mode = "register" => l.offset \in Register
      /\ l.mode # "register" => l.offset.imm \in Int
  BY DEF IsLine, Immediate
<1>2. u1 \subseteq (0 .. 4) \cup {30}
  BY <1>1, AddsRegister, Fields
<1>3. u2 \subseteq u1 \cup {22}
  <2> HIDE DEF u1
  <2>1. bit \in Int
    OBVIOUS
  <2> HIDE DEF bit
  <2>2. QED BY <2>1, Adds, Fields
<1>4. u3 \subseteq u2 \cup (5 .. 9)
  <2>1. get_register(l.xn) \in Int
    BY <1>1 DEF Register, get_register
  <2> HIDE DEF u2
  <2>2. QED BY <2>1, Adds, Fields
<1>5. assemble_load_store(l) = IF l.mode = "other" THEN u2 ELSE w
  BY DEF assemble_load_store
<1> HIDE DEF u1, u2, u3
<1>6. u2 \subseteq (0 .. 9) \cup {22, 30} /\ u3 \subseteq (0 .. 9) \cup {22, 30}
  BY <1>2, <1>3, <1>4
<1>7. CASE l.mode = "other"
  BY <1>5, <1>6, <1>7, BareShaped
<1>8. CASE l.mode = "unsigned"
  <2> DEFINE v == SetBits(u3 \cup {27, 28, 29, 31}, SDT.U, 1)
             q == l.offset.imm \div Scale(l.rt)
  <2>1. w = SetBits(v, SDT.OFFSET, q)
    <3>1. Halves(\hB800, 0) = {27, 28, 29, 31}
      BY Constants
    <3>2. QED BY <1>8, <3>1 DEF AddressingMode
  <2>2. u3 \cup {27, 28, 29, 31} \subseteq v
        /\ v \subseteq u3 \cup {27, 28, 29, 31} \cup {24}
    BY Adds, Fields
  <2>3. q \in Int
    <3>1. l.offset.imm \in Int /\ Scale(l.rt) \in {4, 8}
      BY <1>1, <1>8 DEF Scale
    <3>2. QED BY <3>1
  <2> HIDE DEF v, q, w
  <2>4. v \subseteq w /\ w \subseteq v \cup (10 .. 21)
    BY <2>1, <2>3, Adds, Fields
  <2>5. /\ w \subseteq (0 .. 22) \cup {24, 27, 28, 29, 30, 31}
        /\ {27, 28, 29, 31} \subseteq w
    BY <1>6, <2>2, <2>4
  <2>6. w \in Word /\ 23 \notin w /\ 25 \notin w /\ 26 \notin w
    BY <2>5 DEF Word
  <2>7. QED BY <1>5, <1>8, <2>5, <2>6, LoadStoreShaped
<1>9. CASE l.mode \in {"pre", "post"}
  <2>1. PICK i \in {0, 1} : w = IndexWord(u3, l, i)
    BY <1>9 DEF AddressingMode
  <2> DEFINE v == SetBits(u3 \cup {10, 27, 28, 29, 31}, SDT.I, i)
  <2>2. {27, 28, 29, 31, 10} = {10, 27, 28, 29, 31}
    OBVIOUS
  <2>3. w = SetBits(v, SDT.SIMM9, l.offset.imm)
    BY <2>1, <2>2, Constants, SMTT(30) DEF IndexWord
  <2>4. u3 \cup {10, 27, 28, 29, 31} \subseteq v
        /\ v \subseteq u3 \cup {10, 27, 28, 29, 31} \cup {11}
    BY Adds, Fields
  <2>5. l.offset.imm \in Int
    BY <1>1, <1>9
  <2> HIDE DEF v, w
  <2>6. v \subseteq w /\ w \subseteq v \cup (12 .. 20)
    BY <2>3, <2>5, Adds, Fields
  <2>7. /\ w \subseteq (0 .. 22) \cup {27, 28, 29, 30, 31}
        /\ {27, 28, 29, 31} \subseteq w
    BY <1>6, <2>4, <2>6
  <2>8. w \in Word /\ 23 \notin w /\ 25 \notin w /\ 26 \notin w
    BY <2>7 DEF Word
  <2>9. QED BY <1>5, <1>9, <2>7, <2>8, LoadStoreShaped
<1>10. CASE l.mode = "register"
  <2> DEFINE v == u3 \cup {21, 27, 28, 29, 31, 11, 13, 14}
  <2>1. w = SetBits(v, SDT.XM, get_register(l.offset))
    BY <1>10, Constants, SMTT(30) DEF AddressingMode
  <2>2. get_register(l.offset) \in Int
    BY <1>1, <1>10 DEF Register, get_register
  <2> HIDE DEF w
  <2>3. v \subseteq w /\ w \subseteq v \cup (16 .. 20)
    BY <2>1, <2>2, Adds, Fields
  <2>4. /\ w \subseteq (0 .. 22) \cup {27, 28, 29, 30, 31}
        /\ {27, 28, 29, 31} \subseteq w
    BY <1>6, <2>3
  <2>5. w \in Word /\ 23 \notin w /\ 25 \notin w /\ 26 \notin w
    BY <2>4 DEF Word
  <2>6. QED BY <1>5, <1>10, <2>4, <2>5, LoadStoreShaped
<1>11. QED BY <1>1, <1>7, <1>8, <1>9, <1>10

\* Every branch accepted.
LEMMA BranchShaped ==
    ASSUME NEW l, IsLine(l), l.form \in {"b", "br", "b."}, Accepted(l),
           NEW here \in Int
    PROVE  Shaped(assemble_branch(l, here))
<1> DEFINE w == assemble_branch(l, here)
           n == WordOffset(l.target, here)
<1>1. CASE l.form = "b"
  <2>1. w = SetBits({26, 28}, BRANCH.SIMM26, n)
    <3>1. Halves(\h1400, 0) = {26, 28}
      BY Constants
    <3>2. QED BY <1>1, <3>1 DEF assemble_branch
  <2>2. n \in Int
    BY <1>1 DEF IsLine, WordOffset
  <2> HIDE DEF w, n
  <2>3. {26, 28} \subseteq w /\ w \subseteq {26, 28} \cup (0 .. 25)
    BY <2>1, <2>2, Adds, Fields
  <2>4. /\ w \in Word /\ 26 \in w /\ 28 \in w /\ 27 \notin w /\ 29 \notin w
        /\ 30 \notin w /\ 31 \notin w
    BY <2>3 DEF Word
  <2>5. IsUncon(w) /\ Branches(w)
    BY <2>4 DEF IsUncon, Branches
  <2>6. Ordinary(w)
    BY <2>4, SpecialBits DEF Ordinary
  <2>7. Decode(w).op = "b"
    BY <2>5, <2>6, BranchDecoded
  <2>8. QED BY <2>4, <2>7, ShapedOf DEF w
<1>2. CASE l.form = "br"
  <2> DEFINE u == {16, 17, 18, 19, 20, 25, 26, 28, 30, 31}
             r == get_register(l.xn)
  <2>1. w = SetBits(u, BRANCH.REG, r)
    <3>1. Halves(\hD61F, 0) = u
      BY Constants
    <3>2. QED BY <1>2, <3>1 DEF assemble_branch
  <2>2. r \in Int
    BY <1>2 DEF IsLine, Register, get_register
  <2> HIDE DEF w, r
  <2>3. u \subseteq w /\ w \subseteq u \cup (5 .. 9)
    BY <2>1, <2>2, Adds, Fields
  <2>4. w \in Word /\ IsBr(w) /\ Branches(w)
    BY <2>3 DEF Word, IsBr, Branches
  <2>5. Ordinary(w)
    BY <2>3, SpecialBits DEF Ordinary
  <2>6. Decode(w).op = "br"
    BY <2>4, <2>5, BranchDecoded
  <2>7. QED BY <2>4, <2>6, ShapedOf DEF w
<1>3. CASE l.form = "b."
  <2> DEFINE u == SetBits({26, 28, 30}, BRANCH.SIMM19, n)
  <2>1. w = SetBits(u, BRANCH.COND, cond_value[l.cond])
    <3>1. Halves(\h5400, 0) = {26, 28, 30}
      BY Constants
    <3>2. QED BY <1>3, <3>1 DEF assemble_branch
  <2>2. n \in Int /\ cond_value[l.cond] \in Int
    <3>1. l.cond \in DOMAIN cond_value
      BY <1>3 DEF Accepted, Dispatched
    <3>2. cond_value[l.cond] \in Int
      BY <3>1 DEF cond_value
    <3>3. QED BY <1>3, <3>2 DEF IsLine, WordOffset
  <2>3. {26, 28, 30} \subseteq u /\ u \subseteq {26, 28, 30} \cup (5 .. 23)
    <3> HIDE DEF n
    <3>1. QED BY <2>2, Adds, Fields
  <2> HIDE DEF w, n, u
  <2>4. u \subseteq w /\ w \subseteq u \cup (0 .. 3)
    BY <2>1, <2>2, Adds, Fields
  <2>5. {26, 28, 30} \subseteq w
        /\ w \subseteq {26, 28, 30} \cup (0 .. 3) \cup (5 .. 23)
    BY <2>3, <2>4
  <2>6. w \in Word /\ IsCond(w) /\ Branches(w)
    BY <2>5 DEF Word, IsCond, Branches
  <2>7. Ordinary(w)
    BY <2>5, SpecialBits DEF Ordinary
  <2>8. Decode(w).op = "b_cond"
    BY <2>6, <2>7, BranchDecoded
  <2>9. QED BY <2>6, <2>8, ShapedOf DEF w
<1>4. QED BY <1>1, <1>2, <1>3

\* What a wide move is assembled to.
LEMMA WideShaped ==
    ASSUME NEW u, u \subseteq (0 .. 4) \cup {31}, NEW l,
           l.opcode \in wide_move_opcodes, l.operand \in Immediate,
           IsShift(l.shift)
    PROVE  Shaped(handle_wide_move(u, l))
<1> DEFINE u1 == u \cup {28}
           u2 == SetBits(u1, IMM.OPI, IMM_WIDE_MOVE_OPI)
           u3 == SetBits(u2, IMM.IMM16, l.operand.imm)
           u4 == SetBits(u3, REG.OPC, wide_move_opc[l.opcode])
           w == handle_wide_move(u, l)
<1>1. w = IF l.shift = NoShift
          THEN u4
          ELSE SetBits(u4, IMM.HW, (l.shift.amount % 256) \div 16)
  <2>1. Halves(\h1000, 0) = {28}
    BY Constants
  <2> HIDE DEF w
  <2>2. w = handle_wide_move(u, l)
    BY DEF w
  <2> DEFINE h == Halves(\h1000, 0)
             t == SetBits(SetBits(SetBits(u \cup h, IMM.OPI, IMM_WIDE_MOVE_OPI),
                                  IMM.IMM16, l.operand.imm),
                          REG.OPC, wide_move_opc[l.opcode])
  <2>3. w = IF l.shift = NoShift
            THEN t
            ELSE SetBits(t, IMM.HW, (l.shift.amount % 256) \div 16)
    <3> HIDE DEF h
    <3>1. QED BY <2>2 DEF handle_wide_move, h
  <2>4. t = u4
    BY <2>1
  <2> HIDE DEF t, u4
  <2>5. QED BY <2>3, <2>4
<1>2. u2 = u1 \cup {23, 25}
  <2>1. SetBits(u1, IMM.OPI, 5) = u1 \cup {23 + k : k \in Bits(5 % 2^3)}
    BY DEF SetBits, IMM
  <2>2. 5 % 2^3 = 5
    OBVIOUS
  <2>3. Bits(5) = {0, 2}
    BY Ones
  <2>4. QED BY <2>1, <2>2, <2>3 DEF IMM_WIDE_MOVE_OPI
<1> HIDE DEF u2
<1>3. u2 \subseteq u3 /\ u3 \subseteq u2 \cup (5 .. 20)
  BY Adds, Fields DEF Immediate
<1> HIDE DEF u3
<1>4. /\ u4 \subseteq (0 .. 20) \cup {23, 25, 28, 29, 30, 31}
      /\ {23, 25, 28} \subseteq u4
      /\ SelectBits(u4, REG.OPC) # 1
  <2>1. wide_move_opc[l.opcode] \in {0, 2, 3}
    BY DEF wide_move_opc, wide_move_opcodes
  <2> DEFINE n == wide_move_opc[l.opcode]
  <2> HIDE DEF n
  <2>2. u3 \subseteq u4 /\ u4 \subseteq u3 \cup (29 .. 30)
    BY <2>1, Adds, Fields DEF n
  <2>3. u3 \subseteq (0 .. 20) \cup {23, 25, 28, 31} /\ {23, 25, 28} \subseteq u3
    BY <1>2, <1>3
  <2>4. SelectBits(SetBits(u3, REG.OPC, n), REG.OPC) = n
    <3>1. IsField(REG.OPC) /\ Span(REG.OPC) = 29 .. 30 /\ Limit(REG.OPC) = 4
      BY Fields
    <3>2. u3 \cap (29 .. 30) = {}
      BY <2>3
    <3>3. QED BY <2>1, <3>1, <3>2, PutSelects DEF n
  <2>5. QED BY <2>1, <2>2, <2>3, <2>4 DEF n
<1> HIDE DEF u4
<1>5. u4 \subseteq w /\ w \subseteq u4 \cup (21 .. 22)
  <2>1. CASE l.shift = NoShift
    BY <1>1, <2>1
  <2>2. CASE l.shift # NoShift
    <3>1. (l.shift.amount % 256) \div 16 \in Int
      <4>1. l.shift.amount \in Int
        BY <2>2 DEF IsShift
      <4>2. QED BY <4>1
    <3> DEFINE n == (l.shift.amount % 256) \div 16
    <3>2. w = SetBits(u4, IMM.HW, n)
      BY <1>1, <2>2
    <3> HIDE DEF n, w
    <3>3. QED BY <3>1, <3>2, Adds, Fields DEF n
  <2>3. QED BY <2>1, <2>2
<1> HIDE DEF w
<1>6. /\ w \subseteq (0 .. 23) \cup {25, 28, 29, 30, 31}
      /\ {23, 25, 28} \subseteq w
  BY <1>4, <1>5
<1>7. w \in Word /\ WideMove(w)
  BY <1>6 DEF Word, WideMove, DPImm
<1>8. Ordinary(w)
  BY <1>6, SpecialBits DEF Ordinary
<1>9. SelectBits(w, REG.OPC) = SelectBits(u4, REG.OPC)
  <2>1. \A k \in 29 .. 30 : k \in w <=> k \in u4
    BY <1>5
  <2>2. QED BY <2>1, SameSelected, Fields
<1>10. Decode(w).op = "wide_move" /\ Decode(w).opc # 1
  BY <1>4, <1>7, <1>8, <1>9, WideMoveDecoded
<1>11. QED BY <1>7, <1>10 DEF Shaped, IsGarbage, Canonical, w

\* An operand is an immediate or a register.
LEMMA Operands ==
    ASSUME NEW operand \in Register \cup Immediate
    PROVE  IF is_immediate(operand)
           THEN operand \in Immediate ELSE operand \in Register
<1>1. CASE operand \in Register
  BY <1>1 DEF Register, is_immediate
<1>2. CASE operand \in Immediate
  BY <1>2 DEF Immediate, is_immediate
<1>3. QED BY <1>1, <1>2

\* What a line of two operands is assembled to.
LEMMA TwoOpShaped ==
    ASSUME NEW u, u \subseteq (0 .. 9) \cup {31},
           NEW opcode \in arithmetic_opcodes \cup bit_logic_opcodes,
           NEW operand \in Register \cup Immediate,
           NEW shift, IsShift(shift), TwoOpAccepted(opcode, operand, shift)
    PROVE  Shaped(handle_two_op(u, opcode, operand, shift))
<1>1. CASE is_immediate(operand)
  <2>1. operand \in Immediate /\ opcode \in arithmetic_opcodes
    BY <1>1, Operands DEF TwoOpAccepted
  <2>2. QED BY <1>1, <2>1, ImmShaped DEF handle_two_op
<1>2. CASE ~is_immediate(operand)
  <2>1. operand \in Register /\ ShiftAccepted(shift)
    BY <1>2, Operands DEF TwoOpAccepted
  <2>2. QED BY <1>2, <2>1, RegShaped DEF handle_two_op
<1>3. QED BY <1>1, <1>2

\* The word with the width and rd, and rd and one field more.
LEMMA Destination ==
    ASSUME NEW u, NEW r \in Register
    PROVE  WithRegister(u, REG.SF, REG.RD, r) \subseteq u \cup (0 .. 4) \cup {31}
<1>1. WithRegister(u, REG.SF, REG.RD, r)
        \subseteq u \cup Span(REG.SF) \cup Span(REG.RD)
  BY AddsRegister, Fields
<1>2. QED BY <1>1, Fields

\* Every line of two operands, or without a destination, accepted.
LEMMA TwoOpLineShaped ==
    ASSUME NEW l, IsLine(l), l.form \in {"two_op", "no_dest"}, Accepted(l),
           NEW here
    PROVE  Shaped(Assembled(l, here))
<1>1. l.rn \in Register /\ l.operand \in Register \cup Immediate
      /\ IsShift(l.shift)
  BY DEF IsLine
<1>2. get_register(l.rn) \in Int
  BY <1>1 DEF Register, get_register
<1>3. CASE l.form = "two_op"
  <2> DEFINE t == SetBits({}, REG.RN, get_register(l.rn))
             u == WithRegister(t, REG.SF, REG.RD, l.rd)
  <2>1. t \subseteq 5 .. 9
    <3>1. t \subseteq {} \cup Span(REG.RN)
      BY <1>2, Adds, Fields
    <3>2. QED BY <3>1, Fields
  <2>2. Assembled(l, here) = handle_two_op(u, l.opcode, l.operand, l.shift)
    BY <1>3 DEF Assembled, assemble_two_op
  <2> HIDE DEF t
  <2>3. u \subseteq t \cup (0 .. 4) \cup {31}
    BY <1>3, Destination DEF IsLine
  <2>4. /\ l.opcode \in arithmetic_opcodes \cup bit_logic_opcodes
        /\ TwoOpAccepted(l.opcode, l.operand, l.shift)
    BY <1>3 DEF Accepted, Dispatched, OperandsAccepted, is_two_op_opcode
  <2> HIDE DEF u
  <2>5. u \subseteq (0 .. 9) \cup {31}
    BY <2>1, <2>3
  <2>6. QED BY <1>1, <2>2, <2>4, <2>5, TwoOpShaped
<1>4. CASE l.form = "no_dest"
  <2> DEFINE t == WithRegister({}, REG.SF, REG.RN, l.rn)
             u == SetBits(t, REG.RD, ZR_REG)
             o == no_dest_opcode[l.opcode]
  <2>1. t \subseteq {31} \cup (5 .. 9)
    <3>1. t \subseteq {} \cup Span(REG.SF) \cup Span(REG.RN)
      BY <1>1, AddsRegister, Fields
    <3>2. QED BY <3>1, Fields
  <2>2. Assembled(l, here) = handle_two_op(u, o, l.operand, l.shift)
    BY <1>4 DEF Assembled, assemble_no_dest
  <2> HIDE DEF t
  <2>3. u \subseteq t \cup (0 .. 4)
    <3>1. ZR_REG \in Int
      BY DEF ZR_REG
    <3>2. QED BY <3>1, Adds, Fields
  <2>4. l.opcode \in no_dest_opcodes /\ TwoOpAccepted(o, l.operand, l.shift)
    BY <1>4 DEF Accepted, Dispatched, OperandsAccepted
  <2>5. o \in arithmetic_opcodes \cup bit_logic_opcodes
    BY <2>4 DEF no_dest_opcode, no_dest_opcodes, arithmetic_opcodes,
                bit_logic_opcodes
  <2> HIDE DEF u, o
  <2>6. u \subseteq (0 .. 9) \cup {31}
    BY <2>1, <2>3
  <2>7. QED BY <1>1, <2>2, <2>4, <2>5, <2>6, TwoOpShaped
<1>5. QED BY <1>3, <1>4

\* Every line of one operand accepted.
LEMMA SingleOpShaped ==
    ASSUME NEW l, IsLine(l), l.form = "single_op", Accepted(l), NEW here
    PROVE  Shaped(Assembled(l, here))
<1> DEFINE u == WithRegister({}, REG.SF, REG.RD, l.rd)
<1>1. l.operand \in Register \cup Immediate /\ IsShift(l.shift)
      /\ l.opcode \notin {"mul", "mneg"}
  BY DEF IsLine
<1>2. u \subseteq {} \cup (0 .. 4) \cup {31}
  BY Destination DEF IsLine
<1>3. Assembled(l, here) = IF l.opcode \in wide_move_opcodes
                           THEN handle_wide_move(u, l) ELSE handle_alias(u, l)
  BY DEF Assembled, assemble_single_op
<1>4. SingleOpAccepted(l) /\ is_single_op_opcode(l.opcode)
  BY DEF Accepted, Dispatched, OperandsAccepted
<1> HIDE DEF u
<1>5. CASE l.opcode \in wide_move_opcodes
  <2>1. l.operand \in Immediate
    BY <1>1, <1>4, <1>5, Operands DEF SingleOpAccepted, WideMoveAccepted
  <2>2. QED BY <1>1, <1>2, <1>3, <1>5, <2>1, WideShaped
<1>6. CASE l.opcode \notin wide_move_opcodes
  <2> DEFINE o == alias_opcode[l.opcode]
  <2>1. l.opcode \in {"mov", "neg", "negs", "mvn"}
    BY <1>1, <1>4, <1>6 DEF is_single_op_opcode, single_op_alias_opcodes
  <2>2. o \in arithmetic_opcodes \cup bit_logic_opcodes
    BY <2>1 DEF alias_opcode, arithmetic_opcodes, bit_logic_opcodes
  <2>3. TwoOpAccepted(o, l.operand, NoShift)
    BY <1>4, <1>6 DEF SingleOpAccepted, AliasAccepted
  <2> DEFINE t == SetBits(u, REG.RN, ZR_REG)
  <2>4. t \subseteq u \cup (5 .. 9)
    <3>1. ZR_REG \in Int
      BY DEF ZR_REG
    <3>2. QED BY <3>1, Adds, Fields
  <2>5. Assembled(l, here)
          = IF is_immediate(l.operand)
            THEN handle_two_op(u, o, l.operand, NoShift)
            ELSE handle_two_op(t, o, l.operand, NoShift)
    BY <1>3, <1>6 DEF handle_alias, handle_two_op
  <2> HIDE DEF t, o
  <2>6. u \subseteq (0 .. 9) \cup {31} /\ t \subseteq (0 .. 9) \cup {31}
    BY <1>2, <2>4
  <2>7. IsShift(NoShift)
    BY DEF IsShift
  <2>8. QED BY <1>1, <2>2, <2>3, <2>5, <2>6, <2>7, TwoOpShaped
<1>7. QED BY <1>5, <1>6

\* Every multiplication accepted.
LEMMA MultiplyLineShaped ==
    ASSUME NEW l, IsLine(l), l.form \in {"multiply", "product"}, Accepted(l),
           NEW here
    PROVE  Shaped(Assembled(l, here))
<1> DEFINE u == WithRegister({}, REG.SF, REG.RD, l.rd)
           x == multiply_x[l.opcode]
<1>1. u \subseteq {} \cup (0 .. 4) \cup {31}
  BY Destination DEF IsLine
<1>2. CASE l.form = "multiply"
  <2> DEFINE t == SetBits(u, REG.RA, get_register(l.ra))
  <2>1. l.ra \in Register /\ l.rn \in Register /\ l.rm \in Register
    BY <1>2 DEF IsLine
  <2>2. get_register(l.ra) \in Int
    BY <2>1 DEF Register, get_register
  <2>3. x \in Int
    <3>1. l.opcode \in multiply_opcodes
      BY <1>2 DEF Accepted, Dispatched
    <3>2. QED BY <3>1 DEF multiply_opcodes, multiply_x
  <2>4. Assembled(l, here) = handle_multiply(t, x, l.rn, l.rm)
    BY <1>2 DEF Assembled, assemble_multiply
  <2> HIDE DEF u, x
  <2>5. t \subseteq u \cup (10 .. 14)
    BY <2>2, Adds, Fields
  <2> HIDE DEF t
  <2>6. t \subseteq (0 .. 4) \cup (10 .. 14) \cup {31}
    BY <1>1, <2>5
  <2>7. QED BY <2>1, <2>3, <2>4, <2>6, MulShaped
<1>3. CASE l.form = "product" /\ is_immediate(l.rn)
  <2>1. Assembled(l, here) = u
    BY <1>3 DEF Assembled, assemble_product
  <2> HIDE DEF u
  <2>2. u \subseteq (0 .. 9) \cup {22, 30, 31}
    BY <1>1
  <2>3. QED BY <2>1, <2>2, BareShaped
<1>4. CASE l.form = "product" /\ ~is_immediate(l.rn)
  <2> DEFINE t == SetBits(u, REG.RA, ZR_REG)
  <2>1. l.rn \in Register /\ l.rm \in Register
    BY <1>4, Operands DEF IsLine
  <2>2. x \in Int
    <3>1. l.opcode \in {"mul", "mneg"}
      BY <1>4 DEF Accepted, Dispatched
    <3>2. QED BY <3>1 DEF multiply_x
  <2>3. Assembled(l, here) = handle_multiply(t, x, l.rn, l.rm)
    BY <1>4 DEF Assembled, assemble_product
  <2> HIDE DEF u, x
  <2>4. t \subseteq u \cup (10 .. 14)
    <3>1. ZR_REG \in Int
      BY DEF ZR_REG
    <3>2. QED BY <3>1, Adds, Fields
  <2> HIDE DEF t
  <2>5. t \subseteq (0 .. 4) \cup (10 .. 14) \cup {31}
    BY <1>1, <2>4
  <2>6. QED BY <2>1, <2>2, <2>3, <2>5, MulShaped
<1>5. QED BY <1>2, <1>3, <1>4

\* What a line other than .int is assembled to; .int gives any word.
LEMMA AssembledShaped ==
    ASSUME NEW l, IsLine(l), Accepted(l), NEW here \in Int
    PROVE  /\ Assembled(l, here) \in Word
           /\ l.form # ".int" => Shaped(Assembled(l, here))
<1>1. CASE l.form \in {"two_op", "no_dest"}
  BY <1>1, TwoOpLineShaped DEF Shaped
<1>2. CASE l.form = "single_op"
  BY <1>2, SingleOpShaped DEF Shaped
<1>3. CASE l.form \in {"multiply", "product"}
  BY <1>3, MultiplyLineShaped DEF Shaped
<1>4. CASE l.form = "transfer"
  <2>1. TransferAccepted(l) /\ Assembled(l, here) = assemble_load_store(l)
    BY <1>4 DEF Accepted, OperandsAccepted, Assembled
  <2>2. QED BY <1>4, <2>1, TransferShaped DEF Shaped
<1>5. CASE l.form = "literal"
  <2>1. l.rt \in Register /\ WordOffset(l.address, here) \in Int
    BY <1>5 DEF IsLine, WordOffset
  <2>2. Assembled(l, here)
          = SetBits(WithRegister(Halves(\h1800, 0), DT_SF, DT_RT, l.rt),
                    DT_SIMM19, WordOffset(l.address, here))
    BY <1>5 DEF Assembled, assemble_load_literal
  <2>3. QED BY <2>1, <2>2, LoadLiteralShaped DEF Shaped
<1>6. CASE l.form \in {"b", "br", "b."}
  <2>1. Assembled(l, here) = assemble_branch(l, here)
    BY <1>6 DEF Assembled
  <2>2. QED BY <1>6, <2>1, BranchShaped DEF Shaped
<1>7. CASE l.form = "nop"
  <2>1. Assembled(l, here) = NOP_INSTRUCTION
    BY <1>7 DEF Assembled
  <2>2. NOP_INSTRUCTION \in Word
    BY SpecialBits DEF Word
  <2>3. QED BY <2>1, <2>2, NopClass, ShapedOf DEF Shaped
<1>8. CASE l.form = ".int"
  BY <1>8 DEF Assembled, IsLine
<1>9. l.form # "garbage"
  BY DEF Accepted, Dispatched
<1>10. QED
  BY <1>1, <1>2, <1>3, <1>4, <1>5, <1>6, <1>7, <1>8, <1>9 DEF IsLine

-----------------------------------------------------------------------------
(***************************************************************************)
(* The invariant of the chain.                                             *)
(***************************************************************************)
\* What may be printed of a word of the binary.
Printed(k) == Printer!disassemble_cycle(binary[k], 4 * (k - 1))
IsPrinted(k) == Decode(binary[k]).op # "unhandled"

\* The words written come from lines that were accepted.
SourceInv ==
    /\ IsText(source) /\ base \in Nat
    /\ phase = "assembling" \/ source # <<>> =>
          /\ Len(binary) <= Len(source)
          /\ \A k \in 1 .. Len(binary) :
                /\ Accepted(source[k])
                /\ binary[k] = Assembled(source[k], base + 4 * (k - 1))

\* The text is that of the words up to pc: every line is of one of them,
\* each of them but the unhandled ones has a line, and when there is no
\* unhandled one the lines and the words have the same numbers.
TextInv ==
    /\ IsText(text)
    /\ \A k \in 1 .. pc : ~Printer!Unprintable(binary[k])
    /\ \A j \in 1 .. Len(text) : \E k \in 1 .. pc : <<text[j]>> \in Printed(k)
    /\ \A k \in 1 .. pc :
          IsPrinted(k) =>
              \E j \in 1 .. Len(text) : <<text[j]>> \in Printed(k)
    /\ (\A k \in 1 .. pc : IsPrinted(k)) =>
          Len(text) = pc /\ \A k \in 1 .. pc : <<text[k]>> \in Printed(k)

\* How far the disassembler has come.
ProgressInv ==
    /\ 4 * pc <= MEMORY_CAPACITY
    /\ phase \in {"reassembling", "rejected", "done"} => 4 * pc >= file_size
    /\ phase = "exited" =>
          /\ 4 * pc < file_size
          /\ Beyond \/ Printer!Unprintable(binary[pc + 1])

\* The words written the second time.
AgainInv ==
    /\ \A j \in 1 .. Len(again) :
          Accepted(text[j]) /\ again[j] = Assembled(text[j], 4 * (j - 1))
    /\ phase = "rejected" => \E j \in 1 .. Len(text) : ~Accepted(text[j])
    /\ phase = "done" => Len(again) = Len(text)

\* The inductive invariant.
ChainInv == TypeOK /\ SourceInv /\ TextInv /\ ProgressInv /\ AgainInv

-----------------------------------------------------------------------------
\* A text and one line more.
LEMMA TextParts ==
    ASSUME NEW t, IsText(t)
    PROVE  /\ Len(t) \in Nat /\ DOMAIN t = 1 .. Len(t)
           /\ \A k \in 1 .. Len(t) : IsLine(t[k])
<1>1. t \in Seq(Range(t))
  BY DEF IsText
<1>2. Len(t) \in Nat /\ DOMAIN t = 1 .. Len(t)
  BY <1>1, LenProperties
<1>3. \A k \in 1 .. Len(t) : t[k] \in Range(t)
  BY <1>2 DEF Range
<1>4. QED BY <1>2, <1>3 DEF IsText

\* The empty text.
LEMMA NoText == IsText(<<>>) /\ Len(<<>>) = 0
<1>1. <<>> \in Seq(Range(<<>>)) /\ Len(<<>>) = 0
  BY EmptySeq
<1>2. DOMAIN <<>> = 1 .. 0
  BY <1>1, LenProperties
<1>3. Range(<<>>) = {}
  BY <1>2 DEF Range
<1>4. QED BY <1>1, <1>3 DEF IsText

\* A text and one line more.
LEMMA TextExtended ==
    ASSUME NEW t, IsText(t), NEW l, IsLine(l)
    PROVE  /\ IsText(t \o <<l>>) /\ Len(t \o <<l>>) = Len(t) + 1
           /\ \A k \in 1 .. Len(t) : (t \o <<l>>)[k] = t[k]
           /\ (t \o <<l>>)[Len(t) + 1] = l
<1> DEFINE S == Range(t) \cup {l}
           u == t \o <<l>>
           n == Len(t)
<1>1. t \in Seq(S)
  BY SeqMonotonic DEF IsText
<1>2. <<l>> \in Seq(S) /\ Len(<<l>>) = 1 /\ <<l>>[1] = l
  OBVIOUS
<1>3. n \in Nat
  BY TextParts
<1>4. /\ u \in Seq(S) /\ Len(u) = n + 1
      /\ \A i \in 1 .. n + 1 : u[i] = IF i <= n THEN t[i] ELSE <<l>>[i - n]
  <2> HIDE DEF S
  <2>1. QED BY <1>1, <1>2, ConcatProperties
<1> HIDE DEF n
<1>5. \A i \in 1 .. n : u[i] = t[i]
  BY <1>3, <1>4
<1>6. u[n + 1] = l
  <2>1. n + 1 \in 1 .. n + 1 /\ ~(n + 1 <= n) /\ (n + 1) - n = 1
    BY <1>3
  <2>2. QED BY <1>2, <1>4, <2>1
<1>7. u \in Seq(Range(u)) /\ Range(u) \subseteq S
  BY <1>4, SeqOfRange, RangeOfSeq
<1>8. \A line \in S : IsLine(line)
  BY DEF IsText
<1> HIDE DEF S, u
<1>9. IsText(u)
  BY <1>7, <1>8 DEF IsText
<1>10. QED BY <1>4, <1>5, <1>6, <1>9 DEF u, n

\* What a word that is printed prints: nothing or one line.
LEMMA LinesOf ==
    ASSUME NEW w \in Word, NEW a \in Nat, a % 4 = 0, ~Printer!Unprintable(w),
           NEW lines \in Printer!disassemble_cycle(w, a)
    PROVE  /\ Decode(w).op = "unhandled" => lines = <<>>
           /\ Decode(w).op # "unhandled" =>
                \E l : IsLine(l) /\ lines = <<l>>
<1>1. Outcome(w, a)
  BY WordOutcome
<1>2. CASE Silent(w, a) /\ Decode(w).op = "unhandled"
  BY <1>2 DEF Silent
<1>3. CASE Kept(w, a) /\ ~LostWord(w)
  BY <1>3 DEF Kept, Returns, LostWord
<1>4. CASE Refused(w, a) /\ (~LostWord(w) \/ Doubled(w))
  BY <1>4 DEF Refused, LostWord, Doubled
<1>5. CASE Changed(w, a) /\ Doubled(w)
  BY <1>5 DEF Changed, Doubled
<1>6. CASE OneLine(w, a) /\ IsGarbage(w)
  BY <1>6 DEF OneLine, IsGarbage
<1>7. QED BY <1>1, <1>2, <1>3, <1>4, <1>5, <1>6 DEF Outcome

\* The bounds of the size of a file.
LEMMA SizeBounds ==
    ASSUME NEW words \in Seq(Word), NEW size \in SizesOf(words)
    PROVE  /\ size \in Nat /\ size <= 4 * Len(words)
           /\ size > 4 * (Len(words) - 1)
<1>1. Len(words) \in Nat /\ (words # <<>> => Len(words) > 0)
  BY EmptySeq, LenProperties
<1>2. CASE words = <<>>
  BY <1>2 DEF SizesOf
<1>3. CASE words # <<>>
  <2>1. PICK n \in 1 .. 4 : size = 4 * (Len(words) - 1) + n
    BY <1>3 DEF SizesOf
  <2>2. QED BY <1>1, <1>3, <2>1
<1>4. QED BY <1>2, <1>3

\* A file may be as long as all its words.
LEMMA WholeSize ==
    ASSUME NEW words \in Seq(Word)
    PROVE  4 * Len(words) \in SizesOf(words)
<1>1. Len(words) \in Nat /\ (words # <<>> => Len(words) > 0)
  BY EmptySeq, LenProperties
<1>2. CASE words = <<>>
  BY <1>2 DEF SizesOf
<1>3. CASE words # <<>>
  <2> DEFINE w == words[Len(words)]
  <2>1. w \subseteq 0 .. 31
    <3>1. Len(words) \in 1 .. Len(words)
      BY <1>1, <1>3
    <3>2. w \in Word
      BY <3>1, ElementOfSeq
    <3>3. QED BY <3>2 DEF Word
  <2> HIDE DEF w
  <2>2. 4 \in {k \in 1 .. 4 : w \subseteq 0 .. 8 * k - 1}
    <3>1. 8 * 4 - 1 = 31
      OBVIOUS
    <3>2. w \subseteq 0 .. 8 * 4 - 1
      BY <2>1, <3>1
    <3>3. QED BY <3>2
  <2>3. 4 * (Len(words) - 1) + 4 = 4 * Len(words)
    BY <1>1
  <2>4. QED BY <1>3, <2>2, <2>3 DEF SizesOf, w
<1>4. QED BY <1>2, <1>3

-----------------------------------------------------------------------------
\* The invariant holds when the assembler starts.
LEMMA InitialChain == Init => ChainInv
<1> SUFFICES ASSUME Init PROVE ChainInv
  OBVIOUS
<1>1. pc = 0 /\ text = <<>> /\ again = <<>> /\ IsText(<<>>) /\ Len(<<>>) = 0
  BY NoText DEF Init
<1>2. /\ again \in Seq(Word) /\ Len(text) = 0 /\ Len(again) = 0
  BY <1>1, EmptySeq
<1>3. /\ phase \in {"assembling", "opening"} /\ binary \in Seq(Word)
      /\ phase = "assembling" \/ file_size \in SizesOf(binary)
      /\ IsText(source) /\ base \in Nat
      /\ phase = "assembling" \/ source # <<>> => binary = <<>>
  <2>1. CASE /\ source \in Sources /\ base \in Bases
             /\ phase = "assembling" /\ binary = <<>> /\ file_size = 0
    BY <2>1, EmptySeq, SourcesAssumption, BasesAssumption
  <2>2. CASE /\ source = <<>> /\ base = 0
             /\ phase = "opening"
             /\ binary \in Binaries /\ file_size \in SizesOf(binary)
    BY <2>2, NoText, BinariesAssumption
  <2>3. QED BY <2>1, <2>2 DEF Init
<1>4. Len(binary) \in Nat /\ Len(source) \in Nat
  BY <1>3, LenProperties, TextParts
<1>5. TypeOK
  BY <1>1, <1>2, <1>3, <1>4 DEF TypeOK, Failed
<1>6. SourceInv
  BY <1>1, <1>3, <1>4 DEF SourceInv
<1>7. TextInv
  BY <1>1, <1>2 DEF TextInv
<1>8. ProgressInv
  BY <1>1, <1>3, CapacityAssumption DEF ProgressInv
<1>9. AgainInv
  BY <1>2, <1>3 DEF AgainInv
<1>10. QED BY <1>5, <1>6, <1>7, <1>8, <1>9 DEF ChainInv

\* A step that ends in another phase and leaves the rest alone.
LEMMA EndKeeps ==
    ASSUME ChainInv, NEW how, End(how),
           how \in {"opening", "disassembling", "reassembling", "done"}
                     \cup Failed,
           how # "refused" => phase \notin {"assembling", "refused"},
           phase = "assembling" => how = "refused",
           how \in {"reassembling", "rejected", "done"} => 4 * pc >= file_size,
           how = "exited" => /\ 4 * pc < file_size
                             /\ Beyond \/ Printer!Unprintable(binary[pc + 1]),
           how = "rejected" => \E j \in 1 .. Len(text) : ~Accepted(text[j]),
           how = "done" => Len(again) = Len(text)
    PROVE  ChainInv'
<1>1. /\ phase' = how /\ source' = source /\ base' = base
      /\ binary' = binary /\ file_size' = file_size /\ pc' = pc
      /\ text' = text /\ again' = again
  BY DEF End
<1>2. TypeOK'
  BY <1>1 DEF ChainInv, TypeOK, Failed
<1>3. SourceInv'
  BY <1>1 DEF ChainInv, SourceInv, Failed
<1>4. TextInv'
  BY <1>1 DEF ChainInv, TextInv, Printed, IsPrinted
<1>5. ProgressInv'
  BY <1>1 DEF ChainInv, ProgressInv, Beyond
<1>6. AgainInv'
  BY <1>1 DEF ChainInv, AgainInv
<1>7. QED BY <1>2, <1>3, <1>4, <1>5, <1>6 DEF ChainInv

-----------------------------------------------------------------------------
\* The assembler's step keeps the invariant.
LEMMA AssembleKeeps == ChainInv /\ Assemble => ChainInv'
<1> SUFFICES ASSUME ChainInv, Assemble PROVE ChainInv'
  OBVIOUS
<1> DEFINE n == Len(binary)
           line == source[n + 1]
           word == Assembled(line, base + Here(binary))
<1>1. /\ phase = "assembling" /\ n < Len(source) /\ Accepted(line)
      /\ binary' = Append(binary, word)
      /\ source' = source /\ base' = base /\ phase' = phase
      /\ file_size' = file_size /\ pc' = pc /\ text' = text /\ again' = again
  BY DEF Assemble
<1>2. /\ IsText(source) /\ base \in Nat /\ binary \in Seq(Word)
      /\ again \in Seq(Word)
      /\ pc \in 0 .. n /\ Len(text) <= pc /\ Len(again) <= Len(text)
  BY DEF ChainInv, TypeOK, SourceInv
<1>3. n \in Nat /\ Len(source) \in Nat /\ n + 1 \in 1 .. Len(source)
      /\ IsLine(line)
  <2>1. n \in Nat /\ Len(source) \in Nat
    BY <1>2, LenProperties, TextParts
  <2> HIDE DEF n
  <2>2. n + 1 \in 1 .. Len(source)
    BY <1>1, <2>1
  <2>3. QED BY <1>2, <2>1, <2>2, TextParts
<1>4. base + Here(binary) = base + 4 * n /\ base + Here(binary) \in Int
  BY <1>2, <1>3 DEF Here
<1>5. word \in Word
  BY <1>1, <1>3, <1>4, AssembledShaped
<1>6. word = Assembled(line, base + 4 * n)
  BY <1>4
<1> HIDE DEF word
<1>7. /\ binary' \in Seq(Word) /\ Len(binary') = n + 1
      /\ \A k \in 1 .. n : binary'[k] = binary[k]
      /\ binary'[n + 1] = word
  BY <1>1, <1>2, <1>5, AppendProperties
<1> HIDE DEF n
<1>8. TypeOK'
  BY <1>1, <1>2, <1>3, <1>7 DEF TypeOK
<1>9. SourceInv'
  <2>1. n + 1 <= Len(source)
    BY <1>3
  <2>2. ASSUME NEW k \in 1 .. n + 1
        PROVE  /\ Accepted(source[k])
               /\ binary'[k] = Assembled(source[k], base + 4 * (k - 1))
    <3>1. CASE k \in 1 .. n
      BY <1>1, <1>7, <3>1 DEF ChainInv, SourceInv, n
    <3>2. CASE k = n + 1
      <4>1. 4 * (k - 1) = 4 * n
        BY <1>3, <3>2
      <4>2. QED BY <1>1, <1>6, <1>7, <3>2, <4>1
    <3>3. QED BY <1>3, <3>1, <3>2
  <2>3. QED BY <1>1, <1>2, <1>7, <2>1, <2>2 DEF SourceInv
<1>10. TextInv'
  <2>1. \A k \in 1 .. pc : binary'[k] = binary[k]
    BY <1>2, <1>3, <1>7 DEF n
  <2> DEFINE P(b, k) == Printer!disassemble_cycle(b[k], 4 * (k - 1))
  <2>2. /\ IsText(text)
        /\ \A k \in 1 .. pc : ~Printer!Unprintable(binary'[k])
        /\ \A j \in 1 .. Len(text) : \E k \in 1 .. pc :
              <<text[j]>> \in P(binary', k)
        /\ \A k \in 1 .. pc :
              Decode(binary'[k]).op # "unhandled" =>
                  \E j \in 1 .. Len(text) : <<text[j]>> \in P(binary', k)
        /\ (\A k \in 1 .. pc : Decode(binary'[k]).op # "unhandled") =>
              Len(text) = pc /\ \A k \in 1 .. pc : <<text[k]>> \in P(binary', k)
    BY <2>1 DEF ChainInv, TextInv, Printed, IsPrinted
  <2>3. QED BY <1>1, <2>2 DEF TextInv, Printed, IsPrinted
<1>11. ProgressInv'
  BY <1>1 DEF ChainInv, ProgressInv
<1>12. AgainInv'
  BY <1>1 DEF ChainInv, AgainInv
<1>13. QED BY <1>8, <1>9, <1>10, <1>11, <1>12 DEF ChainInv

\* The disassembler's start keeps the invariant.
LEMMA StartKeeps == ChainInv /\ StartDisassembler => ChainInv'
<1> SUFFICES ASSUME ChainInv, StartDisassembler PROVE ChainInv'
  OBVIOUS
<1>1. /\ phase = "assembling" /\ phase' = "opening"
      /\ file_size' = 4 * Len(binary)
      /\ source' = source /\ base' = base /\ binary' = binary /\ pc' = pc
      /\ text' = text /\ again' = again
  BY DEF StartDisassembler
<1>2. file_size' \in SizesOf(binary')
  BY <1>1, WholeSize DEF ChainInv, TypeOK
<1>3. TypeOK'
  BY <1>1, <1>2 DEF ChainInv, TypeOK
<1>4. SourceInv'
  BY <1>1 DEF ChainInv, SourceInv
<1>5. TextInv'
  BY <1>1 DEF ChainInv, TextInv, Printed, IsPrinted
<1>6. ProgressInv'
  BY <1>1 DEF ChainInv, ProgressInv
<1>7. AgainInv'
  BY <1>1 DEF ChainInv, AgainInv
<1>8. QED BY <1>3, <1>4, <1>5, <1>6, <1>7 DEF ChainInv

\* The word the disassembler takes next is there.
LEMMA NextWord ==
    ASSUME ChainInv, MoreToPrint
    PROVE  /\ pc + 1 \in 1 .. Len(binary) /\ binary[pc + 1] \in Word
           /\ pc \in Nat /\ Len(binary) \in Nat
<1>1. /\ phase = "disassembling" /\ 4 * pc < file_size
      /\ binary \in Seq(Word) /\ file_size \in SizesOf(binary)
      /\ pc \in 0 .. Len(binary)
  BY DEF ChainInv, TypeOK, MoreToPrint
<1>2. Len(binary) \in Nat
  BY <1>1, LenProperties
<1>3. file_size \in Nat /\ file_size <= 4 * Len(binary)
  BY <1>1, SizeBounds
<1>4. pc + 1 \in 1 .. Len(binary)
  BY <1>1, <1>2, <1>3
<1>5. QED BY <1>1, <1>2, <1>4, ElementOfSeq

\* The disassembler's step keeps the invariant.
LEMMA DisassembleKeeps == ChainInv /\ Disassemble => ChainInv'
<1> SUFFICES ASSUME ChainInv, Disassemble PROVE ChainInv'
  OBVIOUS
<1> DEFINE w == binary[pc + 1]
           a == 4 * pc
           n == Len(text)
<1>1. PICK lines \in Printer!disassemble_cycle(w, a) : text' = text \o lines
  BY DEF Disassemble
<1>2. /\ MoreToPrint /\ ~Beyond /\ ~Printer!Unprintable(w)
      /\ pc' = pc + 1 /\ source' = source /\ base' = base /\ phase' = phase
      /\ binary' = binary /\ file_size' = file_size /\ again' = again
      /\ phase = "disassembling"
  BY DEF Disassemble, MoreToPrint
<1>3. /\ w \in Word /\ pc \in Nat /\ pc + 1 \in 1 .. Len(binary)
      /\ a \in Nat /\ a % 4 = 0 /\ Len(binary) \in Nat
  BY <1>2, NextWord
<1>4. /\ IsText(text) /\ n \in Nat /\ n <= pc /\ Len(again) <= n
      /\ Len(again) \in Nat
  <2>1. IsText(text) /\ n <= pc /\ Len(again) <= n /\ again \in Seq(Word)
    BY DEF ChainInv, TypeOK, TextInv
  <2>2. QED BY <2>1, TextParts, LenProperties
<1>5. /\ Decode(w).op = "unhandled" => lines = <<>>
      /\ Decode(w).op # "unhandled" => \E l : IsLine(l) /\ lines = <<l>>
  <2> HIDE DEF w, a
  <2>1. QED BY <1>1, <1>2, <1>3, LinesOf
<1>6. /\ IsText(text')
      /\ \A j \in 1 .. n : text'[j] = text[j]
      /\ Decode(w).op = "unhandled" => text' = text
      /\ Decode(w).op # "unhandled" =>
            Len(text') = n + 1 /\ lines = <<text'[n + 1]>>
  <2> HIDE DEF w, a, n
  <2>1. CASE Decode(w).op = "unhandled"
    <3>1. text \in Seq(Range(text))
      BY <1>4 DEF IsText
    <3>2. text' = text
      BY <1>1, <1>5, <2>1, <3>1, ConcatEmptySeq
    <3>3. QED BY <1>4, <2>1, <3>2
  <2>2. CASE Decode(w).op # "unhandled"
    <3>1. PICK l : IsLine(l) /\ lines = <<l>>
      BY <1>5, <2>2
    <3>2. /\ IsText(text \o <<l>>) /\ Len(text \o <<l>>) = n + 1
          /\ \A k \in 1 .. n : (text \o <<l>>)[k] = text[k]
          /\ (text \o <<l>>)[n + 1] = l
      BY <1>4, <3>1, TextExtended DEF n
    <3>3. QED BY <1>1, <2>2, <3>1, <3>2
  <2>3. QED BY <2>1, <2>2
<1>7. Len(text') \in n .. n + 1
  BY <1>4, <1>6 DEF n
<1>8. Printed(pc + 1) = Printer!disassemble_cycle(w, a)
  BY <1>3 DEF Printed
<1> DEFINE Q(k) == Printer!disassemble_cycle(binary[k], 4 * (k - 1))
<1>9. <<w>> # <<>> /\ lines \in Q(pc + 1)
  BY <1>1, <1>8 DEF Printed
<1> HIDE DEF a, n
<1>10. TypeOK'
  <2>1. Len(text') <= pc + 1 /\ Len(again) <= Len(text')
    BY <1>3, <1>4, <1>7
  <2>2. pc + 1 \in 0 .. Len(binary)
    BY <1>3
  <2>3. QED BY <1>2, <2>1, <2>2 DEF ChainInv, TypeOK
<1>11. SourceInv'
  BY <1>2 DEF ChainInv, SourceInv
<1>12. TextInv'
  <2>1. /\ \A k \in 1 .. pc : ~Printer!Unprintable(binary[k])
        /\ \A j \in 1 .. n : \E k \in 1 .. pc : <<text[j]>> \in Q(k)
        /\ \A k \in 1 .. pc :
              Decode(binary[k]).op # "unhandled" =>
                  \E j \in 1 .. n : <<text[j]>> \in Q(k)
        /\ (\A k \in 1 .. pc : Decode(binary[k]).op # "unhandled") =>
              n = pc /\ \A k \in 1 .. pc : <<text[k]>> \in Q(k)
    BY DEF ChainInv, TextInv, Printed, IsPrinted, n
  <2> HIDE DEF Q
  <2>2. \A k \in 1 .. pc + 1 : k \in 1 .. pc \/ k = pc + 1
    BY <1>3
  <2>3. pc + 1 \in 1 .. pc + 1 /\ \A k \in 1 .. pc : k \in 1 .. pc + 1
    BY <1>3
  <2>4. \A k \in 1 .. pc + 1 : ~Printer!Unprintable(binary[k])
    BY <1>2, <2>1, <2>2
  <2>5. ASSUME NEW j \in 1 .. Len(text')
        PROVE  \E k \in 1 .. pc + 1 : <<text'[j]>> \in Q(k)
    <3>1. CASE j \in 1 .. n
      BY <1>6, <2>1, <2>3, <3>1
    <3>2. CASE j \notin 1 .. n
      <4>1. Len(text') = n + 1 /\ j = n + 1
        BY <1>4, <1>7, <3>2
      <4>2. Decode(w).op # "unhandled"
        <5>1. text' # text
          BY <1>4, <4>1 DEF n
        <5>2. QED BY <1>6, <5>1
      <4>3. QED BY <1>6, <1>9, <2>3, <4>1, <4>2
    <3>3. QED BY <3>1, <3>2
  <2>6. ASSUME NEW k \in 1 .. pc + 1, Decode(binary[k]).op # "unhandled"
        PROVE  \E j \in 1 .. Len(text') : <<text'[j]>> \in Q(k)
    <3>1. CASE k \in 1 .. pc
      <4>1. PICK j \in 1 .. n : <<text[j]>> \in Q(k)
        BY <2>1, <2>6, <3>1
      <4>2. j \in 1 .. Len(text') /\ text'[j] = text[j]
        BY <1>4, <1>6, <1>7
      <4>3. QED BY <4>1, <4>2
    <3>2. CASE k = pc + 1
      <4>1. Len(text') = n + 1 /\ lines = <<text'[n + 1]>>
        BY <1>6, <2>6, <3>2
      <4>2. n + 1 \in 1 .. Len(text')
        BY <1>4, <4>1
      <4>3. QED BY <1>9, <3>2, <4>1, <4>2
    <3>3. QED BY <2>2, <3>1, <3>2
  <2>7. ASSUME \A k \in 1 .. pc + 1 : Decode(binary[k]).op # "unhandled"
        PROVE  /\ Len(text') = pc + 1
               /\ \A k \in 1 .. pc + 1 : <<text'[k]>> \in Q(k)
    <3>1. n = pc /\ \A k \in 1 .. pc : <<text[k]>> \in Q(k)
      BY <2>1, <2>3, <2>7
    <3>2. Len(text') = n + 1 /\ lines = <<text'[n + 1]>>
      BY <1>6, <2>3, <2>7
    <3>3. QED BY <1>6, <1>9, <2>2, <3>1, <3>2
  <2>8. /\ \A j \in 1 .. Len(text') : \E k \in 1 .. pc' :
              <<text'[j]>> \in Printed(k)'
        /\ \A k \in 1 .. pc' : ~Printer!Unprintable(binary'[k])
        /\ \A k \in 1 .. pc' : IsPrinted(k)' =>
              \E j \in 1 .. Len(text') : <<text'[j]>> \in Printed(k)'
        /\ (\A k \in 1 .. pc' : IsPrinted(k)') =>
              /\ Len(text') = pc'
              /\ \A k \in 1 .. pc' : <<text'[k]>> \in Printed(k)'
    BY <1>2, <2>4, <2>5, <2>6, <2>7 DEF Printed, IsPrinted, Q
  <2>9. QED BY <1>6, <2>8 DEF TextInv
<1>13. ProgressInv'
  <2>1. 4 * pc < MEMORY_CAPACITY
    BY <1>2, <1>3, CapacityAssumption DEF Beyond
  <2>2. 4 * (pc + 1) <= MEMORY_CAPACITY
    BY <1>3, <2>1, CapacityAssumption
  <2>3. QED BY <1>2, <2>2 DEF ProgressInv
<1>14. AgainInv'
  <2>1. \A j \in 1 .. Len(again) : text'[j] = text[j]
    BY <1>4, <1>6
  <2>2. QED BY <1>2, <2>1 DEF ChainInv, AgainInv
<1>15. QED BY <1>10, <1>11, <1>12, <1>13, <1>14 DEF ChainInv

\* The second assembly keeps the invariant.
LEMMA ReassembleKeeps == ChainInv /\ Reassemble => ChainInv'
<1> SUFFICES ASSUME ChainInv, Reassemble PROVE ChainInv'
  OBVIOUS
<1> DEFINE n == Len(again)
           line == text[n + 1]
           word == Assembled(line, Here(again))
<1>1. /\ phase = "reassembling" /\ n < Len(text) /\ Accepted(line)
      /\ again' = Append(again, word)
      /\ source' = source /\ base' = base /\ phase' = phase
      /\ file_size' = file_size /\ pc' = pc /\ text' = text
      /\ binary' = binary
  BY DEF Reassemble
<1>2. IsText(text) /\ again \in Seq(Word)
  BY DEF ChainInv, TypeOK, TextInv
<1>3. n \in Nat /\ Len(text) \in Nat /\ n + 1 \in 1 .. Len(text)
      /\ IsLine(line)
  <2>1. n \in Nat /\ Len(text) \in Nat
    BY <1>2, LenProperties, TextParts
  <2> HIDE DEF n
  <2>2. n + 1 \in 1 .. Len(text)
    BY <1>1, <2>1
  <2>3. QED BY <1>2, <2>1, <2>2, TextParts
<1>4. Here(again) = 4 * n /\ Here(again) \in Int
  BY <1>3 DEF Here
<1>5. word \in Word /\ word = Assembled(line, 4 * n)
  BY <1>1, <1>3, <1>4, AssembledShaped
<1> HIDE DEF word
<1>6. /\ again' \in Seq(Word) /\ Len(again') = n + 1
      /\ \A k \in 1 .. n : again'[k] = again[k]
      /\ again'[n + 1] = word
  BY <1>1, <1>2, <1>5, AppendProperties
<1> HIDE DEF n
<1>7. TypeOK'
  BY <1>1, <1>3, <1>6 DEF ChainInv, TypeOK
<1>8. SourceInv'
  BY <1>1 DEF ChainInv, SourceInv
<1>9. TextInv'
  BY <1>1 DEF ChainInv, TextInv, Printed, IsPrinted
<1>10. ProgressInv'
  BY <1>1 DEF ChainInv, ProgressInv
<1>11. AgainInv'
  <2>1. ASSUME NEW j \in 1 .. n + 1
        PROVE  /\ Accepted(text[j])
               /\ again'[j] = Assembled(text[j], 4 * (j - 1))
    <3>1. CASE j \in 1 .. n
      BY <1>6, <3>1 DEF ChainInv, AgainInv, n
    <3>2. CASE j = n + 1
      <4>1. 4 * (j - 1) = 4 * n
        BY <1>3, <3>2
      <4>2. QED BY <1>1, <1>5, <1>6, <3>2, <4>1
    <3>3. QED BY <1>3, <3>1, <3>2
  <2>2. QED BY <1>1, <1>6, <2>1 DEF AgainInv
<1>12. QED BY <1>7, <1>8, <1>9, <1>10, <1>11 DEF ChainInv

\* Every step keeps the invariant.
LEMMA ChainInductive == ChainInv /\ [Next]_vars => ChainInv'
<1> SUFFICES ASSUME ChainInv, [Next]_vars PROVE ChainInv'
  OBVIOUS
<1>1. CASE Assemble
  BY <1>1, AssembleKeeps
<1>2. CASE Refuse
  BY <1>2, EndKeeps DEF Refuse, Failed
<1>3. CASE StartDisassembler
  BY <1>3, StartKeeps
<1>4. CASE Open
  BY <1>4, EndKeeps DEF Open, Failed
<1>5. CASE Disassemble
  BY <1>5, DisassembleKeeps
<1>6. CASE DisassemblerExits
  BY <1>6, EndKeeps DEF DisassemblerExits, MoreToPrint, Failed
<1>7. CASE StartReassembly
  <2>1. phase = "disassembling" /\ ~(4 * pc < file_size) /\ End("reassembling")
    BY <1>7 DEF StartReassembly, MoreToPrint
  <2>2. 4 * pc >= file_size
    <3>1. /\ binary \in Seq(Word) /\ file_size \in SizesOf(binary)
          /\ pc \in 0 .. Len(binary)
      BY <2>1 DEF ChainInv, TypeOK
    <3>2. file_size \in Nat /\ pc \in Nat
      BY <3>1, SizeBounds, LenProperties
    <3>3. QED BY <2>1, <3>2
  <2>3. QED BY <2>1, <2>2, EndKeeps
<1>8. CASE Reassemble
  BY <1>8, ReassembleKeeps
<1>9. CASE Reject
  <2>1. /\ phase = "reassembling" /\ Len(again) < Len(text)
        /\ ~Accepted(text[Len(again) + 1]) /\ End("rejected")
    BY <1>9 DEF Reject
  <2>2. Len(again) + 1 \in 1 .. Len(text)
    <3>1. Len(again) \in Nat /\ Len(text) \in Nat
      BY LenProperties, TextParts DEF ChainInv, TypeOK, TextInv
    <3>2. QED BY <2>1, <3>1
  <2>3. 4 * pc >= file_size
    BY <2>1 DEF ChainInv, ProgressInv
  <2>4. QED BY <2>1, <2>2, <2>3, EndKeeps DEF Failed
<1>10. CASE Finish
  <2>1. /\ phase = "reassembling" /\ Len(again) = Len(text) /\ End("done")
    BY <1>10 DEF Finish
  <2>2. 4 * pc >= file_size
    BY <2>1 DEF ChainInv, ProgressInv
  <2>3. QED BY <2>1, <2>2, EndKeeps
<1>11. CASE UNCHANGED vars
  BY <1>11
     DEF vars, ChainInv, TypeOK, SourceInv, TextInv, Printed, IsPrinted,
         ProgressInv, Beyond, AgainInv
<1>12. QED
  BY <1>1, <1>2, <1>3, <1>4, <1>5, <1>6, <1>7, <1>8, <1>9, <1>10, <1>11
     DEF Next, Terminated

\* The invariant holds of every behaviour of the chain.
LEMMA ChainInvariant == Spec => []ChainInv
BY InitialChain, ChainInductive, PTL DEF Spec

-----------------------------------------------------------------------------
(***************************************************************************)
(* The theorems.                                                           *)
(***************************************************************************)
\* The state of the chain has its types: every word of the two binaries has
\* 32 bits, the text consists of lines the grammar of the assembler has,
\* and the size of the file that build_memory leaves is that of a binary.
THEOREM TypeCorrect == Spec => []TypeOK
BY ChainInvariant, PTL DEF ChainInv

\* The words that are printed, each at a multiple of four.
LEMMA PrintedOutcome ==
    ASSUME ChainInv, NEW k \in 1 .. pc
    PROVE  /\ binary[k] \in Word /\ 4 * (k - 1) \in Nat
           /\ 4 * (k - 1) % 4 = 0 /\ Outcome(binary[k], 4 * (k - 1))
<1>1. /\ binary \in Seq(Word) /\ pc \in 0 .. Len(binary)
      /\ ~Printer!Unprintable(binary[k])
  BY DEF ChainInv, TypeOK, TextInv
<1>2. k \in 1 .. Len(binary) /\ k \in Nat /\ k >= 1
  BY <1>1, LenProperties
<1>3. binary[k] \in Word
  BY <1>1, <1>2, ElementOfSeq
<1>4. 4 * (k - 1) \in Nat /\ 4 * (k - 1) % 4 = 0
  BY <1>2
<1>5. QED BY <1>1, <1>3, <1>4, WordOutcome

\* After the disassembler every word was printed.
LEMMA AllPrinted ==
    ASSUME ChainInv, phase \in {"reassembling", "rejected", "done"}
    PROVE  /\ DOMAIN binary = 1 .. pc /\ Len(binary) = pc /\ pc \in Nat
           /\ file_size <= MEMORY_CAPACITY
<1>1. /\ binary \in Seq(Word) /\ pc \in 0 .. Len(binary)
      /\ file_size \in SizesOf(binary) /\ 4 * pc >= file_size
      /\ 4 * pc <= MEMORY_CAPACITY
  BY DEF ChainInv, TypeOK, ProgressInv
<1>2. /\ Len(binary) \in Nat /\ DOMAIN binary = 1 .. Len(binary)
      /\ file_size \in Nat /\ file_size <= 4 * Len(binary)
      /\ file_size > 4 * (Len(binary) - 1)
  <2>1. Len(binary) \in Nat /\ DOMAIN binary = 1 .. Len(binary)
    BY <1>1, LenProperties
  <2>2. /\ file_size \in Nat /\ file_size <= 4 * Len(binary)
        /\ file_size > 4 * (Len(binary) - 1)
    BY <1>1, SizeBounds
  <2>3. QED BY <2>1, <2>2
<1>3. Len(binary) = pc
  <2> DEFINE n == Len(binary)
  <2>1. n \in Nat /\ pc \in 0 .. n /\ 4 * pc >= file_size
        /\ file_size \in Nat /\ file_size > 4 * (n - 1)
    BY <1>1, <1>2
  <2> HIDE DEF n
  <2>2. n = pc
    BY <2>1
  <2>3. QED BY <2>2 DEF n
<1>4. QED BY <1>1, <1>2, <1>3, CapacityAssumption

\* The invariant settles where the disassembler stops.
LEMMA Exits == ChainInv => ExitsWhereEmulatorDoes
<1> SUFFICES ASSUME ChainInv PROVE ExitsWhereEmulatorDoes
  OBVIOUS
<1>1. ASSUME phase = "exited"
      PROVE  \/ 4 * pc = MEMORY_CAPACITY /\ file_size > MEMORY_CAPACITY
             \/ Fatal(binary[pc + 1])
  <2>1. /\ 4 * pc < file_size /\ 4 * pc <= MEMORY_CAPACITY
        /\ Beyond \/ Printer!Unprintable(binary[pc + 1])
        /\ binary \in Seq(Word) /\ file_size \in SizesOf(binary)
        /\ pc \in 0 .. Len(binary)
    BY <1>1 DEF ChainInv, ProgressInv, TypeOK
  <2>2. Len(binary) \in Nat /\ file_size \in Nat /\ file_size <= 4 * Len(binary)
    BY <2>1, LenProperties, SizeBounds
  <2>3. CASE Beyond
    BY <2>1, <2>2, <2>3, CapacityAssumption DEF Beyond
  <2>4. CASE Printer!Unprintable(binary[pc + 1])
    <3>1. pc + 1 \in 1 .. Len(binary) /\ 4 * pc \in Nat /\ (4 * pc) % 4 = 0
      BY <2>1, <2>2
    <3>2. binary[pc + 1] \in Word
      BY <2>1, <3>1, ElementOfSeq
    <3>3. QED BY <2>4, <3>1, <3>2, WordOutcome DEF Outcome
  <2>5. QED BY <2>1, <2>3, <2>4
<1>2. phase \in {"reassembling", "done"} => file_size <= MEMORY_CAPACITY
  BY AllPrinted
<1>3. \A k \in 1 .. pc : ~Fatal(binary[k])
  BY PrintedOutcome DEF Outcome
<1>4. QED BY <1>1, <1>2, <1>3 DEF ExitsWhereEmulatorDoes, Fatal

\* When disassemble_cycle ends the process on a word, the emulator would
\* end it on the same word too, or the word is past the end of memory.
THEOREM ExitsHolds == Spec => []ExitsWhereEmulatorDoes
BY ChainInvariant, Exits, PTL

\* The invariant settles what the assembler refuses.
LEMMA Rejections == ChainInv => OnlyTheseRejected
<1> SUFFICES ASSUME ChainInv PROVE OnlyTheseRejected
  OBVIOUS
<1>1. ASSUME phase = "rejected"
      PROVE  \E k \in DOMAIN binary :
                Unreadable(binary[k], 4 * (k - 1)) \/ IsGarbage(binary[k])
  <2>1. PICK j \in 1 .. Len(text) : ~Accepted(text[j])
    BY <1>1 DEF ChainInv, AgainInv
  <2>2. PICK k \in 1 .. pc :
            <<text[j]>> \in Printer!disassemble_cycle(binary[k], 4 * (k - 1))
    BY <2>1 DEF ChainInv, TextInv, Printed
  <2> DEFINE w == binary[k]
             a == 4 * (k - 1)
  <2>3. Outcome(w, a) /\ k \in DOMAIN binary
    BY <1>1, PrintedOutcome, AllPrinted
  <2>4. ~Silent(w, a) /\ ~Kept(w, a) /\ ~Changed(w, a)
    <3>1. ASSUME NEW l, <<text[j]>> = <<l>> PROVE ~Accepted(l)
      BY <2>1, <3>1
    <3>2. ~Silent(w, a)
      BY <2>2 DEF Silent
    <3>3. ~Kept(w, a)
      BY <2>2, <3>1 DEF Kept, Returns
    <3>4. ~Changed(w, a)
      BY <2>2, <3>1 DEF Changed
    <3>5. QED BY <3>2, <3>3, <3>4
  <2>5. QED BY <2>3, <2>4 DEF Outcome
<1>2. ASSUME phase = "done", NEW k \in DOMAIN binary,
             Unreadable(binary[k], 4 * (k - 1))
      PROVE  FALSE
  <2> DEFINE w == binary[k]
             a == 4 * (k - 1)
  <2>1. k \in 1 .. pc
    BY <1>2, AllPrinted
  <2>2. Outcome(w, a)
    BY <2>1, PrintedOutcome
  <2>3. Refused(w, a) /\ Decode(w).op # "unhandled"
    BY <1>2, <2>2 DEF Outcome, LostWord, Doubled
  <2>4. PICK j \in 1 .. Len(text) :
            <<text[j]>> \in Printer!disassemble_cycle(w, a)
    BY <2>1, <2>3 DEF ChainInv, TextInv, Printed, IsPrinted
  <2>5. PICK l : <<text[j]>> = <<l>> /\ ~Accepted(l)
    BY <2>3, <2>4 DEF Refused
  <2>6. ~Accepted(text[j])
    BY <2>5
  <2>7. Accepted(text[j])
    BY <1>2 DEF ChainInv, AgainInv
  <2>8. QED BY <2>6, <2>7
<1>3. QED BY <1>1, <1>2 DEF OnlyTheseRejected, IsGarbage

\* The only printed lines build_memory refuses are of branches to addresses
\* below zero, of 32-bit transfers with a large unsigned offset, and of
\* words that name no opcode.
THEOREM RejectionsHold == Spec => []OnlyTheseRejected
BY ChainInvariant, Rejections, PTL

\* When every word has its line, each line was assembled again at the
\* address of its word.
LEMMA LineByLine ==
    ASSUME ChainInv, phase = "done",
           \A k \in DOMAIN binary : Decode(binary[k]).op # "unhandled"
    PROVE  /\ Len(again) = Len(binary) /\ Len(again) = pc
           /\ \A k \in 1 .. pc :
                 /\ <<text[k]>> \in
                       Printer!disassemble_cycle(binary[k], 4 * (k - 1))
                 /\ Accepted(text[k])
                 /\ again[k] = Assembled(text[k], 4 * (k - 1))
<1>1. DOMAIN binary = 1 .. pc /\ Len(binary) = pc
  BY AllPrinted
<1>2. /\ Len(text) = pc
      /\ \A k \in 1 .. pc : <<text[k]>> \in
             Printer!disassemble_cycle(binary[k], 4 * (k - 1))
  BY <1>1 DEF ChainInv, TextInv, Printed, IsPrinted
<1>3. /\ Len(again) = Len(text)
      /\ \A j \in 1 .. Len(again) :
            Accepted(text[j]) /\ again[j] = Assembled(text[j], 4 * (j - 1))
  BY DEF ChainInv, AgainInv
<1>4. QED BY <1>1, <1>2, <1>3

\* A word that is not lost comes back in its canonical form.
LEMMA ComesBack ==
    ASSUME ChainInv, phase = "done",
           \A k \in DOMAIN binary : Decode(binary[k]).op # "unhandled",
           NEW k \in 1 .. pc, ~LostWord(binary[k])
    PROVE  /\ again[k] = Canonical(binary[k])
           /\ Decode(again[k]) = Decode(binary[k])
<1> DEFINE w == binary[k]
           a == 4 * (k - 1)
<1>1. Outcome(w, a)
  BY PrintedOutcome
<1>2. /\ <<text[k]>> \in Printer!disassemble_cycle(w, a)
      /\ Accepted(text[k]) /\ again[k] = Assembled(text[k], a)
  BY LineByLine
<1> HIDE DEF w, a
<1>3. ~Refused(w, a)
  <2>1. SUFFICES ASSUME Refused(w, a) PROVE FALSE
    OBVIOUS
  <2>2. PICK l : <<text[k]>> = <<l>> /\ ~Accepted(l)
    BY <1>2, <2>1 DEF Refused
  <2>3. text[k] = l
    BY <2>2
  <2>4. QED BY <1>2, <2>2, <2>3
<1>4. Kept(w, a)
  BY <1>1, <1>3 DEF Outcome, LostWord, IsGarbage, w
<1>5. PICK l : <<text[k]>> = <<l>> /\ Assembled(l, a) = Canonical(w)
  BY <1>2, <1>4 DEF Kept, Returns
<1>6. text[k] = l
  BY <1>5
<1>7. QED BY <1>2, <1>4, <1>5, <1>6 DEF Kept, w

\* The invariant settles what comes back.
LEMMA Returned == ChainInv => RoundTrip
<1> SUFFICES ASSUME ChainInv, phase = "done",
                    \A k \in DOMAIN binary : ~LostWord(binary[k])
             PROVE  /\ Len(again) = Len(binary)
                    /\ \A k \in DOMAIN binary :
                          Decode(again[k]) = Decode(binary[k])
  BY DEF RoundTrip
<1>1. \A k \in DOMAIN binary : Decode(binary[k]).op # "unhandled"
  BY DEF LostWord
<1>2. DOMAIN binary = 1 .. pc
  BY AllPrinted
<1>3. \A k \in 1 .. pc : Decode(again[k]) = Decode(binary[k])
  BY <1>1, <1>2, ComesBack
<1>4. QED BY <1>1, <1>2, <1>3, LineByLine

\* For every file: a word that is not one of the known losses comes back
\* from disassembly and assembly as an instruction that the emulator
\* decodes to the same operation.
THEOREM RoundTripHolds == Spec => []RoundTrip
BY ChainInvariant, Returned, PTL

\* The invariant settles what a program of the assembler comes back as.
LEMMA SameBinary == ChainInv => ReassemblesToItself
<1> SUFFICES ASSUME ChainInv, phase = "done", source # <<>>,
                    \A k \in DOMAIN source : source[k].form # ".int"
             PROVE  (again = binary)
                        <=> ~ \E k \in DOMAIN binary : Doubled(binary[k])
  BY DEF ReassemblesToItself
<1>1. DOMAIN binary = 1 .. pc /\ Len(binary) = pc /\ pc \in Nat
  BY AllPrinted
<1>2. \A k \in 1 .. pc : Shaped(binary[k])
  <2>1. TAKE k \in 1 .. pc
  <2>2. /\ IsText(source) /\ base \in Nat /\ pc <= Len(source)
        /\ Accepted(source[k])
        /\ binary[k] = Assembled(source[k], base + 4 * (k - 1))
    BY <1>1 DEF ChainInv, SourceInv
  <2>3. k \in 1 .. Len(source) /\ base + 4 * (k - 1) \in Int
    BY <1>1, <2>2, TextParts
  <2>4. IsLine(source[k]) /\ source[k].form # ".int"
    BY <2>2, <2>3, TextParts
  <2>5. QED BY <2>2, <2>3, <2>4, AssembledShaped
<1>3. \A k \in DOMAIN binary : Decode(binary[k]).op # "unhandled"
  BY <1>1, <1>2 DEF Shaped
<1>4. Len(again) = Len(binary) /\ Len(again) = pc
  BY <1>3, LineByLine
<1>5. ASSUME \A k \in DOMAIN binary : ~Doubled(binary[k])
      PROVE  again = binary
  <2>1. ASSUME NEW k \in 1 .. pc PROVE again[k] = binary[k]
    <3>1. Shaped(binary[k]) /\ ~Doubled(binary[k])
      BY <1>1, <1>2, <1>5
    <3>2. ~LostWord(binary[k])
      BY <3>1 DEF Shaped, LostWord, IsGarbage
    <3>3. QED BY <1>3, <3>1, <3>2, ComesBack DEF Shaped
  <2>2. binary \in Seq(Word) /\ again \in Seq(Word)
    BY DEF ChainInv, TypeOK
  <2>3. QED BY <1>1, <1>4, <2>1, <2>2, SeqEqual
<1>6. ASSUME NEW k \in DOMAIN binary, Doubled(binary[k])
      PROVE  again # binary
  <2> DEFINE w == binary[k]
             a == 4 * (k - 1)
  <2>1. Outcome(w, a) /\ k \in 1 .. pc
    BY <1>1, PrintedOutcome
  <2>2. /\ <<text[k]>> \in Printer!disassemble_cycle(w, a)
        /\ Accepted(text[k]) /\ again[k] = Assembled(text[k], a)
    BY <1>3, <2>1, LineByLine
  <2>3. /\ LostWord(w) /\ ~IsGarbage(w) /\ Decode(w).op # "unhandled"
    BY <1>6 DEF LostWord, Doubled, IsGarbage
  <2>4. Refused(w, a) \/ Changed(w, a)
    BY <2>1, <2>3 DEF Outcome
  <2> HIDE DEF w, a
  <2>5. ASSUME Refused(w, a) PROVE FALSE
    <3>1. PICK l : <<text[k]>> = <<l>> /\ ~Accepted(l)
      BY <2>2, <2>5 DEF Refused
    <3>2. text[k] = l
      BY <3>1
    <3>3. QED BY <2>2, <3>1, <3>2
  <2>6. ASSUME Changed(w, a) PROVE again[k] # w
    <3>1. PICK l : <<text[k]>> = <<l>> /\ Assembled(l, a) # w
      BY <2>2, <2>6 DEF Changed
    <3>2. text[k] = l
      BY <3>1
    <3>3. QED BY <2>2, <3>1, <3>2
  <2>7. QED BY <2>4, <2>5, <2>6 DEF w
<1>7. QED BY <1>5, <1>6

\* What assemble wrote is what it writes again from its own disassembly,
\* with the exceptions the property names: the chain run_test.py runs is
\* the identity on its own outputs.
THEOREM ReassemblyHolds == Spec => []ReassemblesToItself
BY ChainInvariant, SameBinary, PTL

-----------------------------------------------------------------------------
(* What the emulator does with what the assembler writes.                  *)

\* A number put into an empty field is selected from it again, cut to the
\* field, and no other field changes.
LEMMA PutInField ==
    ASSUME NEW u, NEW f, IsField(f), NEW v \in Int, u \cap Span(f) = {}
    PROVE  /\ SelectBits(SetBits(u, f, v), f) = v % Limit(f)
           /\ u \subseteq SetBits(u, f, v)
           /\ SetBits(u, f, v) \subseteq u \cup Span(f)
<1>1. Limit(f) \in Nat \ {0}
  BY LimitType
<1> DEFINE p == Limit(f)
           r == v % p
<1>2. r \in 0 .. p - 1
  <2> HIDE DEF p
  <2>1. QED BY <1>1, DivisionParts DEF p
<1>3. r % p = r
  <2> HIDE DEF p
  <2>1. r \in Int /\ r = p * 0 + r
    BY <1>1, <1>2 DEF p
  <2> HIDE DEF r
  <2>2. (p * 0 + r) % p = r
    BY <1>1, <1>2, DivisionUnique DEF p
  <2>3. QED BY <2>1, <2>2
<1>4. SetBits(u, f, v) = SetBits(u, f, r)
  BY <1>3 DEF SetBits, Limit
<1>5. SelectBits(SetBits(u, f, r), f) = r
  <2> HIDE DEF r
  <2>1. r \in Nat /\ r < Limit(f)
    BY <1>1, <1>2 DEF p
  <2>2. QED BY <2>1, PutSelects
<1>6. QED BY <1>4, <1>5, Adds

\* A field is the same in two words that agree on its bits.
LEMMA FieldKept ==
    ASSUME NEW u, NEW w, NEW f, IsField(f), u \subseteq w,
           w \cap Span(f) \subseteq u
    PROVE  SelectBits(w, f) = SelectBits(u, f)
<1>1. w \cap Span(f) = u \cap Span(f)
  OBVIOUS
<1>2. QED BY <1>1, SameSelected

\* An empty field is zero.
LEMMA FieldEmpty ==
    ASSUME NEW u, NEW f, IsField(f), u \cap Span(f) = {}
    PROVE  SelectBits(u, f) = 0
<1>1. u \cap Span(f) = {} \cap Span(f)
  OBVIOUS
<1>2. SelectBits(u, f) = SelectBits({}, f)
  BY <1>1, SameSelected
<1>3. {k \in 0 .. f[2] - 1 : f[1] + k \in {}} = {}
  OBVIOUS
<1>4. SelectBits({}, f) = Number({})
  BY <1>3 DEF SelectBits
<1>5. QED BY <1>2, <1>4, NumberEmpty

\* The number of a register that is accepted, and the number it is encoded
\* as.
LEMMA RegisterNumber ==
    ASSUME NEW r \in Register, IsRegister(r)
    PROVE  /\ get_register(r) \in 0 .. 31
           /\ get_register(r) = r.n <=> ~(r.n > 31)
           /\ get_register(r) % 32 = get_register(r)
           /\ r.sf \in 0 .. 1 /\ r.sf % 2 = r.sf /\ r.n \in Nat
<1>1. r.n \in Nat /\ (r.sf = 0 \/ r.sf = 1)
  BY DEF Register, SF32, SF64
<1>2. get_register(r) = r.n % 256
  BY DEF get_register
<1>3. r.n % 256 <= 31
  BY DEF IsRegister
<1> DEFINE n == r.n
<1> HIDE DEF n
<1>4. n \in Nat /\ n % 256 \in 0 .. 31
  BY <1>1, <1>3 DEF n
<1>5. n % 256 = n <=> ~(n > 31)
  BY <1>4
<1>6. (n % 256) % 32 = n % 256
  BY <1>4
<1>7. QED BY <1>1, <1>2, <1>4, <1>5, <1>6 DEF n

\* The width and one register field, put into a word without them.
LEMMA RegisterPut ==
    ASSUME NEW u, NEW f, IsField(f), Limit(f) = 2, NEW g, IsField(g),
           Limit(g) = 32, Span(f) \cap Span(g) = {},
           u \cap Span(f) = {}, u \cap Span(g) = {},
           NEW r \in Register, IsRegister(r)
    PROVE  /\ SelectBits(WithRegister(u, f, g, r), f) = r.sf
           /\ SelectBits(WithRegister(u, f, g, r), g) = get_register(r)
           /\ u \subseteq WithRegister(u, f, g, r)
           /\ WithRegister(u, f, g, r) \subseteq u \cup Span(f) \cup Span(g)
<1> DEFINE t == SetBits(u, f, r.sf)
           n == get_register(r)
           w == SetBits(t, g, n)
<1>1. r.sf \in Int /\ n \in Int /\ r.sf % 2 = r.sf /\ n % 32 = n
  BY RegisterNumber
<1> HIDE DEF n
<1>2. SelectBits(t, f) = r.sf /\ u \subseteq t /\ t \subseteq u \cup Span(f)
  BY <1>1, PutInField
<1> HIDE DEF t
<1>3. t \cap Span(g) = {}
  BY <1>2
<1>4. SelectBits(w, g) = n /\ t \subseteq w /\ w \subseteq t \cup Span(g)
  BY <1>1, <1>3, PutInField
<1> HIDE DEF w
<1>5. SelectBits(w, f) = SelectBits(t, f)
  <2>1. w \cap Span(f) \subseteq t
    BY <1>4
  <2>2. QED BY <1>4, <2>1, FieldKept
<1>6. WithRegister(u, f, g, r) = w
  BY DEF WithRegister, w, t, n
<1>7. QED BY <1>2, <1>4, <1>5, <1>6 DEF n

\* The immediate instructions, by the layouts of the assembler.
LEMMA ImmDecoded ==
    ASSUME NEW w, Ordinary(w)
    PROVE  /\ ArithImm(w) =>
                Decode(w) =
                  [op |-> "arith_imm", sf |-> SelectBits(w, REG.SF),
                   opc |-> SelectBits(w, REG.OPC),
                   rd |-> SelectBits(w, REG.RD), rn |-> SelectBits(w, REG.RN),
                   imm |-> SelectBits(w, IMM.IMM12)
                              * 4096^SelectBits(w, IMM.SH)]
           /\ WideMove(w) =>
                Decode(w) =
                  [op |-> "wide_move", sf |-> SelectBits(w, REG.SF),
                   opc |-> SelectBits(w, REG.OPC),
                   rd |-> SelectBits(w, REG.RD), hw |-> SelectBits(w, IMM.HW),
                   imm |-> SelectBits(w, IMM.IMM16)]
<1>1. /\ Emulated!IMM.SF = REG.SF /\ Emulated!IMM.OPC = REG.OPC
      /\ Emulated!IMM.RD = REG.RD /\ Emulated!IMM.RN = REG.RN
      /\ Emulated!IMM.IMM12 = IMM.IMM12 /\ Emulated!IMM.SH = IMM.SH
      /\ Emulated!IMM.HW = IMM.HW /\ Emulated!IMM.IMM16 = IMM.IMM16
  BY DEF Emulated!IMM, REG, IMM
<1>2. \A f : Emulated!SelectBits(w, f) = SelectBits(w, f)
  BY SameMacros
<1> DEFINE arith == [op |-> "arith_imm", sf |-> SelectBits(w, REG.SF),
                     opc |-> SelectBits(w, REG.OPC),
                     rd |-> SelectBits(w, REG.RD),
                     rn |-> SelectBits(w, REG.RN),
                     imm |-> SelectBits(w, IMM.IMM12)
                                * 4096^SelectBits(w, IMM.SH)]
           wide == [op |-> "wide_move", sf |-> SelectBits(w, REG.SF),
                    opc |-> SelectBits(w, REG.OPC),
                    rd |-> SelectBits(w, REG.RD),
                    hw |-> SelectBits(w, IMM.HW),
                    imm |-> SelectBits(w, IMM.IMM16)]
<1>3. Emulated!DecodeDPImm(w) =
         CASE Emulated!IsArithmeticImm(w) -> arith
           [] Emulated!IsWideMove(w) -> wide
           [] OTHER -> [op |-> "unhandled"]
  BY <1>1, <1>2 DEF Emulated!DecodeDPImm
<1> HIDE DEF arith, wide
<1>4. /\ Emulated!IsArithmeticImm(w) <=> 23 \notin w /\ 24 \in w /\ 25 \notin w
      /\ Emulated!IsWideMove(w) <=> 23 \in w /\ 24 \notin w /\ 25 \in w
  BY ImmTests
<1>5. ArithImm(w) => Decode(w) = arith
  BY <1>3, <1>4, Dispatch DEF ArithImm
<1>6. WideMove(w) => Decode(w) = wide
  BY <1>3, <1>4, Dispatch DEF WideMove
<1>7. QED BY <1>5, <1>6 DEF arith, wide

\* The width and the registers at the ends of a data processing word.
LEMMA EndsKept ==
    ASSUME NEW u, NEW w, u \subseteq w, w \cap (0 .. 4) \subseteq u,
           w \cap (5 .. 9) \subseteq u, w \cap {31} \subseteq u
    PROVE  /\ SelectBits(w, REG.SF) = SelectBits(u, REG.SF)
           /\ SelectBits(w, REG.RD) = SelectBits(u, REG.RD)
           /\ SelectBits(w, REG.RN) = SelectBits(u, REG.RN)
<1>1. /\ IsField(REG.SF) /\ IsField(REG.RD) /\ IsField(REG.RN)
      /\ w \cap Span(REG.SF) \subseteq u /\ w \cap Span(REG.RD) \subseteq u
      /\ w \cap Span(REG.RN) \subseteq u
  BY Fields
<1>2. SelectBits(w, REG.SF) = SelectBits(u, REG.SF)
  BY <1>1, FieldKept
<1>3. SelectBits(w, REG.RD) = SelectBits(u, REG.RD)
  BY <1>1, FieldKept
<1>4. SelectBits(w, REG.RN) = SelectBits(u, REG.RN)
  BY <1>1, FieldKept
<1>5. QED BY <1>2, <1>3, <1>4

\* What a shift accepted with an immediate multiplies it by.
ImmFactor(shift) ==
    IF shift = NoShift THEN 1
    ELSE IF shift.amount % 256 = 12 THEN 4096 ELSE 1

\* Arithmetic with an immediate put into a word with width and registers, as
\* it is decoded.
ImmDecoding(u, opcode, operand, shift) ==
    [op |-> "arith_imm", sf |-> SelectBits(u, REG.SF),
     opc |-> arithmetic_opc[opcode], rd |-> SelectBits(u, REG.RD),
     rn |-> SelectBits(u, REG.RN),
     imm |-> (operand.imm % 4096) * ImmFactor(shift)]

\* Arithmetic with an immediate, as the emulator decodes what is assembled.
LEMMA ImmAssembled ==
    ASSUME NEW u, u \subseteq (0 .. 9) \cup {31},
           NEW opcode \in arithmetic_opcodes, NEW operand \in Immediate,
           NEW shift, IsShift(shift), ImmShiftAccepted(shift)
    PROVE  Decode(handle_two_op_imm(u, opcode, operand, shift))
             = ImmDecoding(u, opcode, operand, shift)
<1> DEFINE u1 == u \cup Halves(\h1000, 0)
           u2 == SetBits(u1, IMM.IMM12, operand.imm)
           u3 == SetBits(u2, IMM.OPI, IMM_ARITHMETIC_OPI)
           u4 == SetBits(u3, REG.OPC, arithmetic_opc[opcode])
           w == handle_imm_shift(u4, shift)
           opc == arithmetic_opc[opcode]
<1>0. handle_two_op_imm(u, opcode, operand, shift) = w
  BY DEF handle_two_op_imm
<1>1. u1 = u \cup {28}
  BY Constants
<1> HIDE DEF u1
<1>2. /\ SelectBits(u2, IMM.IMM12) = operand.imm % 4096
      /\ u1 \subseteq u2 /\ u2 \subseteq u1 \cup (10 .. 21)
  <2> DEFINE f == IMM.IMM12
             v == operand.imm
  <2>1. v \in Int
    BY DEF Immediate
  <2>2. IsField(f) /\ Limit(f) = 4096 /\ Span(f) = 10 .. 21
    BY Fields
  <2>3. u2 = SetBits(u1, f, v)
    OBVIOUS
  <2> HIDE DEF u2, f, v
  <2>4. u1 \cap Span(f) = {}
    BY <1>1, <2>2
  <2>5. /\ SelectBits(u2, f) = v % Limit(f)
        /\ u1 \subseteq u2 /\ u2 \subseteq u1 \cup Span(f)
    <3>1. IsField(f)
      BY <2>2
    <3> HIDE DEF u3, u4, w, opc
    <3>2. QED BY <2>1, <2>3, <2>4, <3>1, PutInField
  <2>6. QED BY <2>2, <2>5 DEF f, v
<1> HIDE DEF u2
<1>3. u3 = u2 \cup {24}
  <2>1. SetBits(u2, IMM.OPI, 2) = u2 \cup {23 + k : k \in Bits(2 % 2^3)}
    BY DEF SetBits, IMM
  <2>2. 2 % 2^3 = 2
    OBVIOUS
  <2>3. Bits(2) = {1}
    BY Ones
  <2>4. QED BY <2>1, <2>2, <2>3 DEF IMM_ARITHMETIC_OPI
<1> HIDE DEF u3
<1>4. /\ SelectBits(u4, REG.OPC) = opc
      /\ u3 \subseteq u4 /\ u4 \subseteq u3 \cup (29 .. 30)
  <2>1. opc \in 0 .. 3
    BY DEF arithmetic_opc, arithmetic_opcodes
  <2>2. u3 \cap (29 .. 30) = {}
    BY <1>1, <1>2, <1>3
  <2> HIDE DEF opc
  <2>3. opc \in Int /\ opc % 4 = opc
    BY <2>1
  <2>4. u4 = SetBits(u3, REG.OPC, opc)
    BY DEF opc
  <2> HIDE DEF u4
  <2>5. QED BY <2>2, <2>3, <2>4, PutInField, Fields
<1> HIDE DEF u4, opc
<1>5. /\ 4096^SelectBits(w, IMM.SH) = ImmFactor(shift)
      /\ u4 \subseteq w /\ w \subseteq u4 \cup {22}
  <2>0. u4 \cap {22} = {}
    BY <1>1, <1>2, <1>3, <1>4
  <2>4. 4096^0 = 1 /\ 4096^1 = 4096
    OBVIOUS
  <2>1. CASE shift = NoShift
    <3>1. w = u4
      BY <2>1 DEF handle_imm_shift
    <3>2. SelectBits(u4, IMM.SH) = 0
      BY <2>0, FieldEmpty, Fields
    <3> HIDE DEF w
    <3>3. QED BY <2>1, <2>4, <3>1, <3>2 DEF ImmFactor
  <2>2. CASE shift # NoShift
    <3> DEFINE sh == (shift.amount % 256) \div 12
    <3>1. shift.amount % 256 = 0 \/ shift.amount % 256 = 12
      BY <2>2 DEF ImmShiftAccepted
    <3>2. w = SetBits(u4, IMM.SH, sh)
      BY <2>2 DEF handle_imm_shift
    <3>3. sh = IF shift.amount % 256 = 12 THEN 1 ELSE 0
      BY <3>1
    <3> HIDE DEF w, sh
    <3>4. sh \in Int /\ sh % 2 = sh
      BY <3>3
    <3>5. /\ SelectBits(w, IMM.SH) = sh
          /\ u4 \subseteq w /\ w \subseteq u4 \cup {22}
      BY <2>0, <3>2, <3>4, PutInField, Fields
    <3>6. ImmFactor(shift) = IF sh = 1 THEN 4096 ELSE 1
      BY <2>2, <3>3 DEF ImmFactor
    <3>7. 4096^SelectBits(w, IMM.SH) = ImmFactor(shift)
      BY <2>4, <3>3, <3>5, <3>6
    <3>8. QED BY <3>5, <3>7
  <2>3. QED BY <2>1, <2>2
<1> HIDE DEF w
<1>6. /\ 28 \in w /\ 24 \in w
      /\ 23 \notin w /\ 25 \notin w /\ 26 \notin w /\ 27 \notin w
  BY <1>1, <1>2, <1>3, <1>4, <1>5
<1>7. Ordinary(w) /\ ArithImm(w)
  BY <1>6, NotSpecial DEF ArithImm, DPImm
<1>8. /\ u \subseteq w /\ u2 \subseteq w /\ u4 \subseteq w
      /\ w \cap (0 .. 4) \subseteq u /\ w \cap (5 .. 9) \subseteq u
      /\ w \cap {31} \subseteq u
      /\ w \cap (10 .. 21) \subseteq u2 /\ w \cap (29 .. 30) \subseteq u4
  BY <1>1, <1>2, <1>3, <1>4, <1>5
<1>9. /\ SelectBits(w, REG.SF) = SelectBits(u, REG.SF)
      /\ SelectBits(w, REG.RD) = SelectBits(u, REG.RD)
      /\ SelectBits(w, REG.RN) = SelectBits(u, REG.RN)
      /\ SelectBits(w, IMM.IMM12) = SelectBits(u2, IMM.IMM12)
      /\ SelectBits(w, REG.OPC) = SelectBits(u4, REG.OPC)
  <2>1. /\ SelectBits(w, REG.SF) = SelectBits(u, REG.SF)
        /\ SelectBits(w, REG.RD) = SelectBits(u, REG.RD)
        /\ SelectBits(w, REG.RN) = SelectBits(u, REG.RN)
    BY <1>8, EndsKept
  <2>2. SelectBits(w, IMM.IMM12) = SelectBits(u2, IMM.IMM12)
    <3>1. IsField(IMM.IMM12) /\ w \cap Span(IMM.IMM12) \subseteq u2
      BY <1>8, Fields
    <3>2. QED BY <1>8, <3>1, FieldKept
  <2>3. SelectBits(w, REG.OPC) = SelectBits(u4, REG.OPC)
    <3>1. IsField(REG.OPC) /\ w \cap Span(REG.OPC) \subseteq u4
      BY <1>8, Fields
    <3>2. QED BY <1>8, <3>1, FieldKept
  <2>4. QED BY <2>1, <2>2, <2>3
<1>10. Decode(w) =
         [op |-> "arith_imm", sf |-> SelectBits(u, REG.SF),
          opc |-> opc, rd |-> SelectBits(u, REG.RD),
          rn |-> SelectBits(u, REG.RN),
          imm |-> (operand.imm % 4096) * ImmFactor(shift)]
  BY <1>2, <1>4, <1>5, <1>7, <1>9, ImmDecoded
<1>11. QED BY <1>0, <1>10 DEF opc, ImmDecoding

\* The register instructions, by the layouts of the assembler.
LEMMA RegFields ==
    ASSUME NEW w
    PROVE  /\ Emulated!DecodeArithmetic(w) =
                [op |-> "arith_reg", sf |-> SelectBits(w, REG.SF),
                 opc |-> SelectBits(w, REG.OPC),
                 shift |-> SelectBits(w, REG_SHIFT),
                 rm |-> SelectBits(w, REG.RM),
                 amount |-> SelectBits(w, REG.OPERAND),
                 rn |-> SelectBits(w, REG.RN), rd |-> SelectBits(w, REG.RD)]
           /\ Emulated!DecodeBitLogic(w) =
                [op |-> "logic_reg", sf |-> SelectBits(w, REG.SF),
                 opc |-> SelectBits(w, REG.OPC),
                 shift |-> SelectBits(w, REG_SHIFT),
                 n |-> SelectBits(w, REG_N), rm |-> SelectBits(w, REG.RM),
                 amount |-> SelectBits(w, REG.OPERAND),
                 rn |-> SelectBits(w, REG.RN), rd |-> SelectBits(w, REG.RD)]
           /\ Emulated!DecodeMultiply(w) =
                [op |-> "multiply_reg", sf |-> SelectBits(w, REG.SF),
                 x |-> SelectBits(w, REG.X), rm |-> SelectBits(w, REG.RM),
                 ra |-> SelectBits(w, REG.RA), rn |-> SelectBits(w, REG.RN),
                 rd |-> SelectBits(w, REG.RD)]
<1>1. /\ Emulated!REG.SF = REG.SF /\ Emulated!REG.OPC = REG.OPC
      /\ Emulated!REG.RM = REG.RM /\ Emulated!REG.OPERAND = REG.OPERAND
      /\ Emulated!REG.RN = REG.RN /\ Emulated!REG.RD = REG.RD
      /\ Emulated!REG.X = REG.X /\ Emulated!REG.RA = REG.RA
  BY DEF Emulated!REG, REG
<1>2. \A f : Emulated!SelectBits(w, f) = SelectBits(w, f)
  BY SameMacros
<1>3. Emulated!OprField(w, Emulated!SHIFT) = SelectBits(w, REG_SHIFT)
  BY ShiftFields
<1>4. Emulated!OprField(w, Emulated!N) = SelectBits(w, REG_N)
  <2>1. Emulated!OprField(w, <<0, 1>>) = SelectBits(w, <<21, 1>>)
    BY OprFields
  <2>2. QED BY <2>1 DEF Emulated!N, REG_N
<1>5. QED
  BY <1>1, <1>2, <1>3, <1>4
     DEF Emulated!DecodeArithmetic, Emulated!DecodeBitLogic,
         Emulated!DecodeMultiply

\* The shift of a register instruction, put into a word without one.
LEMMA ShiftPut ==
    ASSUME NEW u, u \cap (10 .. 15) = {}, u \cap (22 .. 23) = {},
           NEW shift, IsShift(shift), ShiftAccepted(shift)
    PROVE  LET w == handle_reg_shift(u, shift)
           IN  /\ SelectBits(w, REG_SHIFT) = ShiftKind(shift)
               /\ SelectBits(w, REG.OPERAND) = (Amount(shift) % 256) % 64
               /\ u \subseteq w /\ w \subseteq u \cup (10 .. 15) \cup (22 .. 23)
               /\ Amount(shift) \in Int /\ ShiftKind(shift) \in 0 .. 3
               /\ ShiftKind(shift) = 3 <=> shift.type = "ror"
<1> DEFINE w == handle_reg_shift(u, shift)
           f == REG_SHIFT
           g == REG.OPERAND
<1>1. /\ IsField(f) /\ Limit(f) = 4 /\ Span(f) = 22 .. 23
      /\ IsField(g) /\ Limit(g) = 64 /\ Span(g) = 10 .. 15
  BY Fields
<1>2. u \cap Span(f) = {} /\ u \cap Span(g) = {}
  BY <1>1
<1>3. CASE shift = NoShift
  <2>1. w = u
    BY <1>3 DEF handle_reg_shift
  <2>2. Amount(shift) = 0 /\ ShiftKind(shift) = 0 /\ shift.type = "none"
    BY <1>3 DEF Amount, ShiftKind, NoShift
  <2> HIDE DEF w, f, g
  <2>3. SelectBits(u, f) = 0 /\ SelectBits(u, g) = 0
    BY <1>1, <1>2, FieldEmpty
  <2>4. QED BY <2>1, <2>2, <2>3 DEF w, f, g
<1>4. CASE shift # NoShift
  <2> DEFINE h == shift_value[shift.type]
             n == shift.amount
             a == n % 256
             t == SetBits(u, f, h)
  <2>1. n \in Int /\ shift.type # "none"
    BY <1>4 DEF IsShift
  <2>2. h \in 0 .. 3 /\ (h = 3 <=> shift.type = "ror")
    <3>1. shift.type \in {"lsl", "lsr", "asr", "ror"}
      BY <2>1 DEF ShiftAccepted, shift_value
    <3>2. QED BY <3>1 DEF shift_value
  <2>3. Amount(shift) = n /\ ShiftKind(shift) = h
    BY <1>4 DEF Amount, ShiftKind
  <2>4. w = SetBits(t, g, a)
    BY <1>4 DEF handle_reg_shift
  <2> HIDE DEF w, f, g, h, n
  <2>5. a \in Int
    BY <2>1
  <2>6. h \in Int /\ h % 4 = h
    BY <2>2
  <2> HIDE DEF a
  <2>7. SelectBits(t, f) = h /\ u \subseteq t /\ t \subseteq u \cup Span(f)
    BY <1>1, <1>2, <2>6, PutInField
  <2> HIDE DEF t
  <2>8. t \cap Span(g) = {}
    BY <1>1, <1>2, <2>7
  <2>9. /\ SelectBits(w, g) = a % Limit(g)
        /\ t \subseteq w /\ w \subseteq t \cup Span(g)
    BY <1>1, <2>4, <2>5, <2>8, PutInField
  <2>10. SelectBits(w, f) = SelectBits(t, f)
    <3>1. w \cap Span(f) \subseteq t
      BY <1>1, <2>9
    <3>2. QED BY <1>1, <2>9, <3>1, FieldKept
  <2>11. /\ SelectBits(w, f) = h /\ SelectBits(w, g) = a % 64
         /\ u \subseteq w /\ w \subseteq u \cup (10 .. 15) \cup (22 .. 23)
    BY <1>1, <2>7, <2>9, <2>10
  <2>12. QED BY <2>1, <2>2, <2>3, <2>11 DEF w, f, g, a
<1>5. QED BY <1>3, <1>4

\* Two words with the same number in a field have the same bits there.
LEMMA FieldTells ==
    ASSUME NEW w, NEW v, NEW f, IsField(f), SelectBits(w, f) = SelectBits(v, f)
    PROVE  w \cap Span(f) = v \cap Span(f)
<1> DEFINE o == f[1]
           s == f[2]
<1>1. o \in Nat /\ s \in Nat /\ Span(f) = o .. o + s - 1
  BY DEF IsField, Span
<1>2. Selected(w, f) = Selected(v, f)
  BY SelectFacts
<1> HIDE DEF o, s
<1>3. ASSUME NEW i \in o .. o + s - 1 PROVE i \in w <=> i \in v
  <2>1. i - o \in 0 .. s - 1 /\ o + (i - o) = i
    BY <1>1
  <2>2. /\ i - o \in Selected(w, f) <=> i \in w
        /\ i - o \in Selected(v, f) <=> i \in v
    BY <2>1 DEF Selected, o, s
  <2>3. QED BY <1>2, <2>2
<1>4. QED BY <1>1, <1>3

\* The opc field of a two-operand instruction.
OpcOf(opcode) == IF opcode \in arithmetic_opcodes
                 THEN arithmetic_opc[opcode] ELSE bit_logic_opc[opcode]

\* The fields of the word of a line with a second register.
IsRegWord(w, u, opcode, rm, shift) ==
    /\ w \in Word /\ DPReg(w) /\ 28 \notin w
    /\ opcode \in arithmetic_opcodes => 24 \in w /\ 21 \notin w
    /\ opcode \notin arithmetic_opcodes =>
          24 \notin w /\ SelectBits(w, REG_N) = bit_logic_N[opcode]
    /\ SelectBits(w, REG.SF) = SelectBits(u, REG.SF)
    /\ SelectBits(w, REG.RD) = SelectBits(u, REG.RD)
    /\ SelectBits(w, REG.RN) = SelectBits(u, REG.RN)
    /\ SelectBits(w, REG.OPC) = OpcOf(opcode)
    /\ SelectBits(w, REG_SHIFT) = ShiftKind(shift)
    /\ SelectBits(w, REG.RM) = get_register(rm)
    /\ SelectBits(w, REG.OPERAND) = (Amount(shift) % 256) % 64

\* The word of a line with a second register, field by field.
LEMMA RegWord ==
    ASSUME NEW u, u \subseteq (0 .. 9) \cup {31},
           NEW opcode \in arithmetic_opcodes \cup bit_logic_opcodes,
           NEW rm \in Register, IsRegister(rm),
           NEW shift, IsShift(shift), ShiftAccepted(shift),
           NEW w, w = handle_two_op_reg(u, opcode, rm, shift)
    PROVE  IsRegWord(w, u, opcode, rm, shift)
<1> DEFINE u1 == u \cup Halves(\h0A00, 0)
           u2 == SetBits(u1, REG.RM, get_register(rm))
           a1 == SetBits(u2, REG.OPR, ARITHMETIC_OPR)
           a2 == SetBits(a1, REG.OPC, arithmetic_opc[opcode])
           b1 == SetBits(u2, REG.OPC, bit_logic_opc[opcode])
           b2 == SetBits(b1, REG_N, bit_logic_N[opcode])
           u3 == IF opcode \in arithmetic_opcodes THEN a2 ELSE b2
           f == REG.RM
           g == REG.OPC
           h == REG_N
<1>0. w = handle_reg_shift(u3, shift)
  BY DEF handle_two_op_reg
<1>a. /\ IsField(f) /\ Limit(f) = 32 /\ Span(f) = 16 .. 20
      /\ IsField(g) /\ Limit(g) = 4 /\ Span(g) = 29 .. 30
      /\ IsField(h) /\ Limit(h) = 2 /\ Span(h) = {21}
  BY Fields
<1>1. u1 = u \cup {25, 27}
  BY Constants
<1> HIDE DEF u1
<1>2. /\ SelectBits(u2, f) = get_register(rm)
      /\ u1 \subseteq u2 /\ u2 \subseteq u1 \cup (16 .. 20)
  <2> DEFINE n == get_register(rm)
  <2>1. n \in Int /\ n % 32 = n
    BY RegisterNumber
  <2>2. u2 = SetBits(u1, f, n)
    OBVIOUS
  <2> HIDE DEF u2, n, f, g, h
  <2>3. u1 \cap Span(f) = {}
    BY <1>1, <1>a
  <2>4. SelectBits(u2, f) = n % Limit(f)
        /\ u1 \subseteq u2 /\ u2 \subseteq u1 \cup Span(f)
    BY <1>a, <2>1, <2>2, <2>3, PutInField
  <2>5. QED BY <1>a, <2>1, <2>4 DEF n
<1> HIDE DEF u2
<1>3. /\ u2 \subseteq (0 .. 9) \cup (16 .. 20) \cup {25, 27, 31}
      /\ 25 \in u2 /\ 27 \in u2 /\ u \subseteq u2
      /\ u2 \cap ((0 .. 9) \cup {31}) \subseteq u
  BY <1>1, <1>2
<1>4. ASSUME opcode \in arithmetic_opcodes
      PROVE  /\ SelectBits(u3, g) = OpcOf(opcode) /\ 24 \in u3
             /\ u2 \subseteq u3 /\ u3 \subseteq u2 \cup {24} \cup (29 .. 30)
  <2> DEFINE c == arithmetic_opc[opcode]
  <2>1. c \in 0 .. 3
    BY <1>4 DEF arithmetic_opc, arithmetic_opcodes
  <2>2. a1 = u2 \cup {24}
    BY Eight
  <2>3. a2 = SetBits(a1, g, c) /\ u3 = a2 /\ OpcOf(opcode) = c
    BY <1>4 DEF OpcOf
  <2> HIDE DEF a1, a2, u3, c, f, g, h
  <2>4. c \in Int /\ c % 4 = c
    BY <2>1
  <2>5. a1 \cap Span(g) = {}
    BY <1>3, <1>a, <2>2
  <2>6. /\ SelectBits(a2, g) = c % Limit(g)
        /\ a1 \subseteq a2 /\ a2 \subseteq a1 \cup Span(g)
    BY <1>a, <2>3, <2>4, <2>5, PutInField
  <2>7. QED BY <1>a, <2>2, <2>3, <2>4, <2>6
<1>5. ASSUME opcode \notin arithmetic_opcodes
      PROVE  /\ SelectBits(u3, g) = OpcOf(opcode)
             /\ SelectBits(u3, h) = bit_logic_N[opcode]
             /\ u2 \subseteq u3 /\ u3 \subseteq u2 \cup {21} \cup (29 .. 30)
  <2> DEFINE c == bit_logic_opc[opcode]
             n == bit_logic_N[opcode]
  <2>1. c \in 0 .. 3 /\ n \in 0 .. 1
    BY <1>5 DEF bit_logic_opc, bit_logic_N, bit_logic_opcodes
  <2>2. b1 = SetBits(u2, g, c) /\ b2 = SetBits(b1, h, n) /\ u3 = b2
        /\ OpcOf(opcode) = c
    BY <1>5 DEF OpcOf
  <2> HIDE DEF b1, b2, u3, c, n, f, g, h
  <2>3. c \in Int /\ c % 4 = c /\ n \in Int /\ n % 2 = n
    BY <2>1
  <2>4. u2 \cap Span(g) = {}
    BY <1>3, <1>a
  <2>5. /\ SelectBits(b1, g) = c % Limit(g)
        /\ u2 \subseteq b1 /\ b1 \subseteq u2 \cup Span(g)
    BY <1>a, <2>2, <2>3, <2>4, PutInField
  <2>6. b1 \cap Span(h) = {}
    BY <1>3, <1>a, <2>5
  <2>7. /\ SelectBits(b2, h) = n % Limit(h)
        /\ b1 \subseteq b2 /\ b2 \subseteq b1 \cup Span(h)
    BY <1>a, <2>2, <2>3, <2>6, PutInField
  <2>8. SelectBits(b2, g) = SelectBits(b1, g)
    <3>1. b2 \cap Span(g) \subseteq b1
      BY <1>a, <2>7
    <3>2. QED BY <1>a, <2>7, <3>1, FieldKept
  <2>9. /\ SelectBits(u3, g) = c /\ SelectBits(u3, h) = n
        /\ u2 \subseteq u3 /\ u3 \subseteq u2 \cup {21} \cup (29 .. 30)
    BY <1>a, <2>2, <2>3, <2>5, <2>7, <2>8
  <2>10. QED BY <2>2, <2>9 DEF n
<1> HIDE DEF u3, f, g, h
<1>6. /\ u2 \subseteq u3 /\ u3 \subseteq u2 \cup {21, 24} \cup (29 .. 30)
      /\ SelectBits(u3, g) = OpcOf(opcode)
      /\ opcode \in arithmetic_opcodes => 24 \in u3 /\ 21 \notin u3
      /\ opcode \notin arithmetic_opcodes =>
            24 \notin u3 /\ SelectBits(u3, h) = bit_logic_N[opcode]
  <2>1. 21 \notin u2 /\ 24 \notin u2
    BY <1>3
  <2>2. CASE opcode \in arithmetic_opcodes
    <3>1. /\ SelectBits(u3, g) = OpcOf(opcode) /\ 24 \in u3
          /\ u2 \subseteq u3 /\ u3 \subseteq u2 \cup {24} \cup (29 .. 30)
      BY <2>2, <1>4
    <3>2. 21 \notin u3
      BY <2>1, <3>1
    <3>3. QED BY <2>2, <3>1, <3>2
  <2>3. CASE opcode \notin arithmetic_opcodes
    <3>1. /\ SelectBits(u3, g) = OpcOf(opcode)
          /\ SelectBits(u3, h) = bit_logic_N[opcode]
          /\ u2 \subseteq u3 /\ u3 \subseteq u2 \cup {21} \cup (29 .. 30)
      BY <2>3, <1>5
    <3>2. 24 \notin u3
      BY <2>1, <3>1
    <3>3. QED BY <2>3, <3>1, <3>2
  <2>4. QED BY <2>2, <2>3
<1>7. u3 \cap (10 .. 15) = {} /\ u3 \cap (22 .. 23) = {}
  BY <1>3, <1>6
<1>8. /\ SelectBits(w, REG_SHIFT) = ShiftKind(shift)
      /\ SelectBits(w, REG.OPERAND) = (Amount(shift) % 256) % 64
      /\ u3 \subseteq w /\ w \subseteq u3 \cup (10 .. 15) \cup (22 .. 23)
  BY <1>0, <1>7, ShiftPut
<1>9. /\ w \in Word /\ 25 \in w /\ 27 \in w /\ 26 \notin w /\ 28 \notin w
      /\ opcode \in arithmetic_opcodes => 24 \in w /\ 21 \notin w
      /\ opcode \notin arithmetic_opcodes => 24 \notin w
  <2>1. /\ 24 \in w <=> 24 \in u3
        /\ 21 \in w <=> 21 \in u3
    BY <1>8
  <2>2. w \in Word /\ 25 \in w /\ 27 \in w /\ 26 \notin w /\ 28 \notin w
    <3>1. /\ u2 \subseteq u3 /\ u3 \subseteq u2 \cup {21, 24} \cup (29 .. 30)
          /\ u3 \subseteq w /\ w \subseteq u3 \cup (10 .. 15) \cup (22 .. 23)
      BY <1>6, <1>8
    <3>2. 25 \in u2 /\ 27 \in u2 /\ 26 \notin u2 /\ 28 \notin u2
          /\ u2 \subseteq 0 .. 31
      BY <1>3
    <3>3. 25 \in u3 /\ 27 \in u3 /\ 26 \notin u3 /\ 28 \notin u3
          /\ u3 \subseteq 0 .. 31
      BY <3>1, <3>2
    <3>4. 25 \in w /\ 27 \in w /\ 26 \notin w /\ 28 \notin w
          /\ w \subseteq 0 .. 31
      <4>1. w \subseteq u3 \cup (10 .. 15) \cup (22 .. 23) /\ u3 \subseteq w
        BY <3>1
      <4>2. 25 \in w /\ 27 \in w
        BY <3>3, <4>1
      <4>3. 26 \notin w /\ 28 \notin w
        BY <3>3, <4>1
      <4>4. w \subseteq 0 .. 31
        <5>1. (10 .. 15) \subseteq 0 .. 31 /\ (22 .. 23) \subseteq 0 .. 31
          OBVIOUS
        <5>2. QED BY <3>3, <4>1, <5>1
      <4>5. QED BY <4>2, <4>3, <4>4
    <3>5. QED BY <3>4 DEF Word
  <2>3. QED BY <1>6, <2>1, <2>2
<1>10. u2 \subseteq w /\ u \subseteq w
  BY <1>3, <1>6, <1>8
<1>11. /\ SelectBits(w, REG.SF) = SelectBits(u, REG.SF)
       /\ SelectBits(w, REG.RD) = SelectBits(u, REG.RD)
       /\ SelectBits(w, REG.RN) = SelectBits(u, REG.RN)
  <2>1. w \cap ((0 .. 9) \cup {31}) \subseteq u
    BY <1>3, <1>6, <1>8
  <2>2. w \cap (0 .. 4) \subseteq u /\ w \cap (5 .. 9) \subseteq u
        /\ w \cap {31} \subseteq u
    BY <2>1
  <2>3. QED BY <1>10, <2>2, EndsKept
<1>12. SelectBits(w, f) = get_register(rm)
  <2>1. w \cap Span(f) \subseteq u2
    BY <1>a, <1>6, <1>8
  <2>2. SelectBits(w, f) = SelectBits(u2, f)
    BY <1>a, <1>10, <2>1, FieldKept
  <2>3. QED BY <1>2, <2>2
<1>13. SelectBits(w, g) = OpcOf(opcode)
  <2>1. w \cap Span(g) \subseteq u3
    BY <1>a, <1>8
  <2>2. SelectBits(w, g) = SelectBits(u3, g)
    BY <1>a, <1>8, <2>1, FieldKept
  <2>3. QED BY <1>6, <2>2
<1>14. SelectBits(w, h) = SelectBits(u3, h)
  <2>1. w \cap Span(h) \subseteq u3
    BY <1>a, <1>8
  <2>2. QED BY <1>a, <1>8, <2>1, FieldKept
<1>15. QED
  BY <1>6, <1>8, <1>9, <1>11, <1>12, <1>13, <1>14 DEF f, g, h, DPReg, IsRegWord

\* The halting word is the only one of its group with its fields.
LEMMA HaltByFields ==
    ASSUME NEW w \in Word, RegLogic(w),
           Emulated!DecodeBitLogic(w)
              = Emulated!DecodeBitLogic(HALT_INSTRUCTION)
    PROVE  w = HALT_INSTRUCTION
<1> DEFINE v == HALT_INSTRUCTION
<1>1. v = {25, 27, 31}
  BY SpecialBits
<1>2. /\ SelectBits(w, REG.SF) = SelectBits(v, REG.SF)
      /\ SelectBits(w, REG.OPC) = SelectBits(v, REG.OPC)
      /\ SelectBits(w, REG_SHIFT) = SelectBits(v, REG_SHIFT)
      /\ SelectBits(w, REG_N) = SelectBits(v, REG_N)
      /\ SelectBits(w, REG.RM) = SelectBits(v, REG.RM)
      /\ SelectBits(w, REG.OPERAND) = SelectBits(v, REG.OPERAND)
      /\ SelectBits(w, REG.RN) = SelectBits(v, REG.RN)
      /\ SelectBits(w, REG.RD) = SelectBits(v, REG.RD)
  BY RegFields
<1> HIDE DEF v
<1>3. w \cap {31} = v \cap {31}
  BY <1>2, FieldTells, Fields
<1>4. w \cap (29 .. 30) = v \cap (29 .. 30)
  BY <1>2, FieldTells, Fields
<1>5. w \cap (22 .. 23) = v \cap (22 .. 23)
  BY <1>2, FieldTells, Fields
<1>6. w \cap {21} = v \cap {21}
  BY <1>2, FieldTells, Fields
<1>7. w \cap (16 .. 20) = v \cap (16 .. 20)
  BY <1>2, FieldTells, Fields
<1>8. w \cap (10 .. 15) = v \cap (10 .. 15)
  BY <1>2, FieldTells, Fields
<1>9. w \cap (5 .. 9) = v \cap (5 .. 9)
  BY <1>2, FieldTells, Fields
<1>10. w \cap (0 .. 4) = v \cap (0 .. 4)
  BY <1>2, FieldTells, Fields
<1>11. w \cap (24 .. 28) = {25, 27}
  BY DEF RegLogic, DPReg
<1>12. v \cap (24 .. 28) = {25, 27}
  BY <1>1
<1>13. w \subseteq 0 .. 31 /\ v \subseteq 0 .. 31
  BY <1>1 DEF Word
<1>14. ASSUME NEW k \in 0 .. 31 PROVE k \in w <=> k \in v
  <2>1. \/ k \in 0 .. 4 \/ k \in 5 .. 9 \/ k \in 10 .. 15 \/ k \in 16 .. 20
        \/ k \in {21} \/ k \in 22 .. 23 \/ k \in 24 .. 28 \/ k \in 29 .. 30
        \/ k \in {31}
    OBVIOUS
  <2>2. CASE k \in 0 .. 4 BY <2>2, <1>10
  <2>3. CASE k \in 5 .. 9 BY <2>3, <1>9
  <2>4. CASE k \in 10 .. 15 BY <2>4, <1>8
  <2>5. CASE k \in 16 .. 20 BY <2>5, <1>7
  <2>6. CASE k \in {21} BY <2>6, <1>6
  <2>7. CASE k \in 22 .. 23 BY <2>7, <1>5
  <2>8. CASE k \in 24 .. 28 BY <2>8, <1>11, <1>12
  <2>9. CASE k \in 29 .. 30 BY <2>9, <1>4
  <2>10. CASE k \in {31} BY <2>10, <1>3
  <2>11. QED
    BY <2>1, <2>2, <2>3, <2>4, <2>5, <2>6, <2>7, <2>8, <2>9, <2>10
<1>15. QED BY <1>13, <1>14 DEF v

\* The emulator does the same with a bitwise word and with the instruction
\* meant when the fields are the ones meant.
LEMMA LogicMeans ==
    ASSUME NEW w \in Word, RegLogic(w), NEW l, Said(l).op # "halt"
    PROVE  Decode(w) = Meaning(l) <=> Emulated!DecodeBitLogic(w) = Said(l)
<1> DEFINE d == Emulated!DecodeBitLogic(w)
           h == Emulated!DecodeBitLogic(HALT_INSTRUCTION)
           halt == [op |-> "halt"]
<1>1. d.op = "logic_reg" /\ halt.op = "halt"
  BY DEF Emulated!DecodeBitLogic
<1>2. Meaning(l) = IF Said(l) = h THEN halt ELSE Said(l)
  BY DEF Meaning
<1>3. w = HALT_INSTRUCTION => Decode(w) = halt
  <2>1. /\ Emulated!HALT_INSTRUCTION = HALT_INSTRUCTION
        /\ Emulated!NOP_INSTRUCTION = NOP_INSTRUCTION
    BY SameMacros DEF HALT_INSTRUCTION, Emulated!HALT_INSTRUCTION,
                      NOP_INSTRUCTION, Emulated!NOP_INSTRUCTION
  <2>2. 0 \in NOP_INSTRUCTION /\ 0 \notin HALT_INSTRUCTION
    BY SpecialBits
  <2>3. QED BY <2>1, <2>2 DEF Decode, Emulated!Decode
<1>4. w # HALT_INSTRUCTION => Decode(w) = d
  <2>1. w # NOP_INSTRUCTION
    BY SpecialBits DEF RegLogic, DPReg
  <2>2. QED BY <2>1, RegDecoded DEF RegLogic, Ordinary
<1>5. w = HALT_INSTRUCTION <=> d = h
  BY HaltByFields
<1> HIDE DEF d, h, halt
<1>6. d # halt /\ Said(l) # halt
  BY <1>1
<1>7. QED BY <1>2, <1>3, <1>4, <1>5, <1>6 DEF d

\* Any other instruction is meant as it is said.
LEMMA OtherMeans ==
    ASSUME NEW l, Said(l).op # "logic_reg"
    PROVE  Meaning(l) = Said(l)
<1>1. Emulated!DecodeBitLogic(HALT_INSTRUCTION).op = "logic_reg"
  BY DEF Emulated!DecodeBitLogic
<1>2. QED BY <1>1 DEF Meaning

\* The amount of a shift, cut to a byte and then to its field, is unchanged
\* when a register has that many bits.
LEMMA AmountKept ==
    ASSUME NEW n \in Int
    PROVE  (n % 256) % 64 = n <=> Between(n, 0, 63)
<1> DEFINE a == n % 256
<1>1. n = 256 * (n \div 256) + a /\ a \in 0 .. 255 /\ n \div 256 \in Int
  BY DivisionParts
<1>2. a % 64 \in 0 .. 63
  BY <1>1
<1>3. n \in 0 .. 63 => a = n /\ a % 64 = n
  OBVIOUS
<1> HIDE DEF a
<1>4. QED BY <1>2, <1>3 DEF Between, a

\* A line of two operands, whatever else it has.
IsTwoOp(t, opcode, rd, rn, operand, shift) ==
    /\ t.form = "two_op" /\ t.opcode = opcode /\ t.rd = rd /\ t.rn = rn
    /\ t.operand = operand /\ t.shift = shift

\* Such a line, encoded with the registers d and n, is encoded as it is
\* written.
TwoOpFits(opcode, rd, rn, operand, shift, d, n) ==
    /\ Between(Amount(shift), 0, 63) /\ d = rd.n /\ n = rn.n
    /\ is_immediate(operand) => Between(operand.imm, 0, 4095)
    /\ ~is_immediate(operand) =>
          /\ ~(operand.n > 31)
          /\ ~(opcode \in arithmetic_opcodes /\ shift.type = "ror")

\* A line of two registers and a third one does what it says unless the
\* shift does not fit, a register is not the one written or the instruction
\* is an arithmetic one with ror.
LEMMA RegTwoOpMeans ==
    ASSUME NEW u, u \subseteq (0 .. 9) \cup {31},
           NEW opcode \in arithmetic_opcodes \cup bit_logic_opcodes,
           NEW rd \in Register, NEW rn \in Register,
           NEW rm \in Register, IsRegister(rm),
           NEW shift, IsShift(shift), ShiftAccepted(shift),
           SelectBits(u, REG.SF) = rd.sf,
           NEW t, IsTwoOp(t, opcode, rd, rn, rm, shift)
    PROVE  /\ Between(Amount(shift), 0, 63)
           /\ Decode(handle_two_op_reg(u, opcode, rm, shift)) = Meaning(t)
           <=> TwoOpFits(opcode, rd, rn, rm, shift,
                         SelectBits(u, REG.RD), SelectBits(u, REG.RN))
<1> DEFINE w == handle_two_op_reg(u, opcode, rm, shift)
           d == SelectBits(u, REG.RD)
           n == SelectBits(u, REG.RN)
           m == get_register(rm)
           a == Amount(shift)
           k == ShiftKind(shift)
<1>1. /\ w \in Word /\ DPReg(w) /\ 28 \notin w
      /\ opcode \in arithmetic_opcodes => 24 \in w /\ 21 \notin w
      /\ opcode \notin arithmetic_opcodes =>
            24 \notin w /\ SelectBits(w, REG_N) = bit_logic_N[opcode]
      /\ SelectBits(w, REG.SF) = rd.sf
      /\ SelectBits(w, REG.RD) = d /\ SelectBits(w, REG.RN) = n
      /\ SelectBits(w, REG.OPC) = OpcOf(opcode)
      /\ SelectBits(w, REG_SHIFT) = k
      /\ SelectBits(w, REG.RM) = m
      /\ SelectBits(w, REG.OPERAND) = (a % 256) % 64
  <2>1. w = handle_two_op_reg(u, opcode, rm, shift)
    OBVIOUS
  <2> HIDE DEF w
  <2>2. IsRegWord(w, u, opcode, rm, shift)
    BY <2>1, RegWord
  <2>3. QED BY <2>2 DEF IsRegWord
<1>2. a \in Int /\ k \in 0 .. 3 /\ (k = 3 <=> shift.type = "ror")
  <2>1. {} \cap (10 .. 15) = {} /\ {} \cap (22 .. 23) = {}
    OBVIOUS
  <2>2. QED BY <2>1, ShiftPut
<1>3. m = rm.n <=> ~(rm.n > 31)
  BY RegisterNumber
<1>4. (a % 256) % 64 = a <=> Between(a, 0, 63)
  <2> HIDE DEF a
  <2>1. QED BY <1>2, AmountKept
<1>5. /\ t.form = "two_op" /\ t.opcode = opcode /\ t.rd = rd /\ t.rn = rn
      /\ t.operand = rm /\ t.shift = shift /\ ~is_immediate(t.operand)
  <2>1. ~is_immediate(rm)
    BY DEF Register, is_immediate
  <2>2. QED BY <2>1 DEF IsTwoOp
<1>6. {22, 23} \subseteq w <=> k = 3
  <2>1. SelectBits(w, REG_SHIFT) = 3 <=> Selected(w, REG_SHIFT) = Bits(3)
    <3>1. IsField(REG_SHIFT) /\ Limit(REG_SHIFT) = 4
      BY Fields
    <3>2. QED BY <3>1, FieldIs
  <2>2. Selected(w, REG_SHIFT) = {j \in 0 .. 1 : 22 + j \in w}
    BY DEF Selected, REG_SHIFT
  <2>3. Bits(3) = {0, 1}
    BY Ones
  <2> HIDE DEF w
  <2>4. {j \in 0 .. 1 : 22 + j \in w} = {0, 1} <=> {22, 23} \subseteq w
    <3>1. 22 + 0 = 22 /\ 22 + 1 = 23 /\ 0 \in 0 .. 1 /\ 1 \in 0 .. 1
      OBVIOUS
    <3>2. QED BY <3>1
  <2>5. QED BY <1>1, <2>1, <2>2, <2>3, <2>4
<1> SUFFICES Between(a, 0, 63) /\ Decode(w) = Meaning(t)
             <=>
             /\ Between(a, 0, 63) /\ d = rd.n /\ n = rn.n /\ ~(rm.n > 31)
             /\ ~(opcode \in arithmetic_opcodes /\ shift.type = "ror")
  BY <1>5 DEF TwoOpFits
<1>7. CASE opcode \in arithmetic_opcodes
  <2>1. Said(t) =
          [op |-> "arith_reg", sf |-> rd.sf, opc |-> OpcOf(opcode),
           shift |-> k, rm |-> rm.n, amount |-> a, rn |-> rn.n, rd |-> rd.n]
    <3>1. opcode \notin bit_logic_opcodes
      BY <1>7 DEF arithmetic_opcodes, bit_logic_opcodes
    <3>2. QED BY <1>5, <1>7, <3>1 DEF Said, OpcOf
  <2>2. Said(t).op # "logic_reg" /\ Said(t).op # "illegal"
    BY <2>1
  <2>3. Meaning(t) = Said(t)
    BY <2>2, OtherMeans
  <2>4. Ordinary(w)
    BY <1>1, <1>7, SpecialBits DEF Ordinary, DPReg
  <2>5. k = 3 => Decode(w) = [op |-> "illegal"]
    BY <1>1, <1>6, <1>7, <2>4, RegDecoded
  <2>6. k # 3 =>
          Decode(w) =
            [op |-> "arith_reg", sf |-> rd.sf, opc |-> OpcOf(opcode),
             shift |-> k, rm |-> m, amount |-> (a % 256) % 64,
             rn |-> n, rd |-> d]
    <3>1. SUFFICES ASSUME k # 3
                   PROVE  Decode(w) = Emulated!DecodeArithmetic(w)
      BY <1>1, RegFields
    <3>2. RegArith(w)
      BY <1>1, <1>6, <1>7, <3>1 DEF RegArith
    <3>3. QED BY <1>1, <2>4, <3>2, RegDecoded
  <2> HIDE DEF w, d, n, m, a, k
  <2>7. CASE k = 3
    <3>1. Decode(w).op = "illegal"
      BY <2>5, <2>7
    <3>2. QED BY <1>2, <1>7, <2>2, <2>3, <2>7, <3>1 DEF w, d, n, a
  <2>8. CASE k # 3
    <3>1. Decode(w) = Said(t)
            <=> m = rm.n /\ (a % 256) % 64 = a /\ n = rn.n /\ d = rd.n
      BY <2>1, <2>6, <2>8
    <3>2. QED BY <1>2, <1>3, <1>4, <1>7, <2>3, <2>8, <3>1 DEF w, d, n, a
  <2>9. QED BY <2>7, <2>8
<1>8. CASE opcode \notin arithmetic_opcodes
  <2> DEFINE b == bit_logic_N[opcode]
  <2>1. Said(t) =
          [op |-> "logic_reg", sf |-> rd.sf, opc |-> OpcOf(opcode),
           shift |-> k, n |-> b, rm |-> rm.n, amount |-> a, rn |-> rn.n,
           rd |-> rd.n]
    BY <1>5, <1>8 DEF Said, OpcOf
  <2>2. Said(t).op # "halt"
    BY <2>1
  <2>3. RegLogic(w)
    BY <1>1, <1>8 DEF RegLogic
  <2>4. Decode(w) = Meaning(t) <=> Emulated!DecodeBitLogic(w) = Said(t)
    BY <1>1, <2>2, <2>3, LogicMeans
  <2>5. Emulated!DecodeBitLogic(w) =
          [op |-> "logic_reg", sf |-> rd.sf, opc |-> OpcOf(opcode),
           shift |-> k, n |-> b, rm |-> m, amount |-> (a % 256) % 64,
           rn |-> n, rd |-> d]
    BY <1>1, <1>8, RegFields
  <2> HIDE DEF w, d, n, m, a, k, b
  <2>6. Emulated!DecodeBitLogic(w) = Said(t)
          <=> m = rm.n /\ (a % 256) % 64 = a /\ n = rn.n /\ d = rd.n
    BY <2>1, <2>5
  <2>7. QED BY <1>3, <1>4, <1>8, <2>4, <2>6 DEF w, d, n, a
<1>9. QED BY <1>7, <1>8

\* A line with an immediate does what it says unless the shift or the
\* immediate does not fit or a register is not the one written.
LEMMA ImmTwoOpMeans ==
    ASSUME NEW u, u \subseteq (0 .. 9) \cup {31},
           NEW opcode \in arithmetic_opcodes,
           NEW rd \in Register, NEW rn \in Register,
           NEW operand \in Immediate,
           NEW shift, IsShift(shift), ImmShiftAccepted(shift),
           SelectBits(u, REG.SF) = rd.sf,
           NEW t, IsTwoOp(t, opcode, rd, rn, operand, shift)
    PROVE  /\ Between(Amount(shift), 0, 63)
           /\ Decode(handle_two_op_imm(u, opcode, operand, shift)) = Meaning(t)
           <=> TwoOpFits(opcode, rd, rn, operand, shift,
                         SelectBits(u, REG.RD), SelectBits(u, REG.RN))
<1> DEFINE w == handle_two_op_imm(u, opcode, operand, shift)
           d == SelectBits(u, REG.RD)
           n == SelectBits(u, REG.RN)
           i == operand.imm
           a == Amount(shift)
           c == arithmetic_opc[opcode]
           p == ImmFactor(shift)
<1>1. Decode(w) =
        [op |-> "arith_imm", sf |-> rd.sf, opc |-> c, rd |-> d, rn |-> n,
         imm |-> (i % 4096) * p]
  <2>1. Decode(w) = ImmDecoding(u, opcode, operand, shift)
    BY ImmAssembled
  <2>2. QED BY <2>1 DEF ImmDecoding
<1>2. /\ t.form = "two_op" /\ t.opcode = opcode /\ t.rd = rd /\ t.rn = rn
      /\ t.operand = operand /\ t.shift = shift /\ is_immediate(t.operand)
  <2>1. is_immediate(operand)
    BY DEF Immediate, is_immediate
  <2>2. QED BY <2>1 DEF IsTwoOp
<1>3. Said(t) =
        [op |-> "arith_imm", sf |-> rd.sf, opc |-> c, rd |-> rd.n,
         rn |-> rn.n, imm |-> i * 2^a]
  BY <1>2 DEF Said
<1>4. Said(t).op # "logic_reg"
  BY <1>3
<1>5. Meaning(t) = Said(t)
  BY <1>4, OtherMeans
<1>6. i \in Int
  BY DEF Immediate
<1>7. ASSUME Between(a, 0, 63) PROVE 2^a = p /\ (p = 1 \/ p = 4096)
  <2>1. CASE shift = NoShift
    <3>1. a = 0 /\ p = 1
      BY <2>1 DEF Amount, ImmFactor
    <3>2. QED BY <3>1
  <2>2. CASE shift # NoShift
    <3>1. a = shift.amount /\ a \in Int /\ a % 256 \in {0, 12}
      BY <2>2 DEF Amount, IsShift, ImmShiftAccepted
    <3>2. p = IF a % 256 = 12 THEN 4096 ELSE 1
      BY <2>2, <3>1 DEF ImmFactor
    <3> HIDE DEF a, p
    <3>3. a \in 0 .. 63
      BY <1>7, <3>1 DEF Between
    <3>4. a % 256 = a
      BY <3>3
    <3>5. CASE a = 0
      BY <3>2, <3>4, <3>5
    <3>6. CASE a = 12
      BY <3>2, <3>4, <3>6
    <3>7. QED BY <3>1, <3>4, <3>5, <3>6
  <2>3. QED BY <2>1, <2>2
<1> HIDE DEF w, d, n, i, a, c, p
<1>8. ASSUME Between(a, 0, 63)
      PROVE  (i % 4096) * p = i * 2^a <=> Between(i, 0, 4095)
  <2> DEFINE q == 2^a
  <2>1. q = p /\ (p = 1 \/ p = 4096)
    BY <1>7, <1>8
  <2> HIDE DEF q
  <2>2. (i % 4096) * p = i * q <=> i % 4096 = i
    BY <1>6, <2>1
  <2>3. i % 4096 = i <=> Between(i, 0, 4095)
    BY <1>6 DEF Between
  <2>4. QED BY <2>2, <2>3 DEF q
<1>9. ASSUME Between(a, 0, 63)
      PROVE  Decode(w) = Said(t)
               <=> d = rd.n /\ n = rn.n /\ Between(i, 0, 4095)
  <2> DEFINE x == (i % 4096) * p
             y == i * 2^a
  <2>1. x = y <=> Between(i, 0, 4095)
    BY <1>8, <1>9
  <2>2. /\ Decode(w) = [op |-> "arith_imm", sf |-> rd.sf, opc |-> c,
                        rd |-> d, rn |-> n, imm |-> x]
        /\ Said(t) = [op |-> "arith_imm", sf |-> rd.sf, opc |-> c,
                      rd |-> rd.n, rn |-> rn.n, imm |-> y]
    BY <1>1, <1>3
  <2> HIDE DEF x, y
  <2>3. Decode(w) = Said(t) <=> d = rd.n /\ n = rn.n /\ x = y
    BY <2>2
  <2>4. QED BY <2>1, <2>3
<1>10. QED BY <1>2, <1>5, <1>9 DEF w, d, n, i, a, TwoOpFits

\* The width and the two registers at the ends of a word that has nothing
\* else.
HasRegisters(u, sf, d, n) ==
    /\ u \subseteq (0 .. 9) \cup {31}
    /\ SelectBits(u, REG.SF) = sf
    /\ SelectBits(u, REG.RD) = d /\ SelectBits(u, REG.RN) = n

\* A line of two operands does what it says unless the shift or the immediate
\* does not fit, a register is not the one written, or it is an arithmetic
\* one with ror.
LEMMA TwoOpMeans ==
    ASSUME NEW opcode \in arithmetic_opcodes \cup bit_logic_opcodes,
           NEW rd \in Register, NEW rn \in Register,
           NEW operand \in Register \cup Immediate,
           NEW shift, IsShift(shift), TwoOpAccepted(opcode, operand, shift),
           NEW d, NEW n, NEW u, HasRegisters(u, rd.sf, d, n),
           NEW t, IsTwoOp(t, opcode, rd, rn, operand, shift)
    PROVE  /\ Between(Amount(shift), 0, 63)
           /\ Decode(handle_two_op(u, opcode, operand, shift)) = Meaning(t)
           <=>
           TwoOpFits(opcode, rd, rn, operand, shift, d, n)
<1>1. /\ u \subseteq (0 .. 9) \cup {31} /\ SelectBits(u, REG.SF) = rd.sf
      /\ SelectBits(u, REG.RD) = d /\ SelectBits(u, REG.RN) = n
  BY DEF HasRegisters
<1>2. CASE is_immediate(operand)
  <2>1. /\ operand \in Immediate /\ opcode \in arithmetic_opcodes
        /\ ImmShiftAccepted(shift)
    BY <1>2, Operands DEF TwoOpAccepted
  <2>2. handle_two_op(u, opcode, operand, shift)
          = handle_two_op_imm(u, opcode, operand, shift)
    BY <1>2 DEF handle_two_op
  <2>3. /\ Between(Amount(shift), 0, 63)
        /\ Decode(handle_two_op_imm(u, opcode, operand, shift)) = Meaning(t)
        <=> TwoOpFits(opcode, rd, rn, operand, shift,
                      SelectBits(u, REG.RD), SelectBits(u, REG.RN))
    BY <1>1, <2>1, ImmTwoOpMeans
  <2>4. QED BY <1>1, <2>2, <2>3
<1>3. CASE ~is_immediate(operand)
  <2>1. /\ operand \in Register /\ IsRegister(operand)
        /\ ShiftAccepted(shift)
    BY <1>3, Operands DEF TwoOpAccepted
  <2>2. handle_two_op(u, opcode, operand, shift)
          = handle_two_op_reg(u, opcode, operand, shift)
    BY <1>3 DEF handle_two_op
  <2>3. /\ Between(Amount(shift), 0, 63)
        /\ Decode(handle_two_op_reg(u, opcode, operand, shift)) = Meaning(t)
        <=> TwoOpFits(opcode, rd, rn, operand, shift,
                      SelectBits(u, REG.RD), SelectBits(u, REG.RN))
    BY <1>1, <2>1, RegTwoOpMeans
  <2>4. QED BY <1>1, <2>2, <2>3
<1>4. QED BY <1>2, <1>3

\* The layouts of the registers at the ends.
LEMMA EndFields ==
    /\ IsField(REG.SF) /\ Limit(REG.SF) = 2 /\ Span(REG.SF) = {31}
    /\ IsField(REG.RD) /\ Limit(REG.RD) = 32 /\ Span(REG.RD) = 0 .. 4
    /\ IsField(REG.RN) /\ Limit(REG.RN) = 32 /\ Span(REG.RN) = 5 .. 9
    /\ {31} \cap (0 .. 4) = {} /\ {31} \cap (5 .. 9) = {}
    /\ (0 .. 4) \cap (5 .. 9) = {}
BY Fields

\* The registers of a line of two operands.
LEMMA TwoOpRegisters ==
    ASSUME NEW rd \in Register, IsRegister(rd),
           NEW rn \in Register, IsRegister(rn)
    PROVE  HasRegisters(
             WithRegister(SetBits({}, REG.RN, get_register(rn)),
                          REG.SF, REG.RD, rd),
             rd.sf, get_register(rd), get_register(rn))
<1> DEFINE f == REG.SF
           g == REG.RD
           h == REG.RN
           n == get_register(rn)
           t == SetBits({}, h, n)
           u == WithRegister(t, f, g, rd)
<1>1. /\ IsField(f) /\ Limit(f) = 2 /\ Span(f) = {31}
      /\ IsField(g) /\ Limit(g) = 32 /\ Span(g) = 0 .. 4
      /\ IsField(h) /\ Limit(h) = 32 /\ Span(h) = 5 .. 9
      /\ {31} \cap (0 .. 4) = {}
  BY EndFields
<1>2. n \in Int /\ n % 32 = n
  BY RegisterNumber
<1> HIDE DEF f, g, h, n
<1>3. SelectBits(t, h) = n /\ t \subseteq 5 .. 9
  <2>1. {} \cap Span(h) = {} /\ t = SetBits({}, h, n)
    OBVIOUS
  <2> HIDE DEF t
  <2>2. /\ SelectBits(t, h) = n % Limit(h)
        /\ {} \subseteq t /\ t \subseteq {} \cup Span(h)
    BY <1>1, <1>2, <2>1, PutInField
  <2>3. QED BY <1>1, <1>2, <2>2
<1> HIDE DEF t
<1>4. /\ SelectBits(u, f) = rd.sf /\ SelectBits(u, g) = get_register(rd)
      /\ t \subseteq u /\ u \subseteq t \cup {31} \cup (0 .. 4)
  <2>1. t \cap Span(f) = {} /\ t \cap Span(g) = {} /\ Span(f) \cap Span(g) = {}
    BY <1>1, <1>3
  <2>2. /\ SelectBits(u, f) = rd.sf /\ SelectBits(u, g) = get_register(rd)
        /\ t \subseteq u /\ u \subseteq t \cup Span(f) \cup Span(g)
    BY <1>1, <2>1, RegisterPut
  <2>3. QED BY <1>1, <2>2
<1> HIDE DEF u
<1>5. SelectBits(u, h) = n
  <2>1. u \cap Span(h) \subseteq t
    BY <1>1, <1>4
  <2>2. SelectBits(u, h) = SelectBits(t, h)
    BY <1>1, <1>4, <2>1, FieldKept
  <2>3. QED BY <1>3, <2>2
<1>6. u \subseteq (0 .. 9) \cup {31}
  BY <1>3, <1>4
<1>7. QED BY <1>4, <1>5, <1>6 DEF HasRegisters, u, t, f, g, h, n

\* The registers of a line without one of the two: the other field has the
\* number given, none of which is zero.
LEMMA OneRegister ==
    ASSUME NEW r \in Register, IsRegister(r),
           NEW g, IsField(g), Limit(g) = 32,
           NEW h, IsField(h), Limit(h) = 32,
           \/ Span(g) = 0 .. 4 /\ Span(h) = 5 .. 9
           \/ Span(g) = 5 .. 9 /\ Span(h) = 0 .. 4
    PROVE  LET t == WithRegister({}, REG.SF, g, r)
               u == SetBits(t, h, ZR_REG)
           IN  /\ t \subseteq (0 .. 9) \cup {31} /\ u \subseteq (0 .. 9) \cup {31}
               /\ SelectBits(t, REG.SF) = r.sf /\ SelectBits(u, REG.SF) = r.sf
               /\ SelectBits(t, g) = get_register(r)
               /\ SelectBits(u, g) = get_register(r)
               /\ SelectBits(t, h) = 0 /\ SelectBits(u, h) = ZR_REG
<1> DEFINE f == REG.SF
           t == WithRegister({}, f, g, r)
           u == SetBits(t, h, ZR_REG)
<1>1. /\ IsField(f) /\ Limit(f) = 2 /\ Span(f) = {31}
      /\ Span(f) \cap Span(g) = {} /\ Span(f) \cap Span(h) = {}
      /\ Span(g) \cap Span(h) = {}
  BY EndFields
<1> HIDE DEF f
<1>2. /\ SelectBits(t, f) = r.sf /\ SelectBits(t, g) = get_register(r)
      /\ t \subseteq {} \cup Span(f) \cup Span(g)
  <2>1. {} \cap Span(f) = {} /\ {} \cap Span(g) = {}
    OBVIOUS
  <2>2. QED BY <1>1, <2>1, RegisterPut
<1> HIDE DEF t
<1>3. t \cap Span(h) = {}
  BY <1>1, <1>2
<1>4. SelectBits(t, h) = 0
  BY <1>3, FieldEmpty
<1>5. /\ SelectBits(u, h) = ZR_REG
      /\ t \subseteq u /\ u \subseteq t \cup Span(h)
  <2>1. ZR_REG \in Int /\ ZR_REG % 32 = ZR_REG
    BY DEF ZR_REG
  <2>2. /\ SelectBits(u, h) = ZR_REG % Limit(h)
        /\ t \subseteq u /\ u \subseteq t \cup Span(h)
    BY <1>3, <2>1, PutInField
  <2>3. QED BY <2>1, <2>2
<1> HIDE DEF u
<1>6. SelectBits(u, f) = SelectBits(t, f)
  <2>1. u \cap Span(f) \subseteq t
    BY <1>1, <1>5
  <2>2. QED BY <1>1, <1>5, <2>1, FieldKept
<1>7. SelectBits(u, g) = SelectBits(t, g)
  <2>1. u \cap Span(g) \subseteq t
    BY <1>1, <1>5
  <2>2. QED BY <1>1, <1>5, <2>1, FieldKept
<1>8. t \subseteq (0 .. 9) \cup {31} /\ u \subseteq (0 .. 9) \cup {31}
  BY <1>1, <1>2, <1>5
<1>9. QED BY <1>2, <1>4, <1>5, <1>6, <1>7, <1>8 DEF t, u, f

DataForms == {"two_op", "no_dest", "single_op", "multiply", "product"}

\* A register a line names is not the one encoded.
OutOfRange(l) == \E r \in Registers(l) : r.n > 31

\* What the two sides of the property are for data processing.
LEMMA DataSides ==
    ASSUME NEW l, l.form \in DataForms, NEW w, NEW here
    PROVE  /\ AsWritten(w, l, here) <=>
                /\ ~ImmediateFactor(l) /\ OneWidth(l) /\ ~Overshifted(l)
                /\ Decode(w) = Meaning(Unaliased(l))
           /\ Deviates(l, here) <=>
                \/ OutOfRange(l) \/ ~OneWidth(l) \/ Cut(l) \/ Overshifted(l)
                \/ RotatedArithmetic(l) \/ ImmediateFactor(l)
                \/ l.form = "single_op" /\ l.opcode \in {"neg", "negs"}
                      /\ is_immediate(l.operand)
<1>1. AsWritten(w, l, here) <=>
        /\ ~ImmediateFactor(l) /\ OneWidth(l) /\ ~Overshifted(l)
        /\ Decode(w) = Meaning(Unaliased(l))
  BY DEF AsWritten, DataForms
<1>2. ~ScaledByFour(l)
  BY DEF ScaledByFour, DataForms
<1>3. l.form \notin {"transfer", "literal", "b", "b."}
  BY DEF DataForms
<1>4. QED BY <1>1, <1>2, <1>3 DEF Deviates, OutOfRange

\* What a line deviates in that stands for one of two operands.
LEMMA TwoOpDeviates ==
    ASSUME NEW l, l.form \in {"two_op", "no_dest"},
           l.opcode \notin wide_move_opcodes,
           l.form = "two_op" => l.rd \in Register, l.rn \in Register,
           l.operand \in Register \cup Immediate
    PROVE  /\ OutOfRange(l) <=>
                \/ l.form = "two_op" /\ l.rd.n > 31
                \/ l.rn.n > 31
                \/ ~is_immediate(l.operand) /\ l.operand.n > 31
           /\ Cut(l) <=> /\ is_immediate(l.operand)
                         /\ ~Between(l.operand.imm, 0, 4095)
           /\ Overshifted(l) <=> ~Between(Amount(l.shift), 0, 63)
           /\ RotatedArithmetic(l) <=>
                /\ ~is_immediate(l.operand)
                /\ Unaliased(l).opcode \in arithmetic_opcodes
                /\ l.shift.type = "ror"
           /\ ~ImmediateFactor(l)
<1>1. ~is_immediate(l.rn) /\ (l.form = "two_op" => ~is_immediate(l.rd))
  BY DEF Register, is_immediate
<1>2. /\ l.form = "two_op" => NamedBy(l) = {l.rd, l.rn, l.operand}
      /\ l.form = "no_dest" => NamedBy(l) = {l.rn, l.operand}
  BY DEF NamedBy
<1>3. OutOfRange(l) <=>
        \/ l.form = "two_op" /\ l.rd.n > 31
        \/ l.rn.n > 31
        \/ ~is_immediate(l.operand) /\ l.operand.n > 31
  BY <1>1, <1>2 DEF OutOfRange, Registers
<1>4. Cut(l) <=> /\ is_immediate(l.operand)
                 /\ ~Between(l.operand.imm, 0, 4095)
  BY DEF Cut
<1>5. QED
  BY <1>3, <1>4 DEF Overshifted, RotatedArithmetic, ImmediateFactor

\* add, sub, and, bic, orr, orn, eor, eon and those that set the flags.
LEMMA TwoOpLine ==
    ASSUME NEW l, IsLine(l), l.form = "two_op", Accepted(l), NEW here
    PROVE  AsWritten(Assembled(l, here), l, here) <=> ~Deviates(l, here)
<1>1. /\ l.rd \in Register /\ l.rn \in Register
      /\ l.operand \in Register \cup Immediate /\ IsShift(l.shift)
  BY DEF IsLine
<1>2. /\ l.opcode \in arithmetic_opcodes \cup bit_logic_opcodes
      /\ IsRegister(l.rd) /\ IsRegister(l.rn)
      /\ TwoOpAccepted(l.opcode, l.operand, l.shift)
  BY DEF Accepted, Dispatched, OperandsAccepted, is_two_op_opcode
<1> DEFINE u == WithRegister(SetBits({}, REG.RN, get_register(l.rn)),
                             REG.SF, REG.RD, l.rd)
           d == get_register(l.rd)
           n == get_register(l.rn)
           w == handle_two_op(u, l.opcode, l.operand, l.shift)
<1>3. Assembled(l, here) = w
  BY DEF Assembled, assemble_two_op
<1>4. HasRegisters(u, l.rd.sf, d, n)
  BY <1>1, <1>2, TwoOpRegisters
<1>5. IsTwoOp(l, l.opcode, l.rd, l.rn, l.operand, l.shift)
  BY DEF IsTwoOp
<1>6. Unaliased(l) = l
  BY DEF Unaliased
<1>7. /\ (d = l.rd.n <=> ~(l.rd.n > 31)) /\ (n = l.rn.n <=> ~(l.rn.n > 31))
  BY <1>1, <1>2, RegisterNumber
<1>8. l.opcode \notin wide_move_opcodes
  BY <1>2 DEF wide_move_opcodes, arithmetic_opcodes, bit_logic_opcodes
<1> HIDE DEF u, d, n
<1>9. /\ Between(Amount(l.shift), 0, 63) /\ Decode(w) = Meaning(l)
      <=>
      TwoOpFits(l.opcode, l.rd, l.rn, l.operand, l.shift, d, n)
  BY <1>1, <1>2, <1>4, <1>5, TwoOpMeans
<1> HIDE DEF w
<1>10. /\ OutOfRange(l) <=>
            \/ l.rd.n > 31 \/ l.rn.n > 31
            \/ ~is_immediate(l.operand) /\ l.operand.n > 31
       /\ Cut(l) <=> /\ is_immediate(l.operand)
                     /\ ~Between(l.operand.imm, 0, 4095)
       /\ Overshifted(l) <=> ~Between(Amount(l.shift), 0, 63)
       /\ RotatedArithmetic(l) <=>
            /\ ~is_immediate(l.operand) /\ l.opcode \in arithmetic_opcodes
            /\ l.shift.type = "ror"
       /\ ~ImmediateFactor(l)
  BY <1>1, <1>6, <1>8, TwoOpDeviates
<1>11. /\ AsWritten(w, l, here) <=>
            /\ ~ImmediateFactor(l) /\ OneWidth(l) /\ ~Overshifted(l)
            /\ Decode(w) = Meaning(l)
       /\ Deviates(l, here) <=>
            \/ OutOfRange(l) \/ ~OneWidth(l) \/ Cut(l) \/ Overshifted(l)
            \/ RotatedArithmetic(l) \/ ImmediateFactor(l)
  BY <1>6, DataSides DEF DataForms
<1>12. QED BY <1>3, <1>7, <1>9, <1>10, <1>11 DEF TwoOpFits

\* cmp, cmn and tst.
LEMMA NoDestLine ==
    ASSUME NEW l, IsLine(l), l.form = "no_dest", Accepted(l), NEW here
    PROVE  AsWritten(Assembled(l, here), l, here) <=> ~Deviates(l, here)
<1> DEFINE o == no_dest_opcode[l.opcode]
           rd == Zero(l.rn)
           t == Unaliased(l)
           u == SetBits(WithRegister({}, REG.SF, REG.RN, l.rn), REG.RD, ZR_REG)
           n == get_register(l.rn)
           w == handle_two_op(u, o, l.operand, l.shift)
<1>1. /\ l.rn \in Register
      /\ l.operand \in Register \cup Immediate /\ IsShift(l.shift)
  BY DEF IsLine
<1>2. /\ l.opcode \in no_dest_opcodes /\ IsRegister(l.rn)
      /\ TwoOpAccepted(o, l.operand, l.shift)
  BY DEF Accepted, Dispatched, OperandsAccepted
<1>3. /\ o \in arithmetic_opcodes \cup bit_logic_opcodes
      /\ aliases[l.opcode] = o /\ l.opcode \notin wide_move_opcodes
  BY <1>2 DEF no_dest_opcode, no_dest_opcodes, arithmetic_opcodes,
              bit_logic_opcodes, aliases, wide_move_opcodes
<1>4. Assembled(l, here) = w
  BY DEF Assembled, assemble_no_dest
<1>5. rd \in Register /\ rd.sf = l.rn.sf /\ rd.n = ZR_REG
  BY <1>1 DEF Zero, Register, ZR_REG
<1>6. HasRegisters(u, rd.sf, ZR_REG, n)
  <2> DEFINE g == REG.RN
             h == REG.RD
  <2>1. /\ IsField(g) /\ Limit(g) = 32 /\ IsField(h) /\ Limit(h) = 32
        /\ Span(g) = 5 .. 9 /\ Span(h) = 0 .. 4
    BY EndFields
  <2>2. u = SetBits(WithRegister({}, REG.SF, g, l.rn), h, ZR_REG)
    OBVIOUS
  <2> HIDE DEF u, g, h
  <2>3. /\ u \subseteq (0 .. 9) \cup {31} /\ SelectBits(u, REG.SF) = l.rn.sf
        /\ SelectBits(u, g) = get_register(l.rn) /\ SelectBits(u, h) = ZR_REG
    BY <1>1, <1>2, <2>1, <2>2, OneRegister
  <2>4. QED BY <1>5, <2>3 DEF HasRegisters, g, h
<1>7. t = TwoOp(o, rd, l.rn, l.operand, l.shift)
  BY <1>3 DEF Unaliased
<1>8. IsTwoOp(t, o, rd, l.rn, l.operand, l.shift) /\ t.opcode = o
  BY <1>7 DEF IsTwoOp, TwoOp
<1>9. n = l.rn.n <=> ~(l.rn.n > 31)
  BY <1>1, <1>2, RegisterNumber
<1> HIDE DEF o, rd, t, u, n
<1>10. /\ Between(Amount(l.shift), 0, 63) /\ Decode(w) = Meaning(t)
       <=>
       TwoOpFits(o, rd, l.rn, l.operand, l.shift, ZR_REG, n)
  BY <1>1, <1>2, <1>3, <1>5, <1>6, <1>8, TwoOpMeans
<1> HIDE DEF w
<1>11. /\ OutOfRange(l) <=>
            \/ l.rn.n > 31
            \/ ~is_immediate(l.operand) /\ l.operand.n > 31
       /\ Cut(l) <=> /\ is_immediate(l.operand)
                     /\ ~Between(l.operand.imm, 0, 4095)
       /\ Overshifted(l) <=> ~Between(Amount(l.shift), 0, 63)
       /\ RotatedArithmetic(l) <=>
            /\ ~is_immediate(l.operand) /\ o \in arithmetic_opcodes
            /\ l.shift.type = "ror"
       /\ ~ImmediateFactor(l)
  BY <1>1, <1>3, <1>8, TwoOpDeviates DEF t
<1>12. /\ AsWritten(w, l, here) <=>
            /\ ~ImmediateFactor(l) /\ OneWidth(l) /\ ~Overshifted(l)
            /\ Decode(w) = Meaning(t)
       /\ Deviates(l, here) <=>
            \/ OutOfRange(l) \/ ~OneWidth(l) \/ Cut(l) \/ Overshifted(l)
            \/ RotatedArithmetic(l) \/ ImmediateFactor(l)
  BY DataSides DEF DataForms, t
<1>13. QED BY <1>4, <1>5, <1>9, <1>10, <1>11, <1>12 DEF TwoOpFits

\* A wide move put into a word with the width and the register, as it is
\* decoded.
WideDecoding(u, l) ==
    [op |-> "wide_move", sf |-> SelectBits(u, REG.SF),
     opc |-> wide_move_opc[l.opcode], rd |-> SelectBits(u, REG.RD),
     hw |-> ((Amount(l.shift) % 256) \div 16) % 4,
     imm |-> l.operand.imm % 65536]

\* A wide move, as the emulator decodes what is assembled.
LEMMA WideAssembled ==
    ASSUME NEW u, u \subseteq (0 .. 4) \cup {31}, NEW l,
           l.opcode \in wide_move_opcodes, l.operand \in Immediate,
           IsShift(l.shift)
    PROVE  Decode(handle_wide_move(u, l)) = WideDecoding(u, l)
<1> DEFINE u1 == u \cup {28}
           u2 == SetBits(u1, IMM.OPI, IMM_WIDE_MOVE_OPI)
           u3 == SetBits(u2, IMM.IMM16, l.operand.imm)
           u4 == SetBits(u3, REG.OPC, wide_move_opc[l.opcode])
           w == handle_wide_move(u, l)
           f == IMM.IMM16
           g == REG.OPC
           h == IMM.HW
           i == l.operand.imm
           c == wide_move_opc[l.opcode]
           a == Amount(l.shift)
           n == (a % 256) \div 16
<1>1. w = IF l.shift = NoShift
          THEN u4
          ELSE SetBits(u4, h, (l.shift.amount % 256) \div 16)
  <2>1. Halves(\h1000, 0) = {28}
    BY Constants
  <2> HIDE DEF w
  <2>2. w = handle_wide_move(u, l)
    BY DEF w
  <2> DEFINE e == Halves(\h1000, 0)
             t == SetBits(SetBits(SetBits(u \cup e, IMM.OPI, IMM_WIDE_MOVE_OPI),
                                  IMM.IMM16, l.operand.imm),
                          REG.OPC, wide_move_opc[l.opcode])
  <2>3. w = IF l.shift = NoShift
            THEN t
            ELSE SetBits(t, IMM.HW, (l.shift.amount % 256) \div 16)
    <3> HIDE DEF e
    <3>1. QED BY <2>2 DEF handle_wide_move, e
  <2>4. t = u4
    BY <2>1
  <2> HIDE DEF t, u4
  <2>5. QED BY <2>3, <2>4
<1>2. u2 = u1 \cup {23, 25}
  <2>1. SetBits(u1, IMM.OPI, 5) = u1 \cup {23 + k : k \in Bits(5 % 2^3)}
    BY DEF SetBits, IMM
  <2>2. 5 % 2^3 = 5
    OBVIOUS
  <2>3. Bits(5) = {0, 2}
    BY Ones
  <2>4. QED BY <2>1, <2>2, <2>3 DEF IMM_WIDE_MOVE_OPI
<1>3. /\ IsField(f) /\ Limit(f) = 65536 /\ Span(f) = 5 .. 20
      /\ IsField(g) /\ Limit(g) = 4 /\ Span(g) = 29 .. 30
      /\ IsField(h) /\ Limit(h) = 4 /\ Span(h) = 21 .. 22
  BY Fields, WideFields
<1>4. i \in Int
  BY DEF Immediate
<1>5. c \in Int /\ c % 4 = c
  <2>1. c \in {0, 2, 3}
    BY DEF wide_move_opc, wide_move_opcodes
  <2> HIDE DEF c
  <2>2. QED BY <2>1
<1> HIDE DEF u2, f, g, h, i, c
<1>6. /\ SelectBits(u3, f) = i % 65536
      /\ u2 \subseteq u3 /\ u3 \subseteq u2 \cup (5 .. 20)
  <2>1. u2 \cap Span(f) = {} /\ u3 = SetBits(u2, f, i)
    BY <1>2, <1>3 DEF f, i
  <2> HIDE DEF u3
  <2>2. IsField(f)
    BY <1>3
  <2>3. /\ SelectBits(u3, f) = i % Limit(f)
        /\ u2 \subseteq u3 /\ u3 \subseteq u2 \cup Span(f)
    BY <1>4, <2>1, <2>2, PutInField
  <2>4. QED BY <1>3, <2>3
<1> HIDE DEF u3
<1>7. /\ SelectBits(u4, g) = c
      /\ u3 \subseteq u4 /\ u4 \subseteq u3 \cup (29 .. 30)
  <2>1. u3 \cap Span(g) = {} /\ u4 = SetBits(u3, g, c)
    BY <1>2, <1>3, <1>6 DEF g, c
  <2> HIDE DEF u4
  <2>2. /\ SelectBits(u4, g) = c % Limit(g)
        /\ u3 \subseteq u4 /\ u4 \subseteq u3 \cup Span(g)
    BY <1>3, <1>5, <2>1, PutInField
  <2>3. QED BY <1>3, <1>5, <2>2
<1> HIDE DEF u4
<1>8. u4 \cap Span(h) = {}
  BY <1>2, <1>3, <1>6, <1>7
<1>9. /\ SelectBits(w, h) = n % 4
      /\ u4 \subseteq w /\ w \subseteq u4 \cup (21 .. 22)
  <2>1. CASE l.shift = NoShift
    <3>1. w = u4 /\ a = 0
      BY <1>1, <2>1 DEF Amount
    <3> HIDE DEF w, a
    <3>2. n % 4 = 0
      BY <3>1
    <3>3. SelectBits(u4, h) = 0
      BY <1>3, <1>8, FieldEmpty
    <3>4. QED BY <3>1, <3>2, <3>3
  <2>2. CASE l.shift # NoShift
    <3>1. a = l.shift.amount /\ a \in Int
      BY <2>2 DEF Amount, IsShift
    <3>2. w = SetBits(u4, h, n)
      BY <1>1, <2>2, <3>1
    <3> HIDE DEF w, a
    <3>3. n \in Int
      BY <3>1
    <3> HIDE DEF n
    <3>4. /\ SelectBits(w, h) = n % Limit(h)
          /\ u4 \subseteq w /\ w \subseteq u4 \cup Span(h)
      BY <1>3, <1>8, <3>2, <3>3, PutInField
    <3>5. QED BY <1>3, <3>4
  <2>3. QED BY <2>1, <2>2
<1> HIDE DEF w, n
<1>10. /\ u \subseteq u4 /\ u4 \subseteq u \cup (5 .. 20) \cup {23, 25, 28, 29, 30}
       /\ {23, 25, 28} \subseteq u4
  BY <1>2, <1>6, <1>7
<1>11. /\ u \subseteq w /\ w \subseteq u \cup (5 .. 23) \cup {25, 28, 29, 30}
       /\ {23, 25, 28} \subseteq w
  BY <1>9, <1>10
<1>12. WideMove(w) /\ Ordinary(w)
  <2>1. 24 \notin w /\ 26 \notin w /\ 27 \notin w
    BY <1>11
  <2>2. QED BY <1>11, <2>1, SpecialBits DEF WideMove, DPImm, Ordinary
<1>13. SelectBits(w, f) = i % 65536
  <2>1. u3 \subseteq w /\ w \cap Span(f) \subseteq u3
    BY <1>3, <1>7, <1>9
  <2>2. SelectBits(w, f) = SelectBits(u3, f)
    BY <1>3, <2>1, FieldKept
  <2>3. QED BY <1>6, <2>2
<1>14. SelectBits(w, g) = c
  <2>1. w \cap Span(g) \subseteq u4
    BY <1>3, <1>9
  <2>2. SelectBits(w, g) = SelectBits(u4, g)
    BY <1>3, <1>9, <2>1, FieldKept
  <2>3. QED BY <1>7, <2>2
<1>15. SelectBits(w, REG.SF) = SelectBits(u, REG.SF)
  <2>1. IsField(REG.SF) /\ w \cap Span(REG.SF) \subseteq u
    BY <1>11, EndFields
  <2>2. QED BY <1>11, <2>1, FieldKept
<1>16. SelectBits(w, REG.RD) = SelectBits(u, REG.RD)
  <2>1. IsField(REG.RD) /\ w \cap Span(REG.RD) \subseteq u
    BY <1>11, EndFields
  <2>2. QED BY <1>11, <2>1, FieldKept
<1>17. Decode(w) =
         [op |-> "wide_move", sf |-> SelectBits(w, REG.SF),
          opc |-> SelectBits(w, g), rd |-> SelectBits(w, REG.RD),
          hw |-> SelectBits(w, h), imm |-> SelectBits(w, f)]
  BY <1>12, ImmDecoded DEF f, g, h
<1>18. Decode(w) =
         [op |-> "wide_move", sf |-> SelectBits(u, REG.SF),
          opc |-> c, rd |-> SelectBits(u, REG.RD),
          hw |-> n % 4, imm |-> i % 65536]
  BY <1>9, <1>13, <1>14, <1>15, <1>16, <1>17
<1>19. QED BY <1>18 DEF WideDecoding, w, c, n, i

\* The registers of a line with one operand.
LEMMA SingleOpDeviates ==
    ASSUME NEW l, l.form = "single_op", l.rd \in Register,
           l.operand \in Register \cup Immediate
    PROVE  /\ OutOfRange(l) <=>
                \/ l.rd.n > 31
                \/ ~is_immediate(l.operand) /\ l.operand.n > 31
           /\ OneWidth(l) <=> is_immediate(l.operand)
                                \/ l.rd.sf = l.operand.sf
           /\ Overshifted(l) <=> ~Between(Amount(l.shift), 0, 63)
           /\ ~RotatedArithmetic(l) /\ ~ImmediateFactor(l)
<1>1. ~is_immediate(l.rd)
  BY DEF Register, is_immediate
<1>2. NamedBy(l) = {l.rd, l.operand}
  BY DEF NamedBy
<1>3. OutOfRange(l) <=>
        \/ l.rd.n > 31
        \/ ~is_immediate(l.operand) /\ l.operand.n > 31
  BY <1>1, <1>2 DEF OutOfRange, Registers
<1>4. OneWidth(l) <=> is_immediate(l.operand) \/ l.rd.sf = l.operand.sf
  BY <1>1, <1>2 DEF OneWidth, Registers
<1>5. QED
  BY <1>3, <1>4 DEF Overshifted, RotatedArithmetic, ImmediateFactor

\* The half-word a shift says is encoded when it is one of four.
LEMMA HalfKept ==
    ASSUME NEW a \in Int, 0 <= a, a <= 63
    PROVE  ((a % 256) \div 16) % 4 = a \div 16
<1>1. a % 256 = a
  OBVIOUS
<1>2. a \div 16 \in 0 .. 3
  OBVIOUS
<1>3. QED BY <1>1, <1>2

\* movz, movn and movk.
LEMMA WideLine ==
    ASSUME NEW l, IsLine(l), l.form = "single_op", Accepted(l),
           l.opcode \in wide_move_opcodes, NEW here
    PROVE  AsWritten(Assembled(l, here), l, here) <=> ~Deviates(l, here)
<1> DEFINE f == REG.SF
           g == REG.RD
           u == WithRegister({}, f, g, l.rd)
           w == handle_wide_move(u, l)
           a == Amount(l.shift)
           i == l.operand.imm
           c == wide_move_opc[l.opcode]
           d == get_register(l.rd)
<1>1. /\ l.rd \in Register /\ l.operand \in Register \cup Immediate
      /\ IsShift(l.shift)
  BY DEF IsLine
<1>2. IsRegister(l.rd) /\ is_immediate(l.operand)
  BY DEF Accepted, OperandsAccepted, SingleOpAccepted, WideMoveAccepted
<1>3. l.operand \in Immediate /\ i \in Int
  BY <1>1, <1>2, Operands DEF Immediate
<1>4. Assembled(l, here) = w
  BY DEF Assembled, assemble_single_op
<1>5. a \in Int
  BY <1>1 DEF Amount, IsShift
<1>6. u \subseteq (0 .. 4) \cup {31} /\ SelectBits(u, f) = l.rd.sf
      /\ SelectBits(u, g) = d
  <2>1. /\ IsField(f) /\ Limit(f) = 2 /\ Span(f) = {31}
        /\ IsField(g) /\ Limit(g) = 32 /\ Span(g) = 0 .. 4
        /\ {31} \cap (0 .. 4) = {}
    BY EndFields
  <2> HIDE DEF f, g
  <2>2. {} \cap Span(f) = {} /\ {} \cap Span(g) = {}
    OBVIOUS
  <2>3. /\ SelectBits(u, f) = l.rd.sf /\ SelectBits(u, g) = d
        /\ u \subseteq {} \cup Span(f) \cup Span(g)
    BY <1>1, <1>2, <2>1, <2>2, RegisterPut
  <2>4. QED BY <2>1, <2>3
<1>7. d = l.rd.n <=> ~(l.rd.n > 31)
  BY <1>1, <1>2, RegisterNumber
<1> HIDE DEF u, d
<1>8. Decode(w) = WideDecoding(u, l)
  BY <1>1, <1>3, <1>6, WideAssembled
<1>9. Unaliased(l) = l
  BY DEF Unaliased, aliases, wide_move_opcodes
<1>10. Meaning(l) = [op |-> "wide_move", sf |-> l.rd.sf, opc |-> c,
                     rd |-> l.rd.n, hw |-> a \div 16, imm |-> i]
  <2>1. Said(l) = [op |-> "wide_move", sf |-> l.rd.sf, opc |-> c,
                   rd |-> l.rd.n, hw |-> a \div 16, imm |-> i]
    BY DEF Said
  <2> HIDE DEF c, a, i
  <2>2. Said(l).op # "logic_reg"
    BY <2>1
  <2>3. Meaning(l) = Said(l)
    BY <2>2, OtherMeans
  <2>4. QED BY <2>1, <2>3
<1> HIDE DEF w, c, a, i
<1>11. Decode(w) = [op |-> "wide_move", sf |-> l.rd.sf, opc |-> c, rd |-> d,
                    hw |-> ((a % 256) \div 16) % 4, imm |-> i % 65536]
  BY <1>6, <1>8 DEF WideDecoding, f, g, a, i, c
<1>12. Decode(w) = Meaning(l) <=>
         /\ d = l.rd.n /\ ((a % 256) \div 16) % 4 = a \div 16
         /\ i % 65536 = i
  <2> DEFINE h1 == ((a % 256) \div 16) % 4
             h2 == a \div 16
             i1 == i % 65536
  <2> HIDE DEF h1, h2, i1
  <2>1. Decode(w) = [op |-> "wide_move", sf |-> l.rd.sf, opc |-> c, rd |-> d,
                     hw |-> h1, imm |-> i1]
    BY <1>11 DEF h1, i1
  <2>2. Meaning(l) = [op |-> "wide_move", sf |-> l.rd.sf, opc |-> c,
                      rd |-> l.rd.n, hw |-> h2, imm |-> i]
    BY <1>10 DEF h2
  <2>3. Decode(w) = Meaning(l) <=> d = l.rd.n /\ h1 = h2 /\ i1 = i
    BY <2>1, <2>2
  <2>4. QED BY <2>3 DEF h1, h2, i1
<1>13. i % 65536 = i <=> Between(i, 0, 65535)
  BY <1>3 DEF Between
<1>14. Between(a, 0, 63) => ((a % 256) \div 16) % 4 = a \div 16
  BY <1>5, HalfKept DEF Between
<1>15. /\ OutOfRange(l) <=> l.rd.n > 31
       /\ OneWidth(l)
       /\ Overshifted(l) <=> ~Between(a, 0, 63)
       /\ ~RotatedArithmetic(l) /\ ~ImmediateFactor(l)
  BY <1>1, <1>2, SingleOpDeviates DEF a
<1>16. Cut(l) <=> ~Between(i, 0, 65535)
  BY <1>2 DEF Cut, i
<1>17. l.opcode \notin {"neg", "negs"}
  BY DEF wide_move_opcodes
<1>18. /\ AsWritten(w, l, here) <=>
            /\ ~ImmediateFactor(l) /\ OneWidth(l) /\ ~Overshifted(l)
            /\ Decode(w) = Meaning(l)
       /\ Deviates(l, here) <=>
            \/ OutOfRange(l) \/ ~OneWidth(l) \/ Cut(l) \/ Overshifted(l)
            \/ RotatedArithmetic(l) \/ ImmediateFactor(l)
  BY <1>9, <1>17, DataSides DEF DataForms
<1>19. QED BY <1>4, <1>7, <1>12, <1>13, <1>14, <1>15, <1>16, <1>18

\* mov, mvn, neg and negs: with an immediate the last two take register 0
\* where they stand for one with the zero register.
LEMMA AliasLine ==
    ASSUME NEW l, IsLine(l), l.form = "single_op", Accepted(l),
           l.opcode \notin wide_move_opcodes, NEW here
    PROVE  AsWritten(Assembled(l, here), l, here) <=> ~Deviates(l, here)
<1> DEFINE f == REG.SF
           g == REG.RD
           h == REG.RN
           s == WithRegister({}, f, g, l.rd)
           v == SetBits(s, h, ZR_REG)
           d == get_register(l.rd)
           n == IF is_immediate(l.operand) THEN 0 ELSE ZR_REG
           u == IF is_immediate(l.operand) THEN s ELSE v
           o == alias_opcode[l.opcode]
           z == Zero(l.rd)
           t == Unaliased(l)
           w == handle_two_op(u, o, l.operand, l.shift)
<1>1. /\ l.rd \in Register /\ l.operand \in Register \cup Immediate
      /\ IsShift(l.shift) /\ l.opcode \notin {"mul", "mneg"}
  BY DEF IsLine
<1>2. l.opcode \in {"mov", "mvn", "neg", "negs"}
  BY <1>1 DEF Accepted, Dispatched, is_single_op_opcode,
              single_op_alias_opcodes
<1>3. /\ IsRegister(l.rd) /\ l.shift = NoShift
      /\ TwoOpAccepted(o, l.operand, l.shift)
  BY DEF Accepted, OperandsAccepted, SingleOpAccepted, AliasAccepted
<1>4. /\ o \in arithmetic_opcodes \cup bit_logic_opcodes
      /\ l.opcode \in DOMAIN aliases /\ aliases[l.opcode] = o
      /\ o \in arithmetic_opcodes <=> l.opcode \in {"neg", "negs"}
  BY <1>2 DEF alias_opcode, aliases, arithmetic_opcodes, bit_logic_opcodes
<1>5. is_immediate(l.operand) => l.opcode \in {"neg", "negs"}
  BY <1>3, <1>4 DEF TwoOpAccepted
<1>6. Assembled(l, here) = w
  <2>1. Assembled(l, here) = handle_alias(s, l)
    BY DEF Assembled, assemble_single_op
  <2>2. QED BY <1>3, <2>1 DEF handle_alias, handle_two_op
<1>7. z \in Register /\ z.sf = l.rd.sf /\ z.n = ZR_REG
  BY <1>1 DEF Zero, Register, ZR_REG
<1>8. HasRegisters(u, l.rd.sf, d, n)
  <2>1. /\ IsField(g) /\ Limit(g) = 32 /\ IsField(h) /\ Limit(h) = 32
        /\ Span(g) = 0 .. 4 /\ Span(h) = 5 .. 9
    BY EndFields
  <2>2. /\ s = WithRegister({}, REG.SF, g, l.rd)
        /\ v = SetBits(WithRegister({}, REG.SF, g, l.rd), h, ZR_REG)
    OBVIOUS
  <2> HIDE DEF s, v, g, h
  <2>3. /\ s \subseteq (0 .. 9) \cup {31} /\ v \subseteq (0 .. 9) \cup {31}
        /\ SelectBits(s, REG.SF) = l.rd.sf /\ SelectBits(v, REG.SF) = l.rd.sf
        /\ SelectBits(s, g) = d /\ SelectBits(v, g) = d
        /\ SelectBits(s, h) = 0 /\ SelectBits(v, h) = ZR_REG
    BY <1>1, <1>3, <2>1, <2>2, OneRegister
  <2>4. QED BY <2>3 DEF HasRegisters, g, h
<1>9. t = TwoOp(o, l.rd, z, l.operand, l.shift)
  BY <1>4 DEF Unaliased
<1>10. IsTwoOp(t, o, l.rd, z, l.operand, l.shift)
  BY <1>9 DEF IsTwoOp, TwoOp
<1>11. d = l.rd.n <=> ~(l.rd.n > 31)
  BY <1>1, <1>3, RegisterNumber
<1> HIDE DEF o, z, t, u, d, n
<1>12. /\ Between(Amount(l.shift), 0, 63) /\ Decode(w) = Meaning(t)
       <=> TwoOpFits(o, l.rd, z, l.operand, l.shift, d, n)
  BY <1>1, <1>3, <1>4, <1>7, <1>8, <1>10, TwoOpMeans
<1> HIDE DEF w
<1>13. /\ OutOfRange(l) <=>
            \/ l.rd.n > 31
            \/ ~is_immediate(l.operand) /\ l.operand.n > 31
       /\ OneWidth(l) <=> is_immediate(l.operand)
                            \/ l.rd.sf = l.operand.sf
       /\ Overshifted(l) <=> ~Between(Amount(l.shift), 0, 63)
       /\ ~RotatedArithmetic(l) /\ ~ImmediateFactor(l)
  BY <1>1, SingleOpDeviates
<1>14. /\ AsWritten(w, l, here) <=>
            /\ ~ImmediateFactor(l) /\ OneWidth(l) /\ ~Overshifted(l)
            /\ Decode(w) = Meaning(t)
       /\ Deviates(l, here) <=>
            \/ OutOfRange(l) \/ ~OneWidth(l) \/ Cut(l) \/ Overshifted(l)
            \/ RotatedArithmetic(l) \/ ImmediateFactor(l)
            \/ l.opcode \in {"neg", "negs"} /\ is_immediate(l.operand)
  BY DataSides DEF DataForms, t
<1>15. CASE is_immediate(l.operand)
  <2>1. n # z.n
    BY <1>7, <1>15 DEF n, ZR_REG
  <2>2. ~TwoOpFits(o, l.rd, z, l.operand, l.shift, d, n)
    BY <2>1 DEF TwoOpFits
  <2>3. QED BY <1>5, <1>6, <1>12, <1>13, <1>14, <1>15, <2>2
<1>16. CASE ~is_immediate(l.operand)
  <2>1. n = z.n
    BY <1>7, <1>16 DEF n
  <2>2. l.shift.type # "ror" /\ ~Cut(l)
    BY <1>3, <1>16 DEF NoShift, Cut
  <2>3. TwoOpFits(o, l.rd, z, l.operand, l.shift, d, n) <=>
          /\ Between(Amount(l.shift), 0, 63) /\ d = l.rd.n
          /\ ~(l.operand.n > 31)
    BY <1>16, <2>1, <2>2 DEF TwoOpFits
  <2>4. QED BY <1>6, <1>11, <1>12, <1>13, <1>14, <1>16, <2>2, <2>3
<1>17. QED BY <1>15, <1>16

\* A field put into a word leaves the others as they are.
LEMMA OthersKept ==
    ASSUME NEW u, NEW f, IsField(f), NEW v \in Int, NEW g, IsField(g),
           Span(f) \cap Span(g) = {}
    PROVE  SelectBits(SetBits(u, f, v), g) = SelectBits(u, g)
<1> DEFINE w == SetBits(u, f, v)
<1>1. u \subseteq w /\ w \subseteq u \cup Span(f)
  BY Adds
<1> HIDE DEF w
<1>2. w \cap Span(g) \subseteq u
  BY <1>1
<1>3. SelectBits(w, g) = SelectBits(u, g)
  BY <1>1, <1>2, FieldKept
<1>4. QED BY <1>3 DEF w

\* A product of registers put into a word with the width, the destination
\* and the addend, as it is decoded.
MulDecoding(u, x, rn, rm) ==
    [op |-> "multiply_reg", sf |-> SelectBits(u, REG.SF), x |-> x,
     rm |-> get_register(rm), ra |-> SelectBits(u, REG.RA),
     rn |-> get_register(rn), rd |-> SelectBits(u, REG.RD)]

LEMMA MulAssembled ==
    ASSUME NEW u, u \subseteq (0 .. 4) \cup (10 .. 14) \cup {31},
           NEW x \in 0 .. 1, NEW rn \in Register, IsRegister(rn),
           NEW rm \in Register, IsRegister(rm)
    PROVE  Decode(handle_multiply(u, x, rn, rm)) = MulDecoding(u, x, rn, rm)
<1> DEFINE u1 == u \cup Halves(\h1B00, 0)
           n == get_register(rn)
           m == get_register(rm)
           u2 == SetBits(u1, REG.RN, n)
           u3 == SetBits(u2, REG.RM, m)
           w == SetBits(u3, REG.X, x)
           f == REG.RN
           g == REG.RM
           h == REG.X
           s == REG.SF
           a == REG.RA
           d == REG.RD
<1>1. handle_multiply(u, x, rn, rm) = w
  BY DEF handle_multiply
<1>2. u1 = u \cup {24, 25, 27, 28}
  BY Constants
<1>3. /\ n \in Int /\ n % 32 = n /\ m \in Int /\ m % 32 = m
      /\ x \in Int /\ x % 2 = x
  BY RegisterNumber
<1>4. /\ IsField(f) /\ Limit(f) = 32 /\ Span(f) = 5 .. 9
      /\ IsField(g) /\ Limit(g) = 32 /\ Span(g) = 16 .. 20
      /\ IsField(h) /\ Limit(h) = 2 /\ Span(h) = {15}
      /\ IsField(s) /\ Span(s) = {31}
      /\ IsField(a) /\ Span(a) = 10 .. 14
      /\ IsField(d) /\ Span(d) = 0 .. 4
  BY Fields
<1>5. u2 = SetBits(u1, f, n) /\ u3 = SetBits(u2, g, m) /\ w = SetBits(u3, h, x)
  OBVIOUS
<1> HIDE DEF u1, u2, u3, w, n, m, f, g, h, s, a, d
<1>6. /\ SelectBits(u2, f) = n
      /\ u1 \subseteq u2 /\ u2 \subseteq u1 \cup (5 .. 9)
  <2>1. u1 \cap Span(f) = {} /\ IsField(f)
    BY <1>2, <1>4
  <2>2. /\ SelectBits(u2, f) = n % Limit(f)
        /\ u1 \subseteq u2 /\ u2 \subseteq u1 \cup Span(f)
    BY <1>3, <1>5, <2>1, PutInField
  <2>3. QED BY <1>3, <1>4, <2>2
<1>7. /\ SelectBits(u3, g) = m
      /\ u2 \subseteq u3 /\ u3 \subseteq u2 \cup (16 .. 20)
  <2>1. u2 \cap Span(g) = {} /\ IsField(g)
    BY <1>2, <1>4, <1>6
  <2>2. /\ SelectBits(u3, g) = m % Limit(g)
        /\ u2 \subseteq u3 /\ u3 \subseteq u2 \cup Span(g)
    BY <1>3, <1>5, <2>1, PutInField
  <2>3. QED BY <1>3, <1>4, <2>2
<1>8. /\ SelectBits(w, h) = x
      /\ u3 \subseteq w /\ w \subseteq u3 \cup {15}
  <2>1. u3 \cap Span(h) = {} /\ IsField(h)
    BY <1>2, <1>4, <1>6, <1>7
  <2>2. /\ SelectBits(w, h) = x % Limit(h)
        /\ u3 \subseteq w /\ w \subseteq u3 \cup Span(h)
    BY <1>3, <1>5, <2>1, PutInField
  <2>3. QED BY <1>3, <1>4, <2>2
<1>9. /\ u \subseteq w /\ {24, 25, 27, 28} \subseteq w
      /\ w \subseteq u \cup (5 .. 9) \cup (15 .. 20) \cup {24, 25, 27, 28}
  BY <1>2, <1>6, <1>7, <1>8
<1>10. RegMultiply(w) /\ Ordinary(w) /\ DPReg(w)
  <2>1. 26 \notin w /\ 21 \notin w /\ 22 \notin w /\ 23 \notin w
    BY <1>9
  <2>2. 24 \in w /\ 25 \in w /\ 27 \in w /\ 28 \in w
    BY <1>9
  <2>3. QED BY <2>1, <2>2, SpecialBits DEF RegMultiply, DPReg, Ordinary
<1>11. SelectBits(w, g) = m
  <2>1. Span(h) \cap Span(g) = {}
    BY <1>4
  <2>2. SelectBits(w, g) = SelectBits(u3, g)
    BY <1>3, <1>4, <1>5, <2>1, OthersKept
  <2>3. QED BY <1>7, <2>2
<1>12. SelectBits(w, f) = n
  <2>1. Span(h) \cap Span(f) = {} /\ Span(g) \cap Span(f) = {}
    BY <1>4
  <2>2. SelectBits(w, f) = SelectBits(u3, f)
    BY <1>3, <1>4, <1>5, <2>1, OthersKept
  <2>3. SelectBits(u3, f) = SelectBits(u2, f)
    BY <1>3, <1>4, <1>5, <2>1, OthersKept
  <2>4. QED BY <1>6, <2>2, <2>3
<1>13. SelectBits(w, s) = SelectBits(u, s)
  <2>1. w \cap Span(s) \subseteq u
    BY <1>4, <1>9
  <2>2. QED BY <1>4, <1>9, <2>1, FieldKept
<1>14. SelectBits(w, a) = SelectBits(u, a)
  <2>1. w \cap Span(a) \subseteq u
    BY <1>4, <1>9
  <2>2. QED BY <1>4, <1>9, <2>1, FieldKept
<1>15. SelectBits(w, d) = SelectBits(u, d)
  <2>1. w \cap Span(d) \subseteq u
    BY <1>4, <1>9
  <2>2. QED BY <1>4, <1>9, <2>1, FieldKept
<1>16. Decode(w) =
         [op |-> "multiply_reg", sf |-> SelectBits(w, s),
          x |-> SelectBits(w, h), rm |-> SelectBits(w, g),
          ra |-> SelectBits(w, a), rn |-> SelectBits(w, f),
          rd |-> SelectBits(w, d)]
  <2>1. Decode(w) = Emulated!DecodeMultiply(w)
    BY <1>10, RegDecoded
  <2>2. QED BY <2>1, RegFields DEF s, h, g, a, f, d
<1>17. Decode(w) =
         [op |-> "multiply_reg", sf |-> SelectBits(u, s), x |-> x, rm |-> m,
          ra |-> SelectBits(u, a), rn |-> n, rd |-> SelectBits(u, d)]
  BY <1>8, <1>11, <1>12, <1>13, <1>14, <1>15, <1>16
<1>18. QED BY <1>1, <1>17 DEF MulDecoding, s, a, d, m, n

\* A line of three registers and an addend, put into a word with the other
\* registers, is encoded as it is written.
ProductFits(u, t) ==
    /\ SelectBits(u, REG.RD) = t.rd.n /\ SelectBits(u, REG.RA) = t.ra.n
    /\ get_register(t.rn) = t.rn.n /\ get_register(t.rm) = t.rm.n

\* Such a line means what it says unless a register is not the one written.
LEMMA MulMeans ==
    ASSUME NEW u, u \subseteq (0 .. 4) \cup (10 .. 14) \cup {31},
           NEW t, t.form = "multiply", t.opcode \in multiply_opcodes,
           t.rn \in Register, IsRegister(t.rn),
           t.rm \in Register, IsRegister(t.rm),
           SelectBits(u, REG.SF) = t.rd.sf
    PROVE  Decode(handle_multiply(u, multiply_x[t.opcode], t.rn, t.rm))
              = Meaning(t)
             <=> ProductFits(u, t)
<1> DEFINE x == multiply_x[t.opcode]
           w == handle_multiply(u, x, t.rn, t.rm)
           a == SelectBits(u, REG.RA)
           d == SelectBits(u, REG.RD)
           n == get_register(t.rn)
           m == get_register(t.rm)
<1>1. x \in 0 .. 1
  BY DEF multiply_x, multiply_opcodes
<1>2. Said(t) = [op |-> "multiply_reg", sf |-> t.rd.sf, x |-> x, rm |-> t.rm.n,
                 ra |-> t.ra.n, rn |-> t.rn.n, rd |-> t.rd.n]
  BY DEF Said
<1> HIDE DEF x
<1>3. Meaning(t) = Said(t)
  <2>1. Said(t).op # "logic_reg"
    BY <1>2
  <2>2. QED BY <2>1, OtherMeans
<1>4. Decode(w) = MulDecoding(u, x, t.rn, t.rm)
  BY <1>1, MulAssembled
<1>5. MulDecoding(u, x, t.rn, t.rm) =
        [op |-> "multiply_reg", sf |-> t.rd.sf, x |-> x, rm |-> m, ra |-> a,
         rn |-> n, rd |-> d]
  BY DEF MulDecoding
<1>6. ProductFits(u, t)
        <=> d = t.rd.n /\ a = t.ra.n /\ n = t.rn.n /\ m = t.rm.n
  BY DEF ProductFits
<1> HIDE DEF w, a, d, n, m
<1>7. Decode(w) = Meaning(t)
        <=> d = t.rd.n /\ a = t.ra.n /\ n = t.rn.n /\ m = t.rm.n
  BY <1>2, <1>3, <1>4, <1>5
<1>8. QED BY <1>6, <1>7 DEF w, x

\* The width, the destination and the addend.
LEMMA MulRegisters ==
    ASSUME NEW rd \in Register, IsRegister(rd), NEW k \in 0 .. 31
    PROVE  LET u == SetBits(WithRegister({}, REG.SF, REG.RD, rd), REG.RA, k)
           IN  /\ u \subseteq (0 .. 4) \cup (10 .. 14) \cup {31}
               /\ SelectBits(u, REG.SF) = rd.sf
               /\ SelectBits(u, REG.RD) = get_register(rd)
               /\ SelectBits(u, REG.RA) = k
<1> DEFINE f == REG.SF
           g == REG.RD
           h == REG.RA
           t == WithRegister({}, f, g, rd)
           u == SetBits(t, h, k)
<1>1. /\ IsField(f) /\ Limit(f) = 2 /\ Span(f) = {31}
      /\ IsField(g) /\ Limit(g) = 32 /\ Span(g) = 0 .. 4
      /\ IsField(h) /\ Limit(h) = 32 /\ Span(h) = 10 .. 14
  BY Fields
<1> HIDE DEF f, g, h
<1>2. /\ Span(f) \cap Span(g) = {} /\ Span(h) \cap Span(f) = {}
      /\ Span(h) \cap Span(g) = {}
  BY <1>1
<1>3. /\ SelectBits(t, f) = rd.sf /\ SelectBits(t, g) = get_register(rd)
      /\ t \subseteq {} \cup Span(f) \cup Span(g)
  <2>1. {} \cap Span(f) = {} /\ {} \cap Span(g) = {}
    OBVIOUS
  <2>2. QED BY <1>1, <1>2, <2>1, RegisterPut
<1>4. u = SetBits(t, h, k) /\ k \in Int /\ k % 32 = k
  OBVIOUS
<1> HIDE DEF t, u
<1>5. t \cap Span(h) = {} /\ IsField(h)
  BY <1>1, <1>2, <1>3
<1>6. /\ SelectBits(u, h) = k % Limit(h)
      /\ t \subseteq u /\ u \subseteq t \cup Span(h)
  BY <1>4, <1>5, PutInField
<1>7. SelectBits(u, f) = SelectBits(t, f) /\ SelectBits(u, g) = SelectBits(t, g)
  BY <1>1, <1>2, <1>4, OthersKept
<1>8. u \subseteq (0 .. 4) \cup (10 .. 14) \cup {31}
  BY <1>1, <1>3, <1>6
<1>9. /\ SelectBits(u, f) = rd.sf /\ SelectBits(u, g) = get_register(rd)
      /\ SelectBits(u, h) = k
  BY <1>1, <1>3, <1>4, <1>6, <1>7
<1>10. QED BY <1>8, <1>9 DEF u, t, f, g, h

\* madd and msub.
LEMMA MultiplyLine ==
    ASSUME NEW l, IsLine(l), l.form = "multiply", Accepted(l), NEW here
    PROVE  AsWritten(Assembled(l, here), l, here) <=> ~Deviates(l, here)
<1> DEFINE k == get_register(l.ra)
           u == SetBits(WithRegister({}, REG.SF, REG.RD, l.rd), REG.RA, k)
           x == multiply_x[l.opcode]
           w == handle_multiply(u, x, l.rn, l.rm)
<1>1. /\ l.rd \in Register /\ l.rn \in Register /\ l.rm \in Register
      /\ l.ra \in Register
  BY DEF IsLine
<1>2. /\ IsRegister(l.rd) /\ IsRegister(l.rn) /\ IsRegister(l.rm)
      /\ IsRegister(l.ra) /\ l.opcode \in multiply_opcodes
  BY DEF Accepted, Dispatched, OperandsAccepted
<1>3. x \in 0 .. 1
  BY <1>2 DEF multiply_x, multiply_opcodes
<1>4. Assembled(l, here) = w
  BY DEF Assembled, assemble_multiply
<1>5. k \in 0 .. 31
  BY <1>1, <1>2, RegisterNumber
<1> HIDE DEF k, x
<1>6. /\ u \subseteq (0 .. 4) \cup (10 .. 14) \cup {31}
      /\ SelectBits(u, REG.SF) = l.rd.sf
      /\ SelectBits(u, REG.RD) = get_register(l.rd)
      /\ SelectBits(u, REG.RA) = k
  BY <1>1, <1>2, <1>5, MulRegisters
<1> HIDE DEF u
<1>7. Decode(w) = Meaning(l) <=>
        /\ get_register(l.rd) = l.rd.n /\ k = l.ra.n
        /\ get_register(l.rn) = l.rn.n /\ get_register(l.rm) = l.rm.n
  <2>1. Decode(w) = Meaning(l) <=> ProductFits(u, l)
    BY <1>1, <1>2, <1>6, MulMeans DEF x
  <2>2. QED BY <1>6, <2>1 DEF ProductFits
<1>8. /\ get_register(l.rd) = l.rd.n <=> ~(l.rd.n > 31)
      /\ k = l.ra.n <=> ~(l.ra.n > 31)
      /\ get_register(l.rn) = l.rn.n <=> ~(l.rn.n > 31)
      /\ get_register(l.rm) = l.rm.n <=> ~(l.rm.n > 31)
  BY <1>1, <1>2, RegisterNumber DEF k
<1> HIDE DEF w
<1>9. /\ ~is_immediate(l.rd) /\ ~is_immediate(l.rn) /\ ~is_immediate(l.rm)
      /\ ~is_immediate(l.ra)
  BY <1>1 DEF Register, is_immediate
<1>10. NamedBy(l) = {l.rd, l.rn, l.rm, l.ra}
  BY DEF NamedBy
<1>11. OutOfRange(l) <=>
         l.rd.n > 31 \/ l.rn.n > 31 \/ l.rm.n > 31 \/ l.ra.n > 31
  BY <1>9, <1>10 DEF OutOfRange, Registers
<1>12. ~Cut(l) /\ ~Overshifted(l) /\ ~RotatedArithmetic(l) /\ ~ImmediateFactor(l)
  BY DEF Cut, Overshifted, RotatedArithmetic, ImmediateFactor
<1>13. Unaliased(l) = l
  BY DEF Unaliased
<1>14. /\ AsWritten(w, l, here) <=>
            /\ ~ImmediateFactor(l) /\ OneWidth(l) /\ ~Overshifted(l)
            /\ Decode(w) = Meaning(l)
       /\ Deviates(l, here) <=>
            \/ OutOfRange(l) \/ ~OneWidth(l) \/ Cut(l) \/ Overshifted(l)
            \/ RotatedArithmetic(l) \/ ImmediateFactor(l)
  BY <1>13, DataSides DEF DataForms
<1>15. QED BY <1>4, <1>7, <1>8, <1>11, <1>12, <1>14

\* mul and mneg; with an immediate factor no encoding is set.
LEMMA ProductLine ==
    ASSUME NEW l, IsLine(l), l.form = "product", Accepted(l), NEW here
    PROVE  AsWritten(Assembled(l, here), l, here) <=> ~Deviates(l, here)
<1> DEFINE u == SetBits(WithRegister({}, REG.SF, REG.RD, l.rd), REG.RA, ZR_REG)
           x == multiply_x[l.opcode]
           w == handle_multiply(u, x, l.rn, l.rm)
           t == Unaliased(l)
           v == Assembled(l, here)
<1>1. /\ l.rd \in Register /\ l.rn \in Register \cup Immediate
      /\ l.rm \in Register
  BY DEF IsLine
<1>2. /\ AsWritten(v, l, here) <=>
            /\ ~ImmediateFactor(l) /\ OneWidth(l) /\ ~Overshifted(l)
            /\ Decode(v) = Meaning(t)
      /\ Deviates(l, here) <=>
            \/ OutOfRange(l) \/ ~OneWidth(l) \/ Cut(l) \/ Overshifted(l)
            \/ RotatedArithmetic(l) \/ ImmediateFactor(l)
  BY DataSides DEF DataForms
<1>3. CASE is_immediate(l.rn)
  <2>1. ImmediateFactor(l)
    BY <1>3 DEF ImmediateFactor
  <2>2. QED BY <1>2, <2>1
<1>4. CASE ~is_immediate(l.rn)
  <2>1. l.rn \in Register
    BY <1>1, <1>4, Operands
  <2>2. /\ IsRegister(l.rd) /\ IsRegister(l.rn) /\ IsRegister(l.rm)
        /\ l.opcode \in {"mul", "mneg"}
    BY <1>4 DEF Accepted, Dispatched, OperandsAccepted
  <2>3. x \in 0 .. 1 /\ multiply_x[aliases[l.opcode]] = x
    BY <2>2 DEF multiply_x, aliases
  <2>4. v = w
    BY <1>4 DEF Assembled, assemble_product
  <2>5. t = Multiply(aliases[l.opcode], l.rd, l.rn, l.rm, Zero(l.rd))
    BY DEF Unaliased
  <2>6. /\ t.form = "multiply" /\ t.opcode = aliases[l.opcode] /\ t.rd = l.rd
        /\ t.rn = l.rn /\ t.rm = l.rm /\ t.ra.n = ZR_REG
    BY <2>5 DEF Multiply, Zero
  <2>7. ZR_REG \in 0 .. 31
    BY DEF ZR_REG
  <2> HIDE DEF x, t, v
  <2>8. /\ u \subseteq (0 .. 4) \cup (10 .. 14) \cup {31}
        /\ SelectBits(u, REG.SF) = l.rd.sf
        /\ SelectBits(u, REG.RD) = get_register(l.rd)
        /\ SelectBits(u, REG.RA) = ZR_REG
    BY <1>1, <2>2, <2>7, MulRegisters
  <2> HIDE DEF u
  <2>9. Decode(w) = Meaning(t) <=>
          /\ get_register(l.rd) = l.rd.n
          /\ get_register(l.rn) = l.rn.n /\ get_register(l.rm) = l.rm.n
    <3>1. Decode(w) = Meaning(t) <=> ProductFits(u, t)
      <4>1. /\ t.opcode \in multiply_opcodes /\ multiply_x[t.opcode] = x
            /\ t.rn \in Register /\ t.rm \in Register
            /\ IsRegister(t.rn) /\ IsRegister(t.rm)
            /\ SelectBits(u, REG.SF) = t.rd.sf
        BY <1>1, <2>1, <2>2, <2>3, <2>6, <2>8
           DEF aliases, multiply_opcodes
      <4>2. Decode(handle_multiply(u, multiply_x[t.opcode], t.rn, t.rm))
               = Meaning(t) <=> ProductFits(u, t)
        BY <2>6, <2>8, <4>1, MulMeans
      <4>3. QED BY <2>6, <4>1, <4>2
    <3>2. QED BY <2>6, <2>8, <3>1 DEF ProductFits
  <2>10. /\ get_register(l.rd) = l.rd.n <=> ~(l.rd.n > 31)
         /\ get_register(l.rn) = l.rn.n <=> ~(l.rn.n > 31)
         /\ get_register(l.rm) = l.rm.n <=> ~(l.rm.n > 31)
    BY <1>1, <2>1, <2>2, RegisterNumber
  <2> HIDE DEF w
  <2>11. ~is_immediate(l.rd) /\ ~is_immediate(l.rm)
    BY <1>1 DEF Register, is_immediate
  <2>12. NamedBy(l) = {l.rd, l.rn, l.rm}
    BY DEF NamedBy
  <2>13. OutOfRange(l) <=> l.rd.n > 31 \/ l.rn.n > 31 \/ l.rm.n > 31
    BY <1>4, <2>11, <2>12 DEF OutOfRange, Registers
  <2>14. /\ ~Cut(l) /\ ~Overshifted(l) /\ ~RotatedArithmetic(l)
         /\ ~ImmediateFactor(l)
    BY <1>4 DEF Cut, Overshifted, RotatedArithmetic, ImmediateFactor
  <2>15. QED BY <1>2, <2>4, <2>9, <2>10, <2>13, <2>14 DEF v
<1>5. QED BY <1>3, <1>4

\* The offset an instruction has for a target leads to it unless the target
\* is out of reach.
LEMMA OffsetReaches ==
    ASSUME NEW target \in Int, NEW here \in Int, NEW bits \in 2 .. 30
    PROVE  here + SignExt(WordOffset(target, here) % 2^bits, bits) * 4 = target
             <=> ~OutOfReach(target, here, bits)
<1> DEFINE e == 2^(bits - 1)
           d == target - here
           q == d \div 4
           r == q % (2 * e)
           s == IF r < e THEN r ELSE r - 2 * e
<1>1. e \in Nat \ {0} /\ 2^bits = 2 * e /\ 2^(bits + 1) = 4 * e
  <2>1. bits - 1 \in Positions /\ bits \in Positions
    BY DEF Positions
  <2>2. (bits - 1) + 1 = bits
    OBVIOUS
  <2>3. 2^(bits - 1) \in Nat \ {0} /\ 2^((bits - 1) + 1) = 2 * 2^(bits - 1)
    BY <2>1, Doubling
  <2>4. 2^(bits + 1) = 2 * 2^bits
    BY <2>1, Doubling
  <2>5. 2^bits = 2 * e
    BY <2>2, <2>3
  <2> HIDE DEF e
  <2>6. e \in Nat \ {0}
    BY <2>3 DEF e
  <2>7. 2 * (2 * e) = 4 * e
    BY <2>6
  <2>8. QED BY <2>4, <2>5, <2>6, <2>7
<1>2. SignExt(WordOffset(target, here) % 2^bits, bits) = s
  BY <1>1 DEF SignExt, WordOffset
<1>3. OutOfReach(target, here, bits) <=>
        d % 4 # 0 \/ ~(-(4 * e) <= d /\ d <= 4 * e - 4)
  BY <1>1 DEF OutOfReach, Between
<1>4. d \in Int /\ d = 4 * q + (d % 4) /\ q \in Int /\ d % 4 \in 0 .. 3
  OBVIOUS
<1> HIDE DEF e, d
<1>5. r \in 0 .. 2 * e - 1 /\ s \in Int /\ -e <= s /\ s < e
  <2>1. 2 * e \in Nat \ {0} /\ q \in Int
    BY <1>1, <1>4
  <2>2. r \in 0 .. 2 * e - 1
    <3> DEFINE m == 2 * e
    <3> HIDE DEF m, q
    <3>1. q % m \in 0 .. m - 1
      BY <2>1, DivisionParts DEF m
    <3>2. QED BY <3>1 DEF m
  <2> HIDE DEF r
  <2>3. QED BY <1>1, <2>2
<1> HIDE DEF q
<1>6. s = q <=> -e <= q /\ q < e
  <2>1. s = q => -e <= q /\ q < e
    BY <1>5
  <2>2. ASSUME 0 <= q, q < e
        PROVE  s = q
    <3> DEFINE m == 2 * e
    <3>1. m \in Nat \ {0} /\ q \in 0 .. m - 1 /\ m * 0 + q = q
      BY <1>1, <1>4, <2>2
    <3> HIDE DEF m
    <3>2. (m * 0 + q) % m = q
      BY <3>1, DivisionUnique
    <3>3. r = q
      BY <3>1, <3>2 DEF m
    <3>4. QED BY <2>2, <3>3
  <2>3. ASSUME -e <= q, q < 0
        PROVE  s = q
    <3> DEFINE m == 2 * e
               k == q + m
    <3>1. m \in Nat \ {0} /\ k \in 0 .. m - 1 /\ m * (-1) + k = q
      BY <1>1, <1>4, <2>3
    <3>2. k >= e /\ k - 2 * e = q /\ k \in Int
      BY <1>1, <1>4, <2>3
    <3> HIDE DEF m, k
    <3>3. (m * (-1) + k) % m = k
      BY <3>1, DivisionUnique
    <3>4. r = k
      BY <3>1, <3>3 DEF m
    <3>5. ~(r < e)
      BY <1>1, <3>2, <3>4
    <3>6. QED BY <3>2, <3>4, <3>5
  <2> HIDE DEF s
  <2>4. QED BY <1>1, <1>4, <2>1, <2>2, <2>3
<1> HIDE DEF s
<1>7. here + s * 4 = target <=> s * 4 = d
  BY <1>5 DEF d
<1>8. s * 4 = d <=> d % 4 = 0 /\ s = q
  BY <1>4, <1>5
<1>9. d % 4 = 0 => (-e <= q /\ q < e <=> -(4 * e) <= d /\ d <= 4 * e - 4)
  BY <1>1, <1>4
<1>10. here + s * 4 = target <=> ~OutOfReach(target, here, bits)
  BY <1>3, <1>6, <1>7, <1>8, <1>9
<1>11. QED BY <1>2, <1>10

\* What a line deviates in that is not one of data processing.
LEMMA OtherDeviates ==
    ASSUME NEW l, l.form \in {"literal", "b", "b.", "br", "nop", ".int"},
           l.form = "literal" => l.rt \in Register,
           l.form = "br" => l.xn \in Register, NEW here
    PROVE  Deviates(l, here) <=>
             \/ l.form = "literal" /\ l.rt.n > 31
             \/ l.form = "br" /\ l.xn.n > 31
             \/ l.form = "literal" /\ OutOfReach(l.address, here, 19)
             \/ l.form = "b" /\ OutOfReach(l.target, here, 26)
             \/ l.form = "b." /\ OutOfReach(l.target, here, 19)
<1>1. /\ l.form = "literal" => ~is_immediate(l.rt)
      /\ l.form = "br" => ~is_immediate(l.xn)
  BY DEF Register, is_immediate
<1>2. NamedBy(l) = CASE l.form = "literal" -> {l.rt}
                     [] l.form = "br" -> {l.xn}
                     [] OTHER -> {}
  BY DEF NamedBy
<1>3. (\E r \in Registers(l) : r.n > 31) <=>
        \/ l.form = "literal" /\ l.rt.n > 31
        \/ l.form = "br" /\ l.xn.n > 31
  <2>1. CASE l.form = "literal"
    <3>1. Registers(l) = {l.rt}
      BY <1>1, <1>2, <2>1 DEF Registers
    <3>2. QED BY <2>1, <3>1
  <2>2. CASE l.form = "br"
    <3>1. Registers(l) = {l.xn}
      BY <1>1, <1>2, <2>2 DEF Registers
    <3>2. QED BY <2>2, <3>1
  <2>3. CASE l.form \notin {"literal", "br"}
    <3>1. Registers(l) = {}
      BY <1>2, <2>3 DEF Registers
    <3>2. QED BY <2>3, <3>1
  <2>4. QED BY <2>1, <2>2, <2>3
<1>4. OneWidth(l)
  <2>1. \A r, s \in NamedBy(l) : r = s
    BY <1>2
  <2>2. QED BY <2>1 DEF OneWidth, Registers
<1>5. /\ ~Cut(l) /\ ~Overshifted(l) /\ ~RotatedArithmetic(l)
      /\ ~ImmediateFactor(l) /\ ~ScaledByFour(l)
  BY DEF Cut, Overshifted, RotatedArithmetic, ImmediateFactor, ScaledByFour
<1>6. l.form \notin {"transfer", "single_op"}
  OBVIOUS
<1>7. QED BY <1>3, <1>4, <1>5, <1>6 DEF Deviates

\* b target.
LEMMA BLine ==
    ASSUME NEW l, IsLine(l), l.form = "b", NEW here \in Int
    PROVE  AsWritten(Assembled(l, here), l, here) <=> ~Deviates(l, here)
<1> DEFINE f == BRANCH.SIMM26
           u == {26, 28}
           n == WordOffset(l.target, here)
           w == SetBits(u, f, n)
<1>1. l.target \in Int
  BY DEF IsLine
<1>2. n \in Int
  BY <1>1 DEF WordOffset
<1>3. Assembled(l, here) = w
  BY Constants DEF Assembled, assemble_branch
<1>4. IsField(f) /\ Limit(f) = 2^26 /\ Span(f) = 0 .. 25
  BY Fields, WideFields
<1> HIDE DEF f, n
<1>5. u \cap Span(f) = {} /\ w = SetBits(u, f, n)
  BY <1>4
<1> HIDE DEF w
<1>6. SelectBits(w, f) = n % Limit(f) /\ u \subseteq w /\ w \subseteq u \cup Span(f)
  BY <1>2, <1>4, <1>5, PutInField
<1>7. /\ 26 \in w /\ 28 \in w /\ 27 \notin w /\ 29 \notin w
      /\ 30 \notin w /\ 31 \notin w
  BY <1>4, <1>6
<1>8. IsUncon(w) /\ Branches(w) /\ Ordinary(w)
  BY <1>7, SpecialBits DEF IsUncon, Branches, Ordinary
<1>9. Decode(w).op = "b" /\ Decode(w).simm26 = SignExt(n % 2^26, 26)
  BY <1>4, <1>6, <1>8, BranchDecoded DEF f
<1>10. AsWritten(w, l, here)
         <=> Decode(w).op = "b" /\ here + Decode(w).simm26 * 4 = l.target
  BY DEF AsWritten
<1>11. here + SignExt(n % 2^26, 26) * 4 = l.target
         <=> ~OutOfReach(l.target, here, 26)
  BY <1>1, OffsetReaches DEF n
<1>12. Deviates(l, here) <=> OutOfReach(l.target, here, 26)
  BY OtherDeviates
<1>13. QED BY <1>3, <1>9, <1>10, <1>11, <1>12

\* b.cond target.
LEMMA BCondLine ==
    ASSUME NEW l, IsLine(l), l.form = "b.", Accepted(l), NEW here \in Int
    PROVE  AsWritten(Assembled(l, here), l, here) <=> ~Deviates(l, here)
<1> DEFINE f == BRANCH.SIMM19
           g == BRANCH.COND
           u == {26, 28, 30}
           n == WordOffset(l.target, here)
           c == cond_value[l.cond]
           v == SetBits(u, f, n)
           w == SetBits(v, g, c)
<1>1. l.target \in Int /\ l.cond \in DOMAIN cond_value
  BY DEF IsLine, Accepted, Dispatched
<1>2. n \in Int
  BY <1>1 DEF WordOffset
<1>3. c \in Int /\ c % 16 = c
  <2>1. c \in 0 .. 14
    BY <1>1 DEF cond_value
  <2> HIDE DEF c
  <2>2. QED BY <2>1
<1>4. Assembled(l, here) = w
  BY Constants DEF Assembled, assemble_branch
<1>5. /\ IsField(f) /\ Limit(f) = 2^19 /\ Span(f) = 5 .. 23
      /\ IsField(g) /\ Limit(g) = 16 /\ Span(g) = 0 .. 3
  BY Fields, WideFields
<1> HIDE DEF f, g, n, c
<1>6. u \cap Span(f) = {} /\ v = SetBits(u, f, n) /\ Span(g) \cap Span(f) = {}
  BY <1>5
<1>7. w = SetBits(v, g, c)
  OBVIOUS
<1> HIDE DEF v, w
<1>8. SelectBits(v, f) = n % Limit(f) /\ u \subseteq v /\ v \subseteq u \cup Span(f)
  BY <1>2, <1>5, <1>6, PutInField
<1>9. v \cap Span(g) = {} /\ IsField(g)
  BY <1>5, <1>8
<1>10. SelectBits(w, g) = c % Limit(g) /\ v \subseteq w /\ w \subseteq v \cup Span(g)
  BY <1>3, <1>7, <1>9, PutInField
<1>11. SelectBits(w, f) = SelectBits(v, f)
  BY <1>3, <1>5, <1>6, <1>7, OthersKept
<1>12. /\ {26, 28, 30} \subseteq w
       /\ w \subseteq {26, 28, 30} \cup (0 .. 3) \cup (5 .. 23)
  BY <1>5, <1>8, <1>10
<1>13. IsCond(w) /\ Branches(w) /\ Ordinary(w)
  <2>1. IsCond(w) /\ Branches(w)
    BY <1>12 DEF IsCond, Branches
  <2>2. Ordinary(w)
    BY <1>12, SpecialBits DEF Ordinary
  <2>3. QED BY <2>1, <2>2
<1>14. /\ Decode(w).op = "b_cond" /\ Decode(w).simm19 = SignExt(n % 2^19, 19)
       /\ Decode(w).cond = c
  BY <1>3, <1>5, <1>8, <1>10, <1>11, <1>13, BranchDecoded DEF f, g
<1>15. AsWritten(w, l, here)
         <=> /\ Decode(w).op = "b_cond"
             /\ here + Decode(w).simm19 * 4 = l.target /\ Decode(w).cond = c
  BY DEF AsWritten, c
<1>16. here + SignExt(n % 2^19, 19) * 4 = l.target
         <=> ~OutOfReach(l.target, here, 19)
  BY <1>1, OffsetReaches DEF n
<1>17. Deviates(l, here) <=> OutOfReach(l.target, here, 19)
  BY OtherDeviates
<1>18. QED BY <1>4, <1>14, <1>15, <1>16, <1>17

\* br xn.
LEMMA BrLine ==
    ASSUME NEW l, IsLine(l), l.form = "br", Accepted(l), NEW here
    PROVE  AsWritten(Assembled(l, here), l, here) <=> ~Deviates(l, here)
<1> DEFINE f == BRANCH.REG
           u == {16, 17, 18, 19, 20, 25, 26, 28, 30, 31}
           n == get_register(l.xn)
           w == SetBits(u, f, n)
<1>1. l.xn \in Register /\ IsRegister(l.xn)
  BY DEF IsLine, Accepted, OperandsAccepted, IsXRegister
<1>2. n \in Int /\ n % 32 = n /\ (n = l.xn.n <=> ~(l.xn.n > 31))
  BY <1>1, RegisterNumber
<1>3. Assembled(l, here) = w
  BY Constants DEF Assembled, assemble_branch
<1>4. IsField(f) /\ Limit(f) = 32 /\ Span(f) = 5 .. 9
  BY Fields
<1> HIDE DEF f, n
<1>5. u \cap Span(f) = {} /\ w = SetBits(u, f, n)
  BY <1>4
<1> HIDE DEF w
<1>6. SelectBits(w, f) = n % Limit(f) /\ u \subseteq w /\ w \subseteq u \cup Span(f)
  BY <1>2, <1>4, <1>5, PutInField
<1>7. IsBr(w) /\ Branches(w) /\ Ordinary(w)
  <2>1. u \subseteq w /\ w \subseteq u \cup (5 .. 9)
    BY <1>4, <1>6
  <2>2. IsBr(w) /\ Branches(w)
    BY <2>1 DEF IsBr, Branches
  <2>3. Ordinary(w)
    BY <2>1, SpecialBits DEF Ordinary
  <2>4. QED BY <2>2, <2>3
<1>8. SelectBits(w, f) = n
  BY <1>2, <1>4, <1>6
<1>9. Decode(w) = [op |-> "br", rn |-> n]
  BY <1>7, <1>8, BranchDecoded DEF f
<1>10. AsWritten(w, l, here) <=> Decode(w) = [op |-> "br", rn |-> l.xn.n]
  BY DEF AsWritten
<1>11. Deviates(l, here) <=> l.xn.n > 31
  BY <1>1, OtherDeviates
<1>12. QED BY <1>2, <1>3, <1>9, <1>10, <1>11

\* ldr rt, #address.
LEMMA LiteralLine ==
    ASSUME NEW l, IsLine(l), l.form = "literal", Accepted(l), NEW here \in Int
    PROVE  AsWritten(Assembled(l, here), l, here) <=> ~Deviates(l, here)
<1> DEFINE f == DT_SF
           g == DT_RT
           h == DT_SIMM19
           u == {27, 28}
           n == WordOffset(l.address, here)
           v == WithRegister(u, f, g, l.rt)
           w == SetBits(v, h, n)
           r == get_register(l.rt)
<1>1. l.address \in Int /\ l.rt \in Register /\ IsRegister(l.rt)
  BY DEF IsLine, Accepted, OperandsAccepted
<1>2. n \in Int /\ (r = l.rt.n <=> ~(l.rt.n > 31))
  BY <1>1, RegisterNumber DEF WordOffset
<1>3. Assembled(l, here) = w
  BY Constants DEF Assembled, assemble_load_literal
<1>4. /\ IsField(f) /\ Limit(f) = 2 /\ Span(f) = {30}
      /\ IsField(g) /\ Limit(g) = 32 /\ Span(g) = 0 .. 4
      /\ IsField(h) /\ Limit(h) = 2^19 /\ Span(h) = 5 .. 23
  BY Fields, WideFields
<1> HIDE DEF f, g, h, n
<1>5. /\ u \cap Span(f) = {} /\ u \cap Span(g) = {} /\ Span(f) \cap Span(g) = {}
      /\ Span(h) \cap Span(f) = {} /\ Span(h) \cap Span(g) = {}
  BY <1>4
<1>6. /\ SelectBits(v, f) = l.rt.sf /\ SelectBits(v, g) = r
      /\ u \subseteq v /\ v \subseteq u \cup Span(f) \cup Span(g)
  BY <1>1, <1>4, <1>5, RegisterPut
<1>7. w = SetBits(v, h, n)
  OBVIOUS
<1> HIDE DEF v, w, r
<1>8. v \cap Span(h) = {} /\ IsField(h)
  BY <1>4, <1>6
<1>9. SelectBits(w, h) = n % Limit(h) /\ v \subseteq w /\ w \subseteq v \cup Span(h)
  BY <1>2, <1>7, <1>8, PutInField
<1>10. SelectBits(w, f) = SelectBits(v, f) /\ SelectBits(w, g) = SelectBits(v, g)
  BY <1>2, <1>4, <1>5, <1>7, OthersKept
<1>11. {27, 28} \subseteq w /\ w \subseteq (0 .. 23) \cup {27, 28, 30}
  BY <1>4, <1>6, <1>9
<1>12. IsLiteral(w) /\ LS(w) /\ Ordinary(w)
  <2>1. IsLiteral(w) /\ LS(w)
    BY <1>11 DEF IsLiteral, LS
  <2>2. Ordinary(w)
    BY <1>11, SpecialBits DEF Ordinary
  <2>3. QED BY <2>1, <2>2
<1>13. Decode(w) = LiteralDecoding(w)
  BY <1>12, TransferFields
<1>14. /\ Decode(w).op = "load_literal" /\ Decode(w).sf = l.rt.sf
       /\ Decode(w).rt = r /\ Decode(w).simm19 = SignExt(n % 2^19, 19)
  BY <1>4, <1>6, <1>9, <1>10, <1>13 DEF LiteralDecoding, f, g, h
<1>15. AsWritten(w, l, here)
         <=> /\ Decode(w).op = "load_literal"
             /\ here + Decode(w).simm19 * 4 = l.address
             /\ Decode(w).sf = l.rt.sf /\ Decode(w).rt = l.rt.n
  BY DEF AsWritten
<1>16. here + SignExt(n % 2^19, 19) * 4 = l.address
         <=> ~OutOfReach(l.address, here, 19)
  BY <1>1, OffsetReaches DEF n
<1>17. Deviates(l, here) <=> l.rt.n > 31 \/ OutOfReach(l.address, here, 19)
  BY <1>1, OtherDeviates
<1>18. QED BY <1>2, <1>3, <1>14, <1>15, <1>16, <1>17

\* nop and .int.
LEMMA FixedLine ==
    ASSUME NEW l, l.form \in {"nop", ".int"}, NEW here
    PROVE  AsWritten(Assembled(l, here), l, here) <=> ~Deviates(l, here)
<1>1. ~Deviates(l, here)
  BY OtherDeviates
<1>2. CASE l.form = "nop"
  <2>1. Assembled(l, here) = NOP_INSTRUCTION
    BY <1>2 DEF Assembled
  <2>2. AsWritten(Assembled(l, here), l, here)
          <=> Decode(Assembled(l, here)).op = "nop"
    BY <1>2 DEF AsWritten
  <2>3. QED BY <1>1, <2>1, <2>2, NopClass
<1>3. CASE l.form = ".int"
  BY <1>1, <1>3 DEF Assembled, AsWritten
<1>4. QED BY <1>2, <1>3

\* A word has what a transfer has in every mode.
IsTransferOf(w, l) ==
    /\ SelectBits(w, DT_SF) = l.rt.sf
    /\ SelectBits(w, DT_RT) = get_register(l.rt)
    /\ SelectBits(w, SDT.L) = IF l.opcode = "ldr" THEN 1 ELSE 0
    /\ SelectBits(w, SDT.XN) = get_register(l.xn)

\* The word before its offset is put in.
TransferBase(l) ==
    SetBits(SetBits(WithRegister({}, DT_SF, DT_RT, l.rt), SDT.L,
                    IF l.opcode = "ldr" THEN 1 ELSE 0),
            SDT.XN, get_register(l.xn))

\* The layouts of a transfer.
LEMMA TransferLayout ==
    /\ IsField(DT_SF) /\ Limit(DT_SF) = 2 /\ Span(DT_SF) = {30}
    /\ IsField(DT_RT) /\ Limit(DT_RT) = 32 /\ Span(DT_RT) = 0 .. 4
    /\ IsField(SDT.L) /\ Limit(SDT.L) = 2 /\ Span(SDT.L) = {22}
    /\ IsField(SDT.XN) /\ Limit(SDT.XN) = 32 /\ Span(SDT.XN) = 5 .. 9
    /\ IsField(SDT.U) /\ Limit(SDT.U) = 2 /\ Span(SDT.U) = {24}
    /\ IsField(SDT.OFFSET) /\ Limit(SDT.OFFSET) = 4096
    /\ Span(SDT.OFFSET) = 10 .. 21
    /\ IsField(SDT.XM) /\ Limit(SDT.XM) = 32 /\ Span(SDT.XM) = 16 .. 20
    /\ IsField(SDT.SIMM9) /\ Limit(SDT.SIMM9) = 512 /\ Span(SDT.SIMM9) = 12 .. 20
    /\ IsField(SDT.I) /\ Limit(SDT.I) = 2 /\ Span(SDT.I) = {11}
BY Fields

LEMMA BaseFields ==
    ASSUME NEW l, l.rt \in Register, IsRegister(l.rt),
           l.xn \in Register, IsRegister(l.xn)
    PROVE  /\ TransferBase(l) \subseteq (0 .. 9) \cup {22, 30}
           /\ IsTransferOf(TransferBase(l), l)
<1> DEFINE f == DT_SF
           g == DT_RT
           h == SDT.L
           k == SDT.XN
           r == get_register(l.rt)
           x == get_register(l.xn)
           b == IF l.opcode = "ldr" THEN 1 ELSE 0
           u == WithRegister({}, f, g, l.rt)
           v == SetBits(u, h, b)
           w == SetBits(v, k, x)
<1>1. /\ IsField(f) /\ Limit(f) = 2 /\ Span(f) = {30}
      /\ IsField(g) /\ Limit(g) = 32 /\ Span(g) = 0 .. 4
      /\ IsField(h) /\ Limit(h) = 2 /\ Span(h) = {22}
      /\ IsField(k) /\ Limit(k) = 32 /\ Span(k) = 5 .. 9
  BY TransferLayout
<1>2. b \in Int /\ b % 2 = b /\ x \in Int /\ x % 32 = x
  BY RegisterNumber
<1>3. TransferBase(l) = w
  BY DEF TransferBase
<1>4. v = SetBits(u, h, b) /\ w = SetBits(v, k, x)
  OBVIOUS
<1> HIDE DEF f, g, h, k, r, x, b, v, w
<1>5. /\ Span(f) \cap Span(g) = {} /\ Span(h) \cap Span(f) = {}
      /\ Span(h) \cap Span(g) = {} /\ Span(k) \cap Span(f) = {}
      /\ Span(k) \cap Span(g) = {} /\ Span(k) \cap Span(h) = {}
  BY <1>1
<1>6. /\ SelectBits(u, f) = l.rt.sf /\ SelectBits(u, g) = r
      /\ u \subseteq {} \cup Span(f) \cup Span(g)
  <2>1. {} \cap Span(f) = {} /\ {} \cap Span(g) = {}
    OBVIOUS
  <2>2. QED BY <1>1, <1>5, <2>1, RegisterPut DEF r
<1> HIDE DEF u
<1>7. u \cap Span(h) = {} /\ IsField(h)
  BY <1>1, <1>6
<1>8. /\ SelectBits(v, h) = b % Limit(h)
      /\ u \subseteq v /\ v \subseteq u \cup Span(h)
  BY <1>2, <1>4, <1>7, PutInField
<1>9. SelectBits(v, f) = SelectBits(u, f) /\ SelectBits(v, g) = SelectBits(u, g)
  BY <1>1, <1>2, <1>4, <1>5, OthersKept
<1>10. v \cap Span(k) = {} /\ IsField(k)
  BY <1>1, <1>6, <1>8
<1>11. /\ SelectBits(w, k) = x % Limit(k)
       /\ v \subseteq w /\ w \subseteq v \cup Span(k)
  BY <1>2, <1>4, <1>10, PutInField
<1>12. /\ SelectBits(w, f) = SelectBits(v, f)
       /\ SelectBits(w, g) = SelectBits(v, g)
       /\ SelectBits(w, h) = SelectBits(v, h)
  BY <1>1, <1>2, <1>4, <1>5, OthersKept
<1>13. /\ SelectBits(w, f) = l.rt.sf /\ SelectBits(w, g) = r
       /\ SelectBits(w, h) = b /\ SelectBits(w, k) = x
  BY <1>1, <1>2, <1>6, <1>8, <1>9, <1>11, <1>12
<1>14. w \subseteq (0 .. 9) \cup {22, 30}
  BY <1>1, <1>6, <1>8, <1>11
<1>15. QED BY <1>3, <1>13, <1>14 DEF IsTransferOf, f, g, h, k, r, b, x

\* It keeps that whatever is put into the rest of the word.
LEMMA TransferKept ==
    ASSUME NEW u, NEW l, IsTransferOf(u, l), NEW w, u \subseteq w,
           w \cap ((0 .. 9) \cup {22, 30}) \subseteq u
    PROVE  IsTransferOf(w, l)
<1> DEFINE f == DT_SF
           g == DT_RT
           h == SDT.L
           k == SDT.XN
<1>1. /\ IsField(f) /\ Span(f) = {30} /\ IsField(g) /\ Span(g) = 0 .. 4
      /\ IsField(h) /\ Span(h) = {22} /\ IsField(k) /\ Span(k) = 5 .. 9
  BY TransferLayout
<1> HIDE DEF f, g, h, k
<1>2. /\ w \cap Span(f) \subseteq u /\ w \cap Span(g) \subseteq u
      /\ w \cap Span(h) \subseteq u /\ w \cap Span(k) \subseteq u
  BY <1>1
<1>3. /\ SelectBits(w, f) = SelectBits(u, f) /\ SelectBits(w, g) = SelectBits(u, g)
  BY <1>1, <1>2, FieldKept
<1>4. /\ SelectBits(w, h) = SelectBits(u, h) /\ SelectBits(w, k) = SelectBits(u, k)
  BY <1>1, <1>2, FieldKept
<1>5. QED BY <1>3, <1>4 DEF IsTransferOf, f, g, h, k

\* The word with an unsigned offset.
UnsignedWord(u, l) ==
    SetBits(SetBits(u \cup Halves(\hB800, 0), SDT.U, 1),
            SDT.OFFSET, l.offset.imm \div Scale(l.rt))

HasUnsigned(w, l) ==
    /\ Decode(w) = UnsignedDecoding(w) /\ IsTransferOf(w, l)
    /\ SelectBits(w, SDT.OFFSET) = (l.offset.imm \div Scale(l.rt)) % 4096

LEMMA UnsignedFields ==
    ASSUME NEW l, NEW u, u \subseteq (0 .. 9) \cup {22, 30},
           IsTransferOf(u, l), l.offset.imm \in Int
    PROVE  HasUnsigned(UnsignedWord(u, l), l)
<1> DEFINE w == UnsignedWord(u, l)
           f == SDT.OFFSET
           q == l.offset.imm \div Scale(l.rt)
           t == u \cup {27, 28, 29, 31}
           v == SetBits(t, SDT.U, 1)
<1>1. w = SetBits(v, f, q)
  <2>1. Halves(\hB800, 0) = {27, 28, 29, 31}
    BY Constants
  <2>2. QED BY <2>1 DEF UnsignedWord
<1>2. v = t \cup {24}
  <2>1. SetBits(t, SDT.U, 1) = t \cup {24 + k : k \in Bits(1 % 2^1)}
    BY DEF SetBits, SDT
  <2>2. 1 % 2^1 = 1 /\ Bits(1) = {0}
    BY Ones
  <2> HIDE DEF t
  <2>3. QED BY <2>1, <2>2
<1>3. IsField(f) /\ Limit(f) = 4096 /\ Span(f) = 10 .. 21
  BY TransferLayout
<1>4. q \in Int
  BY DEF Scale
<1> HIDE DEF f, q, v, w
<1>5. v \cap Span(f) = {}
  BY <1>2, <1>3
<1>6. /\ SelectBits(w, f) = q % Limit(f)
      /\ v \subseteq w /\ w \subseteq v \cup Span(f)
  <2> HIDE DEF t
  <2>1. IsField(f) /\ q \in Int
    BY <1>3, <1>4
  <2>2. QED BY <1>1, <1>5, <2>1, PutInField
<1>7. /\ u \subseteq w /\ {24, 27, 28, 29, 31} \subseteq w
      /\ w \subseteq u \cup (10 .. 21) \cup {24, 27, 28, 29, 31}
  BY <1>2, <1>3, <1>6
<1>8. /\ u \subseteq w /\ w \cap ((0 .. 9) \cup {22, 30}) \subseteq u
  BY <1>7
<1>9. SdtUnsigned(w) /\ LS(w) /\ Ordinary(w)
  <2>1. 23 \notin w /\ 25 \notin w /\ 26 \notin w
    BY <1>7
  <2>2. 24 \in w /\ 27 \in w /\ 28 \in w /\ 29 \in w /\ 31 \in w
    BY <1>7
  <2>3. QED
    BY <2>1, <2>2, SpecialBits DEF SdtUnsigned, IsSdt, LS, Ordinary
<1>10. IsTransferOf(w, l)
  <2> HIDE DEF t
  <2>1. QED BY <1>8, TransferKept
<1>11. SelectBits(w, f) = q % 4096
  BY <1>3, <1>6
<1>12. Decode(w) = UnsignedDecoding(w)
  BY <1>9, TransferFields
<1>13. QED BY <1>10, <1>11, <1>12 DEF HasUnsigned, f, q, w

\* The word with an index.
HasIndex(w, l, i) ==
    /\ Decode(w) = IndexDecoding(w) /\ IsTransferOf(w, l)
    /\ SelectBits(w, SDT.I) = i
    /\ SelectBits(w, SDT.SIMM9) = l.offset.imm % 512

LEMMA IndexFields ==
    ASSUME NEW l, NEW u, u \subseteq (0 .. 9) \cup {22, 30},
           IsTransferOf(u, l), NEW i, i \in {0, 1}, l.offset.imm \in Int
    PROVE  HasIndex(IndexWord(u, l, i), l, i)
<1> DEFINE w == IndexWord(u, l, i)
           f == SDT.SIMM9
           g == SDT.I
           n == l.offset.imm
           t == u \cup {10, 27, 28, 29, 31}
           v == SetBits(t, g, i)
<1>1. w = SetBits(v, f, n)
  <2>1. {27, 28, 29, 31, 10} = {10, 27, 28, 29, 31}
    OBVIOUS
  <2>2. u \cup Halves(\hB800, \h0400) = t
    BY <2>1, Constants
  <2>3. w = SetBits(SetBits(u \cup Halves(\hB800, \h0400), SDT.I, i), SDT.SIMM9,
                    l.offset.imm)
    BY DEF IndexWord
  <2> HIDE DEF t
  <2>4. QED BY <2>2, <2>3
<1>2. /\ IsField(f) /\ Limit(f) = 512 /\ Span(f) = 12 .. 20
      /\ IsField(g) /\ Limit(g) = 2 /\ Span(g) = {11}
  BY TransferLayout
<1>3. v = SetBits(t, g, i) /\ n \in Int /\ i \in Int /\ i % 2 = i
  OBVIOUS
<1> HIDE DEF f, g, v, n, w
<1>4. t \cap Span(g) = {} /\ IsField(g) /\ Span(f) \cap Span(g) = {}
  BY <1>2
<1>5. /\ SelectBits(v, g) = i % Limit(g)
      /\ t \subseteq v /\ v \subseteq t \cup Span(g)
  <2> HIDE DEF t
  <2>1. QED BY <1>3, <1>4, PutInField
<1>6. v \cap Span(f) = {} /\ IsField(f)
  BY <1>2, <1>5
<1>7. /\ SelectBits(w, f) = n % Limit(f)
      /\ v \subseteq w /\ w \subseteq v \cup Span(f)
  <2> HIDE DEF t
  <2>1. n \in Int
    BY <1>3
  <2>2. QED BY <1>1, <1>6, <2>1, PutInField
<1>8. SelectBits(w, g) = SelectBits(v, g)
  BY <1>1, <1>2, <1>3, <1>4, OthersKept
<1>9. /\ u \subseteq w /\ {10, 27, 28, 29, 31} \subseteq w
      /\ w \subseteq u \cup (10 .. 20) \cup {27, 28, 29, 31}
  BY <1>2, <1>5, <1>7
<1>10. /\ u \subseteq w /\ w \cap ((0 .. 9) \cup {22, 30}) \subseteq u
  BY <1>9
<1>11. SdtIndex(w) /\ LS(w) /\ Ordinary(w)
  <2>1. /\ 21 \notin w /\ 23 \notin w /\ 24 \notin w /\ 25 \notin w
        /\ 26 \notin w
    BY <1>9
  <2>2. 10 \in w /\ 27 \in w /\ 28 \in w /\ 29 \in w /\ 31 \in w
    BY <1>9
  <2>3. QED
    BY <2>1, <2>2, SpecialBits DEF SdtIndex, ByIndex, IsSdt, LS, Ordinary
<1>12. IsTransferOf(w, l)
  BY <1>10, TransferKept
<1>13. SelectBits(w, f) = n % 512 /\ SelectBits(w, g) = i
  BY <1>2, <1>3, <1>5, <1>7, <1>8
<1>14. Decode(w) = IndexDecoding(w)
  BY <1>11, TransferFields
<1>15. QED BY <1>12, <1>13, <1>14 DEF HasIndex, f, g, n, w

\* The word with an offset register.
RegisterWord(u, l) ==
    SetBits(u \cup Halves(\hB820, \h6800), SDT.XM, get_register(l.offset))

HasRegister(w, l) ==
    /\ Decode(w) = RegisterDecoding(w) /\ IsTransferOf(w, l)
    /\ SelectBits(w, SDT.XM) = get_register(l.offset)

LEMMA RegisterFields ==
    ASSUME NEW l, NEW u, u \subseteq (0 .. 9) \cup {22, 30},
           IsTransferOf(u, l), l.offset \in Register, IsRegister(l.offset)
    PROVE  HasRegister(RegisterWord(u, l), l)
<1> DEFINE w == RegisterWord(u, l)
           f == SDT.XM
           n == get_register(l.offset)
           t == u \cup {21, 27, 28, 29, 31, 11, 13, 14}
<1>1. w = SetBits(t, f, n)
  <2>1. Halves(\hB820, \h6800) = {21, 27, 28, 29, 31, 11, 13, 14}
    BY Constants
  <2>2. QED BY <2>1 DEF RegisterWord
<1>2. IsField(f) /\ Limit(f) = 32 /\ Span(f) = 16 .. 20
  BY TransferLayout
<1>3. n \in Int /\ n % 32 = n
  BY RegisterNumber
<1> HIDE DEF f, n, w
<1>4. t \cap Span(f) = {}
  BY <1>2
<1>5. /\ SelectBits(w, f) = n % Limit(f)
      /\ t \subseteq w /\ w \subseteq t \cup Span(f)
  <2> HIDE DEF t
  <2>1. QED BY <1>1, <1>2, <1>3, <1>4, PutInField
<1>6. /\ u \subseteq w /\ {11, 13, 14, 21, 27, 28, 29, 31} \subseteq w
      /\ w \subseteq u \cup (16 .. 20) \cup {11, 13, 14, 21, 27, 28, 29, 31}
  BY <1>2, <1>5
<1>7. /\ u \subseteq w /\ w \cap ((0 .. 9) \cup {22, 30}) \subseteq u
  BY <1>6
<1>8. SdtRegister(w) /\ LS(w) /\ Ordinary(w)
  <2>1. /\ 10 \notin w /\ 12 \notin w /\ 15 \notin w /\ 23 \notin w
        /\ 24 \notin w /\ 25 \notin w /\ 26 \notin w
    BY <1>6
  <2>2. /\ 11 \in w /\ 13 \in w /\ 14 \in w /\ 21 \in w
        /\ 27 \in w /\ 28 \in w /\ 29 \in w /\ 31 \in w
    BY <1>6
  <2>3. QED
    BY <2>1, <2>2, SpecialBits
       DEF SdtRegister, ByRegister, IsSdt, LS, Ordinary
<1>9. IsTransferOf(w, l)
  BY <1>7, TransferKept
<1>10. SelectBits(w, f) = n
  BY <1>2, <1>3, <1>5
<1>11. Decode(w) = RegisterDecoding(w)
  BY <1>8, TransferFields
<1>12. QED BY <1>9, <1>10, <1>11 DEF HasRegister, f, n, w

\* The addresses are more than two of those that an offset reaches.
LEMMA AddressSpace == Transfers!XMod \in Nat /\ 65536 <= Transfers!XMod
<1> DEFINE b == ByteMod
           s == b * b
           m == s * s
<1>1. b \in Nat /\ 4 <= b
  BY WidthAssumption
<1>2. Transfers!XMod = (b * b * b * b) * (b * b * b * b)
  BY DEF Transfers!XMod, Transfers!WMod
<1>3. b * b * b * b = m
  <2> HIDE DEF b
  <2>1. QED BY <1>1, Z3
<1> HIDE DEF b
<1>4. s \in Nat /\ 16 <= s
  BY <1>1, Z3
<1> HIDE DEF s
<1>5. m \in Nat /\ 256 <= m
  BY <1>4, Z3
<1> HIDE DEF m
<1>6. m * m \in Nat /\ 65536 <= m * m
  BY <1>5, Z3
<1>7. QED BY <1>2, <1>3, <1>6

\* What a register of the sample state holds.
SampleValue(n) == Transfers!get_register_value(SampleCpu, n, SF64)

LEMMA SampleIsAddress ==
    ASSUME NEW n, n \in 0 .. 31
    PROVE  SampleValue(n) \in 0 .. Transfers!XMod - 1
<1> DEFINE x == Transfers!XMod
           v == 4096 + ((2^n) % 509)
<1>1. x \in Nat \ {0}
  BY AddressSpace
<1>2. n = 31 => SampleValue(n) = 0
  BY DEF SampleValue, Transfers!get_register_value, Transfers!ZR_REG
<1>3. n # 31 => SampleValue(n) = v % x
  <2>1. ASSUME n # 31
        PROVE  n \in 0 .. 30
    BY <2>1
  <2>2. ASSUME n # 31
        PROVE  SampleCpu.R[n] = v
    BY <2>1, <2>2 DEF SampleCpu
  <2>3. Transfers!Width(SF64) = x
    BY DEF Transfers!Width, Transfers!SF32, SF64
  <2>4. QED
    BY <2>2, <2>3
       DEF SampleValue, Transfers!get_register_value, Transfers!ZR_REG
<1>4. v \in Int
  <2>1. n \in 0 .. 32
    OBVIOUS
  <2>2. 2^n \in Nat
    BY <2>1, PowerType
  <2>3. QED BY <2>2
<1> HIDE DEF v, x
<1>5. v % x \in 0 .. x - 1
  BY <1>1, <1>4, DivisionParts
<1>6. QED BY <1>1, <1>2, <1>3, <1>5 DEF x

\* Small offsets lead to different addresses.
Apart(x, v, a, b) == (v + a) % x = (v + b) % x => a = b

LEMMA OffsetsDiffer ==
    ASSUME NEW x \in Int, 65536 <= x, NEW v \in Int,
           NEW a \in Int, 0 <= a, a <= 65535,
           NEW b \in Int, 0 <= b, b <= 65535
    PROVE  Apart(x, v, a, b)
<1> DEFINE k == (v + a) \div x
           j == (v + b) \div x
           r == (v + a) % x
           s == (v + b) % x
           d == k - j
           e == j - k
           p == x * d
           q == x * e
<1>1. x \in Nat \ {0} /\ v + a \in Int /\ v + b \in Int
  OBVIOUS
<1>2. /\ k \in Int /\ v + a = x * k + r
      /\ j \in Int /\ v + b = x * j + s /\ r \in Int
  BY <1>1, DivisionParts
<1>0. a - b < x /\ b - a < x
  <2>1. a - b < x
    OBVIOUS
  <2>2. b - a < x
    OBVIOUS
  <2>3. QED BY <2>1, <2>2
<1> SUFFICES ASSUME r = s
             PROVE  a = b
  BY DEF Apart
<1> HIDE DEF k, j, r, s
<1>3. a - b = p
  BY <1>2, Z3
<1>4. b - a = q
  BY <1>2, Z3
<1>5. d \in Int /\ e \in Int /\ e = -d
  BY <1>2
<1> HIDE DEF d, e
<1>6. d >= 1 => p >= x
  BY <1>5, Z3
<1>7. e >= 1 => q >= x
  BY <1>5, Z3
<1>8. d = 0 => p = 0
  BY <1>5, Z3
<1> HIDE DEF p, q
<1>9. ~(d >= 1) /\ ~(e >= 1)
  <2>2. p < x
    BY <1>0, <1>3
  <2>3. q < x
    BY <1>0, <1>4
  <2>4. p \in Int /\ q \in Int
    BY <1>3, <1>4
  <2>5. QED BY <1>6, <1>7, <2>2, <2>3, <2>4
<1>10. QED BY <1>3, <1>5, <1>8, <1>9

\* What a line of a transfer deviates in.
LEMMA TransferDeviates ==
    ASSUME NEW l, IsLine(l), l.form = "transfer", NEW here
    PROVE  Deviates(l, here) <=>
             \/ l.rt.n > 31 \/ l.xn.n > 31
             \/ l.mode = "register" /\ l.offset.n > 31
             \/ ScaledByFour(l) \/ l.mode = "other"
<1>1. /\ ~is_immediate(l.rt) /\ ~is_immediate(l.xn)
      /\ l.mode = "register" => ~is_immediate(l.offset)
      /\ l.mode # "register" => is_immediate(l.offset)
  <2>1. /\ l.rt \in Register /\ l.xn \in Register
        /\ l.mode = "register" => l.offset \in Register
        /\ l.mode # "register" => l.offset \in Immediate
    BY DEF IsLine
  <2>2. QED BY <2>1 DEF Register, Immediate, is_immediate
<1>2. NamedBy(l) = {l.rt, l.xn, l.offset}
  BY DEF NamedBy
<1>3. (\E r \in Registers(l) : r.n > 31) <=>
        \/ l.rt.n > 31 \/ l.xn.n > 31
        \/ l.mode = "register" /\ l.offset.n > 31
  <2>1. CASE l.mode = "register"
    <3>1. Registers(l) = {l.rt, l.xn, l.offset}
      BY <1>1, <1>2, <2>1 DEF Registers
    <3>2. QED BY <2>1, <3>1
  <2>2. CASE l.mode # "register"
    <3>1. Registers(l) = {l.rt, l.xn}
      BY <1>1, <1>2, <2>2 DEF Registers
    <3>2. QED BY <2>2, <3>1
  <2>3. QED BY <2>1, <2>2
<1>4. OneWidth(l)
  BY DEF OneWidth
<1>5. /\ ~Cut(l) /\ ~Overshifted(l) /\ ~RotatedArithmetic(l)
      /\ ~ImmediateFactor(l)
  BY DEF Cut, Overshifted, RotatedArithmetic, ImmediateFactor
<1>6. QED BY <1>3, <1>4, <1>5 DEF Deviates

\* What holds of the word of an accepted transfer of a known form.
LEMMA TransferWord ==
    ASSUME NEW l, IsLine(l), l.form = "transfer", Accepted(l),
           l.mode # "other", NEW here
    PROVE  /\ l.rt \in Register /\ IsRegister(l.rt)
           /\ l.xn \in Register /\ IsRegister(l.xn)
           /\ TransferAccepted(l)
           /\ Assembled(l, here) = AddressingMode(TransferBase(l), l)
<1>1. TransferAccepted(l)
  BY DEF Accepted, OperandsAccepted
<1>2. l.rt \in Register /\ l.xn \in Register
      /\ l.mode \in {"unsigned", "pre", "post", "register"}
  BY DEF IsLine
<1>3. IsRegister(l.rt) /\ IsRegister(l.xn)
  BY <1>1, <1>2 DEF TransferAccepted, IsXRegister
<1>4. Assembled(l, here) = assemble_load_store(l)
  BY DEF Assembled
<1>5. assemble_load_store(l) = AddressingMode(TransferBase(l), l)
  BY DEF assemble_load_store, TransferBase
<1>6. QED BY <1>1, <1>2, <1>3, <1>4, <1>5

\* The word names the registers of the line unless a number is out of range.
SameTransfer(i, l) ==
    /\ i.sf = l.rt.sf /\ i.rt = l.rt.n /\ (i.l = 1) = (l.opcode = "ldr")
    /\ i.xn = l.xn.n

LEMMA TransferNames ==
    ASSUME NEW l, l.rt \in Register, IsRegister(l.rt),
           l.xn \in Register, IsRegister(l.xn), NEW w, IsTransferOf(w, l),
           NEW i, i.sf = SelectBits(w, DT_SF), i.rt = SelectBits(w, DT_RT),
           i.l = SelectBits(w, SDT.L), i.xn = SelectBits(w, SDT.XN)
    PROVE  /\ SameTransfer(i, l) <=> ~(l.rt.n > 31) /\ ~(l.xn.n > 31)
           /\ ~(l.xn.n > 31) => SampleValue(l.xn.n) \in 0 .. Transfers!XMod - 1
<1>1. /\ get_register(l.rt) = l.rt.n <=> ~(l.rt.n > 31)
      /\ get_register(l.xn) = l.xn.n <=> ~(l.xn.n > 31)
      /\ l.xn.n \in Nat
  BY RegisterNumber
<1>2. /\ i.sf = l.rt.sf /\ i.rt = get_register(l.rt)
      /\ i.xn = get_register(l.xn) /\ (i.l = 1) = (l.opcode = "ldr")
  BY DEF IsTransferOf
<1>3. SameTransfer(i, l) <=> ~(l.rt.n > 31) /\ ~(l.xn.n > 31)
  BY <1>1, <1>2 DEF SameTransfer
<1>4. ~(l.xn.n > 31) => l.xn.n \in 0 .. 31
  BY <1>1
<1>5. ~(l.xn.n > 31) => SampleValue(l.xn.n) \in 0 .. Transfers!XMod - 1
  BY <1>4, SampleIsAddress
<1>6. QED BY <1>3, <1>5

\* ldr rt, [xn, #imm] and str.
LEMMA UnsignedLine ==
    ASSUME NEW l, IsLine(l), l.form = "transfer", Accepted(l),
           l.mode = "unsigned", NEW here
    PROVE  AsWritten(Assembled(l, here), l, here) <=> ~Deviates(l, here)
<1> DEFINE u == TransferBase(l)
           w == UnsignedWord(u, l)
           i == UnsignedDecoding(w)
           n == l.offset.imm
           q == n \div Scale(l.rt)
           x == Transfers!XMod
           v == SampleValue(l.xn.n)
<1>1. /\ l.rt \in Register /\ IsRegister(l.rt)
      /\ l.xn \in Register /\ IsRegister(l.xn)
      /\ TransferAccepted(l)
      /\ Assembled(l, here) = AddressingMode(u, l)
  BY TransferWord
<1>2. Assembled(l, here) = w
  BY <1>1 DEF AddressingMode, UnsignedWord
<1>3. /\ n \in Int /\ IsUimm12(n, Scale(l.rt)) /\ l.rt.sf \in {0, 1}
  <2>1. l.offset \in Immediate
    BY DEF IsLine
  <2>2. QED
    BY <1>1, <2>1 DEF Immediate, TransferAccepted, Register, SF32, SF64
<1>4. /\ q \in 0 .. 4095 /\ q % 4096 = q
      /\ l.rt.sf = 1 => n = q * 8
      /\ l.rt.sf = 0 => n = q * 4
  <2>1. CASE l.rt.sf = 1
    <3>1. Scale(l.rt) = 8
      BY <2>1 DEF Scale, SF64
    <3>2. QED BY <1>3, <2>1, <3>1 DEF IsUimm12
  <2>2. CASE l.rt.sf = 0
    <3>1. Scale(l.rt) = 4
      BY <2>2 DEF Scale, SF64
    <3>2. QED BY <1>3, <2>2, <3>1 DEF IsUimm12
  <2>3. QED BY <1>3, <2>1, <2>2
<1>5. u \subseteq (0 .. 9) \cup {22, 30} /\ IsTransferOf(u, l)
  BY <1>1, BaseFields
<1>6. l.offset.imm \in Int
  BY <1>3
<1>7. /\ Decode(w) = i /\ IsTransferOf(w, l)
      /\ SelectBits(w, SDT.OFFSET) = q % 4096
  <2> HIDE DEF u
  <2>1. HasUnsigned(UnsignedWord(u, l), l)
    <3> HIDE DEF n
    <3>1. QED BY <1>5, <1>6, UnsignedFields
  <2>2. QED BY <2>1 DEF HasUnsigned
<1>8. i.op = "sdt_uimm" /\ i.offset = q
  <2>1. i.op = "sdt_uimm" /\ i.offset = SelectBits(w, SDT.OFFSET)
    BY DEF UnsignedDecoding
  <2> HIDE DEF i, w, q
  <2>2. QED BY <1>4, <1>7, <2>1
<1>9. /\ SameTransfer(i, l) <=> ~(l.rt.n > 31) /\ ~(l.xn.n > 31)
      /\ ~(l.xn.n > 31) => v \in 0 .. x - 1
  <2>1. /\ i.sf = SelectBits(w, DT_SF) /\ i.rt = SelectBits(w, DT_RT)
        /\ i.l = SelectBits(w, SDT.L) /\ i.xn = SelectBits(w, SDT.XN)
    BY DEF UnsignedDecoding
  <2> HIDE DEF i, w, x
  <2>2. QED BY <1>1, <1>7, <2>1, TransferNames DEF x
<1>10. AsWritten(w, l, here) <=>
         /\ SameTransfer(i, l)
         /\ Transfers!TransferAddress(SampleCpu, i) = (v + n) % x
  <2>1. AsWritten(w, l, here) <=> TransfersAsWritten(w, l)
    BY DEF AsWritten
  <2> HIDE DEF i, w, x, v, n
  <2>2. QED
    BY <1>7, <1>8, <2>1
       DEF TransfersAsWritten, SameTransfer, SampleValue, x, v, n
<1> HIDE DEF i, w, q, n, x, v
<1>11. i.xn = l.xn.n =>
         Transfers!TransferAddress(SampleCpu, i) = (v + q * 8) % x
  <2>1. Transfers!SF64 = SF64
    BY DEF Transfers!SF64, SF64
  <2>2. Transfers!TransferAddress(SampleCpu, i) =
          (Transfers!get_register_value(SampleCpu, i.xn, SF64) + q * 8) % x
    BY <1>8, <2>1 DEF Transfers!TransferAddress, x
  <2>3. QED BY <2>2 DEF SampleValue, v
<1>12. ScaledByFour(l) <=> l.rt.sf = 0 /\ n # 0
  BY DEF ScaledByFour, SF32, n
<1>13. ASSUME ~(l.xn.n > 31)
       PROVE  (v + q * 8) % x = (v + n) % x <=> ~ScaledByFour(l)
  <2>1. x \in Nat /\ 65536 <= x /\ v \in Int
    BY <1>9, <1>13, AddressSpace DEF x
  <2>2. CASE l.rt.sf = 1
    BY <1>4, <1>12, <2>2
  <2>3. CASE l.rt.sf = 0
    <3>1. n = 0 => q * 8 = n
      BY <1>4, <2>3
    <3>2. ASSUME (v + q * 8) % x = (v + n) % x
          PROVE  n = 0
      <4> DEFINE a == q * 8
      <4>1. /\ a \in Int /\ 0 <= a /\ a <= 65535
            /\ n \in Int /\ 0 <= n /\ n <= 65535
        <5> HIDE DEF u
        <5>1. QED BY <1>4, <2>3
      <4>2. (v + a) % x = (v + n) % x
        BY <3>2
      <4> HIDE DEF a
      <4>3. a = n
        <5> HIDE DEF u
        <5>1. x \in Int /\ v \in Int /\ 65536 <= x
          BY <2>1
        <5>2. Apart(x, v, a, n)
          BY <4>1, <5>1, OffsetsDiffer
        <5>3. QED BY <4>2, <5>2 DEF Apart
      <4>4. QED BY <1>4, <2>3, <4>3 DEF a
    <3>3. QED BY <1>12, <2>3, <3>1, <3>2
  <2>4. QED BY <1>3, <2>2, <2>3
<1>14. Deviates(l, here) <=> l.rt.n > 31 \/ l.xn.n > 31 \/ ScaledByFour(l)
  BY TransferDeviates
<1>15. QED
  BY <1>2, <1>9, <1>10, <1>11, <1>13, <1>14 DEF SameTransfer

\* An index is what the sign extension makes of its nine bits.
LEMMA IndexKept ==
    ASSUME NEW n \in Int, IsSimm9(n)
    PROVE  SignExt(n % 512, 9) = n
<1>1. 2^9 = 512 /\ 2^(9 - 1) = 256
  BY Powers
<1>2. -256 <= n /\ n <= 255
  BY DEF IsSimm9
<1>3. SignExt(n % 512, 9) = IF n % 512 < 256 THEN n % 512 ELSE (n % 512) - 512
  BY <1>1 DEF SignExt
<1>4. QED BY <1>2, <1>3

\* ldr rt, [xn, #imm]!, ldr rt, [xn], #imm and str.
LEMMA IndexLine ==
    ASSUME NEW l, IsLine(l), l.form = "transfer", Accepted(l),
           l.mode \in {"pre", "post"}, NEW here
    PROVE  AsWritten(Assembled(l, here), l, here) <=> ~Deviates(l, here)
<1> DEFINE u == TransferBase(l)
           k == IF l.mode = "pre" THEN 1 ELSE 0
           w == IndexWord(u, l, k)
           i == IndexDecoding(w)
           n == l.offset.imm
           x == Transfers!XMod
           v == SampleValue(l.xn.n)
           address == IF l.mode = "pre" THEN v + n ELSE v
<1>1. /\ l.rt \in Register /\ IsRegister(l.rt)
      /\ l.xn \in Register /\ IsRegister(l.xn)
      /\ TransferAccepted(l)
      /\ Assembled(l, here) = AddressingMode(u, l)
  BY TransferWord
<1>2. Assembled(l, here) = w
  <2> HIDE DEF u
  <2>1. QED BY <1>1 DEF AddressingMode
<1>3. l.offset.imm \in Int /\ IsSimm9(l.offset.imm)
  <2>1. l.offset \in Immediate
    BY DEF IsLine
  <2>2. QED BY <1>1, <2>1 DEF Immediate, TransferAccepted
<1>4. k \in {0, 1}
  OBVIOUS
<1>5. u \subseteq (0 .. 9) \cup {22, 30} /\ IsTransferOf(u, l)
  BY <1>1, BaseFields
<1>6. /\ Decode(w) = i /\ IsTransferOf(w, l) /\ SelectBits(w, SDT.I) = k
      /\ SelectBits(w, SDT.SIMM9) = n % 512
  <2> HIDE DEF u
  <2>1. HasIndex(IndexWord(u, l, k), l, k)
    <3> HIDE DEF n, k
    <3>1. QED BY <1>3, <1>4, <1>5, IndexFields
  <2>2. QED BY <2>1 DEF HasIndex
<1>7. /\ i.op = IF l.mode = "pre" THEN "sdt_preind" ELSE "sdt_postind"
      /\ i.simm9 = n
  <2>1. /\ i.op = IF SelectBits(w, SDT.I) = 1
                  THEN "sdt_preind" ELSE "sdt_postind"
        /\ i.simm9 = SignExt(SelectBits(w, SDT.SIMM9), 9)
    BY DEF IndexDecoding
  <2>2. SignExt(n % 512, 9) = n
    BY <1>3, IndexKept
  <2> HIDE DEF i, w, n
  <2>3. QED BY <1>6, <2>1, <2>2
<1>8. /\ SameTransfer(i, l) <=> ~(l.rt.n > 31) /\ ~(l.xn.n > 31)
      /\ ~(l.xn.n > 31) => v \in 0 .. x - 1
  <2>1. /\ i.sf = SelectBits(w, DT_SF) /\ i.rt = SelectBits(w, DT_RT)
        /\ i.l = SelectBits(w, SDT.L) /\ i.xn = SelectBits(w, SDT.XN)
    BY DEF IndexDecoding
  <2> HIDE DEF i, w, x
  <2>2. QED BY <1>1, <1>6, <2>1, TransferNames DEF x
<1>9. AsWritten(w, l, here) <=>
         /\ SameTransfer(i, l)
         /\ Transfers!TransferAddress(SampleCpu, i) = address % x
  <2>1. AsWritten(w, l, here) <=> TransfersAsWritten(w, l)
    BY DEF AsWritten
  <2> HIDE DEF i, w, x, v, n
  <2>2. CASE l.mode = "pre"
    BY <1>6, <1>7, <2>1, <2>2
       DEF TransfersAsWritten, SameTransfer, SampleValue, x, v, n
  <2>3. CASE l.mode = "post"
    BY <1>6, <1>7, <2>1, <2>3
       DEF TransfersAsWritten, SameTransfer, SampleValue, x, v, n
  <2>4. QED BY <2>2, <2>3
<1> HIDE DEF i, w, n, x, v
<1>10. i.xn = l.xn.n =>
         Transfers!TransferAddress(SampleCpu, i) =
            IF l.mode = "pre" THEN (v + n) % x ELSE v
  <2>1. Transfers!SF64 = SF64
    BY DEF Transfers!SF64, SF64
  <2>2. Transfers!TransferAddress(SampleCpu, i) =
          IF l.mode = "pre"
          THEN (Transfers!get_register_value(SampleCpu, i.xn, SF64) + n) % x
          ELSE Transfers!get_register_value(SampleCpu, i.xn, SF64)
    BY <1>7, <2>1 DEF Transfers!TransferAddress, x
  <2>3. QED BY <2>2 DEF SampleValue, v
<1>11. ~(l.xn.n > 31) => v % x = v
  BY <1>8, AddressSpace DEF x
<1>12. Deviates(l, here) <=> l.rt.n > 31 \/ l.xn.n > 31
  BY TransferDeviates DEF ScaledByFour
<1>13. QED
  BY <1>2, <1>8, <1>9, <1>10, <1>11, <1>12 DEF SameTransfer

\* ldr rt, [xn, xm] and str.
LEMMA RegisterLine ==
    ASSUME NEW l, IsLine(l), l.form = "transfer", Accepted(l),
           l.mode = "register", NEW here
    PROVE  AsWritten(Assembled(l, here), l, here) <=> ~Deviates(l, here)
<1> DEFINE u == TransferBase(l)
           w == RegisterWord(u, l)
           i == RegisterDecoding(w)
           x == Transfers!XMod
           v == SampleValue(l.xn.n)
           m == SampleValue(l.offset.n)
<1>1. /\ l.rt \in Register /\ IsRegister(l.rt)
      /\ l.xn \in Register /\ IsRegister(l.xn)
      /\ TransferAccepted(l)
      /\ Assembled(l, here) = AddressingMode(u, l)
  BY TransferWord
<1>2. Assembled(l, here) = w
  <2> HIDE DEF u
  <2>1. QED BY <1>1 DEF AddressingMode, RegisterWord
<1>3. l.offset \in Register /\ IsRegister(l.offset)
  <2>1. l.offset \in Register
    BY DEF IsLine
  <2>2. QED BY <1>1, <2>1 DEF TransferAccepted, IsXRegister
<1>4. get_register(l.offset) = l.offset.n <=> ~(l.offset.n > 31)
  BY <1>3, RegisterNumber
<1>5. u \subseteq (0 .. 9) \cup {22, 30} /\ IsTransferOf(u, l)
  BY <1>1, BaseFields
<1>6. /\ Decode(w) = i /\ IsTransferOf(w, l)
      /\ SelectBits(w, SDT.XM) = get_register(l.offset)
  <2> HIDE DEF u
  <2>1. HasRegister(RegisterWord(u, l), l)
    BY <1>3, <1>5, RegisterFields
  <2>2. QED BY <2>1 DEF HasRegister
<1>7. i.op = "sdt_regoffset" /\ i.xm = get_register(l.offset)
  <2>1. i.op = "sdt_regoffset" /\ i.xm = SelectBits(w, SDT.XM)
    BY DEF RegisterDecoding
  <2> HIDE DEF i, w
  <2>2. QED BY <1>6, <2>1
<1>8. SameTransfer(i, l) <=> ~(l.rt.n > 31) /\ ~(l.xn.n > 31)
  <2>1. /\ i.sf = SelectBits(w, DT_SF) /\ i.rt = SelectBits(w, DT_RT)
        /\ i.l = SelectBits(w, SDT.L) /\ i.xn = SelectBits(w, SDT.XN)
    BY DEF RegisterDecoding
  <2> HIDE DEF i, w
  <2>2. QED BY <1>1, <1>6, <2>1, TransferNames
<1>9. AsWritten(w, l, here) <=>
         /\ SameTransfer(i, l) /\ i.xm = l.offset.n
         /\ Transfers!TransferAddress(SampleCpu, i) = (v + m) % x
  <2>1. AsWritten(w, l, here) <=> TransfersAsWritten(w, l)
    BY DEF AsWritten
  <2> HIDE DEF i, w, x, v, m
  <2>2. QED
    BY <1>6, <1>7, <2>1
       DEF TransfersAsWritten, SameTransfer, SampleValue, x, v, m
<1> HIDE DEF i, w, x, v, m
<1>10. i.xn = l.xn.n /\ i.xm = l.offset.n =>
         Transfers!TransferAddress(SampleCpu, i) = (v + m) % x
  <2>1. Transfers!SF64 = SF64
    BY DEF Transfers!SF64, SF64
  <2>2. Transfers!TransferAddress(SampleCpu, i) =
          (Transfers!get_register_value(SampleCpu, i.xn, SF64)
             + Transfers!get_register_value(SampleCpu, i.xm, SF64)) % x
    BY <1>7, <2>1 DEF Transfers!TransferAddress, x
  <2>3. QED BY <2>2 DEF SampleValue, v, m
<1>11. Deviates(l, here) <=>
         l.rt.n > 31 \/ l.xn.n > 31 \/ l.offset.n > 31
  BY TransferDeviates DEF ScaledByFour
<1>12. QED
  BY <1>2, <1>4, <1>7, <1>8, <1>9, <1>10, <1>11 DEF SameTransfer

LEMMA TransferLine ==
    ASSUME NEW l, IsLine(l), l.form = "transfer", Accepted(l), NEW here
    PROVE  AsWritten(Assembled(l, here), l, here) <=> ~Deviates(l, here)
<1>1. l.mode \in {"unsigned", "pre", "post", "register", "other"}
  BY DEF IsLine
<1>2. CASE l.mode = "other"
  <2>1. ~AsWritten(Assembled(l, here), l, here)
    BY <1>2 DEF AsWritten, TransfersAsWritten
  <2>2. Deviates(l, here)
    BY <1>2, TransferDeviates
  <2>3. QED BY <2>1, <2>2
<1>3. QED BY <1>1, <1>2, UnsignedLine, IndexLine, RegisterLine

\* A line of whatever form.
LEMMA AssembledAsWritten ==
    ASSUME NEW l, IsLine(l), Accepted(l), NEW here \in Int
    PROVE  AsWritten(Assembled(l, here), l, here) <=> ~Deviates(l, here)
<1>1. l.form \in {"two_op", "single_op", "no_dest", "multiply", "product",
                  "transfer", "literal", "b", "br", "b.", "nop", ".int",
                  "garbage"}
  BY DEF IsLine
<1>2. l.form # "garbage"
  BY DEF Accepted, Dispatched
<1>3. CASE l.form \in {"two_op", "no_dest"}
  BY <1>3, TwoOpLine, NoDestLine
<1>4. CASE l.form = "single_op"
  BY <1>4, WideLine, AliasLine
<1>5. CASE l.form \in {"multiply", "product"}
  BY <1>5, MultiplyLine, ProductLine
<1>6. CASE l.form = "transfer"
  BY <1>6, TransferLine
<1>7. CASE l.form \in {"b", "b."}
  BY <1>7, BLine, BCondLine
<1>8. CASE l.form \in {"br", "literal"}
  BY <1>8, BrLine, LiteralLine
<1>9. CASE l.form \in {"nop", ".int"}
  BY <1>9, FixedLine
<1>10. QED
  BY <1>1, <1>2, <1>3, <1>4, <1>5, <1>6, <1>7, <1>8, <1>9

LEMMA ChainAsWritten == ChainInv => ExactlyTheseDeviate
<1> SUFFICES ASSUME ChainInv, phase = "assembling", NEW k \in 1 .. Len(binary)
             PROVE  AsWritten(binary[k], source[k], base + 4 * (k - 1))
                      <=> ~Deviates(source[k], base + 4 * (k - 1))
  BY DEF ExactlyTheseDeviate
<1>1. /\ IsText(source) /\ base \in Nat /\ Len(binary) <= Len(source)
      /\ Accepted(source[k])
      /\ binary[k] = Assembled(source[k], base + 4 * (k - 1))
  BY DEF ChainInv, SourceInv
<1>2. Len(binary) \in Nat /\ Len(source) \in Nat
  <2>1. binary \in Seq(Word)
    BY DEF ChainInv, TypeOK
  <2>2. QED BY <1>1, <2>1, LenProperties, TextParts
<1>3. k \in 1 .. Len(source) /\ base + 4 * (k - 1) \in Int
  BY <1>1, <1>2
<1>4. IsLine(source[k])
  BY <1>1, <1>3, TextParts
<1>5. QED BY <1>1, <1>3, <1>4, AssembledAsWritten

\* Of every line assemble writes a word for, the emulator does what the line
\* says, or the line is one of the deviations and it does something else.
THEOREM ExactlyTheseDeviateHolds == Spec => []ExactlyTheseDeviate
BY ChainInvariant, ChainAsWritten, PTL
=============================================================================
