-------------------------- MODULE SymbolTableFacts --------------------------
(***************************************************************************)
(* Lemmas about the operators of the symbol table, for every number of     *)
(* buckets and every set of keys: what a look-up answers, what a set       *)
(* leaves, and what both do for a key that no other key collides with.     *)
(***************************************************************************)
EXTENDS SymbolTable, TLAPS

LEMMA HashIsBucket == ASSUME NEW k \in Keys PROVE hash(k) \in Buckets
    BY HashAssumption

LEMMA OwnPrefix == ASSUME NEW k \in Keys PROVE IsPrefix(k, k)
    BY KeysAssumption DEF IsPrefix

\* A chain of at most one entry.
LEMMA ChainCases ==
    ASSUME NEW chain \in Seq(Entry), Len(chain) <= 1
    PROVE  \/ chain = <<>>
           \/ chain[1] \in Entry /\ chain = <<chain[1]>> /\ DOMAIN chain = {1}
<1>1. Len(chain) \in Nat /\ DOMAIN chain = 1 .. Len(chain)
    OBVIOUS
<1>2. CASE Len(chain) = 0
    BY <1>2
<1>3. CASE Len(chain) = 1
    BY <1>3
<1>4. QED
    BY <1>1, <1>2, <1>3

\* With one entry a look-up answers it or nothing.
LEMMA FindFacts ==
    ASSUME NEW t \in Table, NEW k \in Keys,
           Len(t.entries[hash(k)]) <= 1
    PROVE  LET chain == t.entries[hash(k)]
               i == hashmap_find_entry(t, k)
           IN  \/ i = 0 /\ (chain = <<>> \/ ~IsPrefix(k, chain[1].key))
               \/ /\ i = 1 /\ chain[1] \in Entry /\ chain = <<chain[1]>>
                  /\ IsPrefix(k, chain[1].key)
<1> DEFINE chain == t.entries[hash(k)]
           m == Matches(chain, k)
<1>1. chain \in Seq(Entry) /\ Len(chain) <= 1
    BY HashIsBucket DEF Table
<1>2. hashmap_find_entry(t, k)
          = IF m = {} THEN 0 ELSE CHOOSE i \in m : \A j \in m : i <= j
    BY DEF hashmap_find_entry
<1>3. CASE chain = <<>>
  <2>1. m = {}
    BY <1>3 DEF Matches
  <2>2. QED
    BY <1>2, <1>3, <2>1
<1>4. CASE chain[1] \in Entry /\ chain = <<chain[1]>> /\ DOMAIN chain = {1}
  <2>1. m = IF IsPrefix(k, chain[1].key) THEN {1} ELSE {}
    BY <1>4 DEF Matches
  <2>2. CASE IsPrefix(k, chain[1].key)
    <3>1. m = {1}
      BY <2>1, <2>2
    <3>2. (CHOOSE i \in {1} : \A j \in {1} : i <= j) = 1
      OBVIOUS
    <3>3. hashmap_find_entry(t, k) = 1
      BY <1>2, <3>1, <3>2
    <3>4. QED
      BY <1>4, <2>2, <3>3
  <2>3. CASE ~IsPrefix(k, chain[1].key)
    BY <1>2, <2>1, <2>3
  <2>4. QED
    BY <2>2, <2>3
<1>5. QED
    BY <1>1, <1>3, <1>4, ChainCases

\* What a set leaves: one entry in the bucket of the key, with the value and
\* the key of the entry updated or the key set; no other bucket changed.
LEMMA SetFacts ==
    ASSUME NEW t \in Table, NEW k \in Keys, NEW v \in Values,
           Len(t.entries[hash(k)]) <= 1
    PROVE  LET chain == t.entries[hash(k)]
               found == hashmap_find_entry(t, k) # 0
               u == hashmap_set(t, k, v)
               e == [key |-> IF found THEN chain[1].key ELSE k, value |-> v]
           IN  /\ u \in Table /\ e \in Entry /\ IsPrefix(k, e.key)
               /\ u.entries = [t.entries EXCEPT ![hash(k)] = <<e>>]
               /\ u.size = IF found THEN t.size ELSE t.size + 1
               /\ found => chain # <<>> /\ chain[1] \in Entry
<1> DEFINE b == hash(k)
           chain == t.entries[b]
           i == hashmap_find_entry(t, k)
           u == hashmap_set(t, k, v)
           new_entry == [key |-> k, value |-> v]
<1>0. b \in Buckets
    BY HashIsBucket
<1>1. CASE i = 0
  <2>1. u = [size |-> t.size + 1,
             entries |-> [t.entries EXCEPT ![b] = <<new_entry>>]]
    BY <1>1 DEF hashmap_set
  <2>2. new_entry \in Entry
    BY DEF Entry
  <2>3. <<new_entry>> \in Seq(Entry)
    BY <2>2
  <2> HIDE DEF b, new_entry
  <2>4. t.size + 1 \in Nat /\ [t.entries EXCEPT ![b] = <<new_entry>>] \in [Buckets -> Seq(Entry)]
    BY <2>3, <1>0 DEF Table
  <2>5. u \in Table
    BY <2>1, <2>4 DEF Table
  <2>6. u.entries = [t.entries EXCEPT ![b] = <<new_entry>>] /\ u.size = t.size + 1
    BY <2>1
  <2>7. IsPrefix(k, k)
    BY OwnPrefix
  <2>8. QED
    BY <1>1, <2>2, <2>5, <2>6, <2>7 DEF new_entry, b
<1>2. CASE i # 0
  <2> DEFINE e == [key |-> chain[1].key, value |-> v]
  <2>1. i = 1 /\ chain[1] \in Entry /\ chain = <<chain[1]>> /\ IsPrefix(k, chain[1].key)
    BY <1>2, FindFacts
  <2>2. u = [t EXCEPT !.entries[b][1].value = v]
    BY <1>2, <2>1 DEF hashmap_set
  <2>3. e \in Entry
    BY <2>1 DEF Entry
  <2>4. [chain[1] EXCEPT !.value = v] = e
    BY <2>1 DEF Entry
  <2>5. [chain EXCEPT ![1].value = v] = <<e>>
    BY <2>1, <2>4
  <2>6. u = [t EXCEPT !.entries = [t.entries EXCEPT ![b] = [t.entries[b] EXCEPT ![1].value = v]]]
    BY <2>2
  <2> HIDE DEF b, e
  <2>7. u = [t EXCEPT !.entries = [t.entries EXCEPT ![b] = <<e>>]]
    BY <2>5, <2>6
  <2>8. [t.entries EXCEPT ![b] = <<e>>] \in [Buckets -> Seq(Entry)]
    BY <2>3, <1>0 DEF Table
  <2>9. u \in Table /\ u.entries = [t.entries EXCEPT ![b] = <<e>>] /\ u.size = t.size
    BY <2>7, <2>8 DEF Table
  <2>10. e.key = chain[1].key
    BY DEF e
  <2>11. QED
    BY <1>2, <2>1, <2>3, <2>9, <2>10 DEF e, b
<1>3. QED
    BY <1>1, <1>2

-----------------------------------------------------------------------------
(* Tables as hashmap_set leaves them.                                      *)

\* At most one entry in a bucket, which is the bucket of its key.
WellFormed(t) ==
    /\ t \in Table
    /\ \A b \in Buckets : Len(t.entries[b]) <= 1
    /\ \A b \in Buckets : \A i \in DOMAIN t.entries[b] :
          hash(t.entries[b][i].key) = b

NoCollisions == \A k \in Keys : Alone(k)

LEMMA CreatedIsWellFormed == WellFormed(hashmap_create)
<1>1. \A b \in Buckets : hashmap_create.entries[b] = <<>>
    BY DEF hashmap_create
<1>2. hashmap_create \in Table
    BY DEF hashmap_create, Table
<1>3. QED
    BY <1>1, <1>2 DEF WellFormed

LEMMA SetIsWellFormed ==
    ASSUME NEW t, WellFormed(t), NEW k \in Keys, NEW v \in Values
    PROVE  WellFormed(hashmap_set(t, k, v))
<1> DEFINE b == hash(k)
           chain == t.entries[b]
           found == hashmap_find_entry(t, k) # 0
           e == [key |-> IF found THEN chain[1].key ELSE k, value |-> v]
           u == hashmap_set(t, k, v)
<1>1. t \in Table /\ b \in Buckets /\ Len(chain) <= 1
    BY HashIsBucket DEF WellFormed
<1>2. /\ u \in Table /\ e \in Entry
      /\ u.entries = [t.entries EXCEPT ![b] = <<e>>]
      /\ found => chain # <<>>
    BY <1>1, SetFacts
<1>3. hash(e.key) = b
  <2>1. CASE found
    <3>1. DOMAIN chain = 1 .. Len(chain) /\ Len(chain) \in Nat /\ chain # <<>>
      BY <1>1, <1>2, <2>1 DEF Table
    <3>2. 1 \in DOMAIN chain
      BY <3>1
    <3>3. QED
      BY <1>1, <2>1, <3>2 DEF WellFormed
  <2>2. CASE ~found
    BY <2>2
  <2>3. QED
    BY <2>1, <2>2
<1> HIDE DEF e, b, u
<1>4. u.entries[b] = <<e>>
      /\ \A c \in Buckets \ {b} : u.entries[c] = t.entries[c]
    BY <1>1, <1>2 DEF Table
<1>5. ASSUME NEW c \in Buckets PROVE Len(u.entries[c]) <= 1
  <2>1. Len(<<e>>) = 1
    OBVIOUS
  <2>2. CASE c = b
    <3>1. Len(u.entries[c]) = 1
      BY <1>4, <2>1, <2>2, Zenon
    <3>2. QED
      BY <3>1
  <2>3. CASE c # b
    BY <1>4, <2>3 DEF WellFormed
  <2>4. QED
    BY <2>2, <2>3
<1>6. \A c \in Buckets : \A i \in DOMAIN u.entries[c] :
          hash(u.entries[c][i].key) = c
    BY <1>3, <1>4 DEF WellFormed
<1>7. QED
    BY <1>2, <1>5, <1>6 DEF WellFormed, u

\* The bucket of a key that is alone in it is empty or has its entry.
LEMMA OnlyOwnEntry ==
    ASSUME NEW t, WellFormed(t), NEW k \in Keys, Alone(k)
    PROVE  LET chain == t.entries[hash(k)]
           IN  \/ chain = <<>>
               \/ chain[1] \in Entry /\ chain[1].key = k /\ chain = <<chain[1]>>
<1> DEFINE chain == t.entries[hash(k)]
<1>1. chain \in Seq(Entry) /\ Len(chain) <= 1 /\ hash(k) \in Buckets
    BY HashIsBucket DEF WellFormed, Table
<1>2. CASE chain = <<>>
    BY <1>2
<1>3. CASE chain[1] \in Entry /\ chain = <<chain[1]>> /\ DOMAIN chain = {1}
  <2>1. hash(chain[1].key) = hash(k) /\ chain[1].key \in Keys
    BY <1>1, <1>3 DEF WellFormed, Entry
  <2>2. chain[1].key = k
    BY <2>1 DEF Alone
  <2>3. QED
    BY <1>3, <2>2
<1>4. QED
    BY <1>1, <1>2, <1>3, ChainCases

\* It is found exactly when the bucket is not empty.
LEMMA FindOwnEntry ==
    ASSUME NEW t, WellFormed(t), NEW k \in Keys, Alone(k)
    PROVE  hashmap_find_entry(t, k)
               = IF t.entries[hash(k)] = <<>> THEN 0 ELSE 1
<1> DEFINE chain == t.entries[hash(k)]
<1>1. t \in Table /\ Len(chain) <= 1
    BY HashIsBucket DEF WellFormed
<1>2. \/ chain = <<>>
      \/ chain[1].key = k /\ chain = <<chain[1]>>
    BY OnlyOwnEntry
<1>3. chain # <<>> => IsPrefix(k, chain[1].key)
    BY <1>2, OwnPrefix
<1>4. QED
    BY <1>1, <1>3, FindFacts

\* A set changes the entry of its key alone.
LEMMA SetOwnEntry ==
    ASSUME NEW t, WellFormed(t), NEW k \in Keys, Alone(k), NEW v \in Values
    PROVE  LET u == hashmap_set(t, k, v)
               e == [key |-> k, value |-> v]
           IN  /\ u.entries = [t.entries EXCEPT ![hash(k)] = <<e>>]
               /\ u.size = IF t.entries[hash(k)] # <<>>
                           THEN t.size ELSE t.size + 1
<1> DEFINE chain == t.entries[hash(k)]
           found == hashmap_find_entry(t, k) # 0
           d == [key |-> IF found THEN chain[1].key ELSE k, value |-> v]
<1>1. t \in Table /\ Len(chain) <= 1
    BY HashIsBucket DEF WellFormed
<1>2. found <=> chain # <<>>
    BY FindOwnEntry
<1>3. (IF found THEN chain[1].key ELSE k) = k
    BY <1>2, OnlyOwnEntry
<1>4. /\ hashmap_set(t, k, v).entries = [t.entries EXCEPT ![hash(k)] = <<d>>]
      /\ hashmap_set(t, k, v).size = IF found THEN t.size ELSE t.size + 1
    BY <1>1, SetFacts
<1>5. d = [key |-> k, value |-> v]
    BY <1>3
<1> HIDE DEF d, found
<1>6. QED
    BY <1>2, <1>4, <1>5
=============================================================================
