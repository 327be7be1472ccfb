------------------------ MODULE SymbolTableTheorems ------------------------
(***************************************************************************)
(* The symbol table for every number of buckets and every set of keys: a   *)
(* map when no keys collide, and of the keys with a bucket of their own    *)
(* when others do.                                                         *)
(***************************************************************************)
EXTENDS SymbolTableUse, SymbolTableFacts, FiniteSetTheorems

\* The inductive invariant: an entry is in the bucket of its key, alone.
TableInv == TypeOK /\ WellFormed(table)

LEMMA InitialTable == Init => TableInv
    BY CreatedIsWellFormed DEF Init, TableInv, TypeOK, WellFormed, Calls

LEMMA TableInductive == TableInv /\ [Next]_vars => TableInv'
<1> SUFFICES ASSUME TableInv, [Next]_vars PROVE TableInv'
    OBVIOUS
<1> USE DEF TableInv
<1>1. ASSUME UNCHANGED table, status' \in {"used", "freed", "exited"},
             last' \in Calls
      PROVE  TableInv'
    BY <1>1 DEF TypeOK, WellFormed
<1>2. ASSUME NEW k \in Keys, NEW v \in Values, Set(k, v)
      PROVE  TableInv'
  <2> DEFINE u == hashmap_set(table, k, v)
  <2>1. WellFormed(u)
    BY SetIsWellFormed
  <2>2. table' = u
    BY <1>2 DEF Set
  <2> HIDE DEF u
  <2>3. WellFormed(table')
    BY <2>1, <2>2
  <2>4. TypeOK'
    BY <1>2, <2>3 DEF TypeOK, Set, SetCall, Calls, WellFormed
  <2>5. QED
    BY <2>3, <2>4
<1>3. ASSUME NEW k \in Keys, SetFails(k) PROVE TableInv'
    BY <1>1, <1>3 DEF SetFails, TypeOK
<1>4. ASSUME NEW k \in Keys, Find(k) PROVE TableInv'
  <2> DEFINE chain == table.entries[hash(k)]
             i == hashmap_find_entry(table, k)
             found == IF i = 0 THEN {} ELSE {chain[i]}
  <2>1. table \in Table /\ Len(chain) <= 1
    BY HashIsBucket DEF WellFormed
  <2>2. i = 0 \/ (i = 1 /\ chain[1] \in Entry)
    BY <2>1, FindFacts
  <2>3. found \in SUBSET Entry
    BY <2>2
  <2>4. last' = FindCall(k, found) /\ UNCHANGED <<table, status>>
    BY <1>4 DEF Find
  <2> HIDE DEF found
  <2>5. last' \in Calls
    BY <2>3, <2>4 DEF FindCall, Calls
  <2>6. QED
    BY <1>1, <2>4, <2>5 DEF TypeOK
<1>5. CASE hashmap_free
  <2>1. table' = [table EXCEPT !.entries = [b \in Buckets |-> <<>>]]
    BY <1>5 DEF hashmap_free
  <2> DEFINE none == [b \in Buckets |-> <<>>]
  <2>4. none \in [Buckets -> Seq(Entry)] /\ \A b \in Buckets : none[b] = <<>>
    OBVIOUS
  <2> HIDE DEF none
  <2>2. table' \in Table /\ \A b \in Buckets : table'.entries[b] = <<>>
    BY <2>1, <2>4 DEF TypeOK, Table, none
  <2>3. QED
    BY <1>5, <2>2 DEF hashmap_free, TypeOK, WellFormed, Calls
<1>6. CASE Over \/ UNCHANGED vars
    BY <1>1, <1>6 DEF Over, vars, TypeOK
<1>7. QED
    BY <1>2, <1>3, <1>4, <1>5, <1>6 DEF Next

LEMMA TableInvariant == Spec => []TableInv
    BY InitialTable, TableInductive, PTL DEF Spec

-----------------------------------------------------------------------------
\* Tables, answers and the life of the table are what the types say.
THEOREM TypeCorrect == Spec => []TypeOK
<1>1. TableInv => TypeOK
    BY DEF TableInv
<1>2. QED
    BY <1>1, TableInvariant, PTL

\* A key just set is found with its value (symbol_table.c:63).
THEOREM SetIsFound == Spec => SetThenFind
<1> DEFINE A == \A k \in Keys, v \in Values :
                  Set(k, v) =>
                     LET i == hashmap_find_entry(table', k)
                     IN  i # 0 /\ table'.entries[hash(k)][i].value = v
<1>1. TableInv /\ TableInv' => A
  <2> SUFFICES ASSUME TableInv, TableInv', NEW k \in Keys, NEW v \in Values,
                      Set(k, v)
               PROVE  LET i == hashmap_find_entry(table', k)
                      IN  i # 0 /\ table'.entries[hash(k)][i].value = v
      OBVIOUS
  <2> DEFINE b == hash(k)
             found == hashmap_find_entry(table, k) # 0
             e == [key |-> IF found THEN table.entries[b][1].key ELSE k,
                   value |-> v]
  <2>1. table \in Table /\ b \in Buckets /\ Len(table.entries[b]) <= 1
      BY HashIsBucket DEF TableInv, WellFormed
  <2>2. /\ table' \in Table /\ e \in Entry /\ IsPrefix(k, e.key)
        /\ table'.entries = [table.entries EXCEPT ![b] = <<e>>]
      BY <2>1, SetFacts DEF Set
  <2>3. e.value = v
      OBVIOUS
  <2> HIDE DEF e
  <2>4. table'.entries[b] = <<e>>
      BY <2>1, <2>2 DEF Table
  <2>5. Len(table'.entries[hash(k)]) <= 1
      BY <2>4
  <2> DEFINE u == table'
  <2>6. u \in Table /\ Len(u.entries[hash(k)]) <= 1
        /\ u.entries[hash(k)] # <<>> /\ u.entries[hash(k)][1] = e
      BY <2>2, <2>4, <2>5
  <2> HIDE DEF u
  <2>7. hashmap_find_entry(u, k) = 1
      BY <2>2, <2>6, FindFacts
  <2>8. QED
      BY <2>3, <2>6, <2>7 DEF u
<1>2. QED
    BY <1>1, TableInvariant, PTL DEF Spec, SetThenFind

-----------------------------------------------------------------------------
\* The map read off the heads of the chains.
FilledKeys == {j \in Keys : table.entries[hash(j)] # <<>>}
HeadValue(k) == table.entries[hash(k)][1].value
HeadMap == [k \in FilledKeys |-> HeadValue(k)]

LEMMA LoneEntries ==
    ASSUME TableInv, NEW k \in Keys, Alone(k)
    PROVE  StoredEntries(k) = IF table.entries[hash(k)] = <<>> THEN {}
                              ELSE {table.entries[hash(k)][1]}
<1> DEFINE chain == table.entries[hash(k)]
<1>1. CASE chain = <<>>
  <2>1. ToSet(chain) = {}
    BY <1>1 DEF ToSet
  <2>2. QED
    BY <1>1, <2>1 DEF StoredEntries
<1>2. CASE chain[1] \in Entry /\ chain[1].key = k /\ chain = <<chain[1]>>
  <2> DEFINE e == chain[1]
  <2>1. ToSet(<<e>>) = {e}
    BY DEF ToSet
  <2>2. ToSet(chain) = {e} /\ chain # <<>>
    BY <1>2, <2>1
  <2>3. QED
    BY <1>2, <2>2 DEF StoredEntries
<1>3. QED
  BY <1>1, <1>2, OnlyOwnEntry DEF TableInv

\* Of a key with a bucket of its own the chain's head is what is stored.
LEMMA LoneValue ==
    ASSUME TableInv, NEW k \in Keys, Alone(k)
    PROVE  /\ k \in DOMAIN StoredMap <=> k \in FilledKeys
           /\ k \in FilledKeys => StoredMap[k] = HeadValue(k)
<1>1. k \in DOMAIN StoredMap <=> k \in FilledKeys
  BY LoneEntries DEF StoredMap, FilledKeys
<1>2. ASSUME k \in FilledKeys PROVE StoredMap[k] = HeadValue(k)
  <2>1. StoredEntries(k) = {table.entries[hash(k)][1]}
    BY <1>2, LoneEntries DEF FilledKeys
  <2>2. (CHOOSE e \in StoredEntries(k) : TRUE) = table.entries[hash(k)][1]
    BY <2>1
  <2>3. StoredMap[k] = (CHOOSE e \in StoredEntries(k) : TRUE).value
    BY <2>1 DEF StoredMap
  <2>4. QED
    BY <2>2, <2>3 DEF HeadValue
<1>3. QED
  BY <1>1, <1>2

LEMMA StoredMapIs == TableInv /\ CollisionFree => StoredMap = HeadMap
<1> SUFFICES ASSUME TableInv, CollisionFree
             PROVE  StoredMap = HeadMap
    OBVIOUS
<1>1. \A k \in Keys : Alone(k)
    BY DEF CollisionFree
<1>2. DOMAIN StoredMap \subseteq Keys /\ FilledKeys \subseteq Keys
    BY DEF StoredMap, FilledKeys
<1>3. DOMAIN StoredMap = FilledKeys
    BY <1>1, <1>2, LoneValue
<1>4. \A k \in FilledKeys : StoredMap[k] = HeadValue(k)
    BY <1>1, <1>2, LoneValue
<1>5. StoredMap = [k \in DOMAIN StoredMap |-> StoredMap[k]]
    BY DEF StoredMap
<1>6. QED
    BY <1>3, <1>4, <1>5 DEF HeadMap

LEMMA LoneMappingIs ==
    TableInv => LoneMapping = [k \in FilledKeys \cap LoneKeys |-> HeadValue(k)]
<1> SUFFICES ASSUME TableInv
             PROVE  LoneMapping = [k \in FilledKeys \cap LoneKeys |-> HeadValue(k)]
    OBVIOUS
<1>1. \A k \in LoneKeys : k \in Keys /\ Alone(k)
    BY DEF LoneKeys
<1>2. DOMAIN StoredMap \cap LoneKeys = FilledKeys \cap LoneKeys
    BY <1>1, LoneValue
<1>3. \A k \in FilledKeys \cap LoneKeys : StoredMap[k] = HeadValue(k)
    BY <1>1, LoneValue
<1>4. QED
    BY <1>2, <1>3 DEF LoneMapping

\* Without collisions the map the table stands for changes as a map does.
THEOREM MapIsImplemented ==
    ASSUME CollisionFree
    PROVE  Spec => ImplementsMap
<1>1. Init => Map!Init
  <2> SUFFICES ASSUME Init PROVE Map!Init
    OBVIOUS
  <2>1. TableInv
    BY InitialTable
  <2>2. FilledKeys = {}
    BY HashIsBucket DEF Init, hashmap_create, FilledKeys
  <2>3. StoredMap = [k \in {} |-> 0]
    BY <2>1, <2>2, StoredMapIs DEF HeadMap
  <2>4. LastCall = [call |-> "none"]
    BY DEF Init, LastCall, NoCall
  <2>5. QED
    BY <2>3, <2>4 DEF Map!Init, Map!NoKeys, Map!NoCall
<1>2. TableInv' => StoredMap' = HeadMap'
  <2>1. (TableInv /\ CollisionFree => StoredMap = HeadMap)'
    BY StoredMapIs, PTL
  <2>2. QED
    BY <2>1
<1>3. TableInv /\ TableInv' /\ [Next]_vars => [Map!Next]_(Map!vars)
  <2> SUFFICES ASSUME TableInv, TableInv', [Next]_vars
               PROVE  [Map!Next]_(Map!vars)
    OBVIOUS
  <2>1. /\ StoredMap = [k \in FilledKeys |-> HeadValue(k)]
        /\ StoredMap' = [k \in FilledKeys' |-> HeadValue(k)']
    BY <1>2, StoredMapIs DEF HeadMap
  <2>2. ASSUME UNCHANGED <<table, last>> PROVE UNCHANGED Map!vars
    BY <2>2 DEF Map!vars, StoredMap, StoredEntries, LastCall
  <2>3. ASSUME NEW k \in Keys, NEW v \in Values, Set(k, v)
        PROVE  Map!Set(k, v)
    <3> DEFINE e == [key |-> k, value |-> v]
    <3>1. table'.entries = [table.entries EXCEPT ![hash(k)] = <<e>>]
      BY <2>3, SetOwnEntry DEF Set, TableInv, CollisionFree
    <3>2. table \in Table /\ hash(k) \in Buckets
      BY HashIsBucket DEF TableInv, TypeOK
    <3>3. \A j \in Keys : table'.entries[hash(j)]
                          = IF j = k THEN <<e>> ELSE table.entries[hash(j)]
      BY <3>1, <3>2, HashIsBucket DEF CollisionFree, Alone, Table
    <3>4. <<e>> # <<>> /\ <<e>>[1].value = v
      OBVIOUS
    <3> HIDE DEF e
    <3>5. FilledKeys' = FilledKeys \cup {k}
      BY <3>3, <3>4 DEF FilledKeys
    <3>6. \A j \in Keys : HeadValue(j)' = IF j = k THEN v ELSE HeadValue(j)
      BY <3>3, <3>4 DEF HeadValue
    <3>7. StoredMap' = [j \in FilledKeys \cup {k} |->
                          IF j = k THEN v ELSE HeadValue(j)]
      BY <2>1, <3>5, <3>6 DEF FilledKeys
    <3>8. DOMAIN StoredMap = FilledKeys
          /\ \A j \in FilledKeys : StoredMap[j] = HeadValue(j)
      BY <2>1
    <3>9. StoredMap' = [j \in DOMAIN StoredMap \cup {k} |->
                          IF j = k THEN v ELSE StoredMap[j]]
      BY <3>7, <3>8
    <3>10. LastCall' = [call |-> "set", key |-> k, value |-> v]
      BY <2>3 DEF Set, LastCall, SetCall
    <3>11. QED
      BY <3>9, <3>10 DEF Map!Set, Map!SetCall
  <2>4. ASSUME NEW k \in Keys, Find(k) PROVE Map!Find(k)
    <3> DEFINE chain == table.entries[hash(k)]
               i == hashmap_find_entry(table, k)
               found == IF i = 0 THEN {} ELSE {chain[i]}
    <3>1. last' = FindCall(k, found) /\ UNCHANGED table
      BY <2>4 DEF Find
    <3>2. table \in Table /\ Len(chain) <= 1
      BY HashIsBucket DEF TableInv, WellFormed
    <3>3. \/ chain = <<>>
          \/ chain[1].key = k /\ chain = <<chain[1]>>
      BY OnlyOwnEntry DEF TableInv, CollisionFree
    <3>4. i = IF chain = <<>> THEN 0 ELSE 1
      <4>1. chain # <<>> => IsPrefix(k, chain[1].key)
        BY <3>3, OwnPrefix
      <4>2. QED
        BY <3>2, <4>1, FindFacts
    <3>5. {e.value : e \in found} = IF k \in FilledKeys THEN {HeadValue(k)} ELSE {}
      BY <3>4 DEF FilledKeys, HeadValue
    <3>6. {e.value : e \in found}
              = IF k \in DOMAIN StoredMap THEN {StoredMap[k]} ELSE {}
      BY <2>1, <3>5
    <3> HIDE DEF found
    <3>7. LastCall' = [call |-> "find", key |-> k,
                       found |-> {e.value : e \in found}]
      BY <3>1 DEF LastCall, FindCall
    <3>8. StoredMap' = StoredMap
      BY <3>1 DEF StoredMap, StoredEntries
    <3>9. QED
      BY <3>6, <3>7, <3>8 DEF Map!Find, Map!FindCall
  <2>5. CASE hashmap_free
    <3>1. table' = [table EXCEPT !.entries = [b \in Buckets |-> <<>>]]
          /\ last' = NoCall
      BY <2>5 DEF hashmap_free
    <3>2. \A b \in Buckets : table'.entries[b] = <<>>
      BY <3>1 DEF TableInv, TypeOK, Table
    <3>3. FilledKeys' = {}
      BY <3>2, HashIsBucket DEF FilledKeys
    <3>4. StoredMap' = [k \in {} |-> 0]
      BY <2>1, <3>3
    <3>5. LastCall' = [call |-> "none"]
      BY <3>1 DEF LastCall, NoCall
    <3>6. Map!Free
      BY <3>4, <3>5 DEF Map!Free, Map!NoKeys, Map!NoCall
    <3>7. QED
      BY <3>6 DEF Map!Next
  <2>6. ASSUME NEW k \in Keys, SetFails(k) PROVE UNCHANGED Map!vars
    BY <2>2, <2>6 DEF SetFails
  <2>7. CASE Over \/ UNCHANGED vars
    BY <2>2, <2>7 DEF Over, vars
  <2>8. QED
    BY <2>3, <2>4, <2>5, <2>6, <2>7 DEF Next, Map!Next
<1>4. QED
    BY <1>1, <1>3, TableInvariant, PTL DEF Spec, ImplementsMap, Map!Spec

\* With collisions the keys that have a bucket of their own still live in a
\* map (symbol_table.c:48,82): no sequence of calls about other keys takes
\* such a key's value, changes it or answers it for another.
THEOREM LoneKeysAreMapped == Spec => ImplementsMapOfLoneKeys
<1>0. \A k \in LoneKeys : k \in Keys /\ Alone(k)
    BY DEF LoneKeys
<1>1. Init => LoneMap!Init
  <2> SUFFICES ASSUME Init PROVE LoneMap!Init
    OBVIOUS
  <2>1. TableInv
    BY InitialTable
  <2>2. FilledKeys = {}
    BY HashIsBucket DEF Init, hashmap_create, FilledKeys
  <2>3. LoneMapping = [k \in {} |-> 0]
    BY <2>1, <2>2, LoneMappingIs
  <2>4. LoneCall = [call |-> "none"]
    BY DEF Init, LoneCall, LastCall, NoCall
  <2>5. QED
    BY <2>3, <2>4 DEF LoneMap!Init, LoneMap!NoKeys, LoneMap!NoCall
<1>2. TableInv' => LoneMapping' = [k \in FilledKeys' \cap LoneKeys |-> HeadValue(k)']
  <2>1. (TableInv => LoneMapping = [k \in FilledKeys \cap LoneKeys |-> HeadValue(k)])'
    BY LoneMappingIs, PTL
  <2>2. LoneKeys' = LoneKeys
    BY DEF LoneKeys, Alone
  <2>3. QED
    BY <2>1, <2>2
<1>3. TableInv /\ TableInv' /\ [Next]_vars => [LoneMap!Next]_(LoneMap!vars)
  <2> SUFFICES ASSUME TableInv, TableInv', [Next]_vars
               PROVE  [LoneMap!Next]_(LoneMap!vars)
    OBVIOUS
  <2> DEFINE F == FilledKeys \cap LoneKeys
  <2>1. /\ LoneMapping = [k \in F |-> HeadValue(k)]
        /\ LoneMapping' = [k \in FilledKeys' \cap LoneKeys |-> HeadValue(k)']
    BY <1>2, LoneMappingIs
  <2>2. ASSUME UNCHANGED <<table, last>> PROVE UNCHANGED LoneMap!vars
    BY <2>2 DEF LoneMap!vars, LoneMapping, StoredMap, StoredEntries, LoneCall, LastCall
  \* A set of such a key sets it in the map, and it alone.
  <2>3. ASSUME NEW k \in LoneKeys, NEW v \in Values, Set(k, v)
        PROVE  LoneMap!Set(k, v)
    <3> DEFINE e == [key |-> k, value |-> v]
    <3>0. k \in Keys /\ Alone(k)
      BY <1>0
    <3>1. table'.entries = [table.entries EXCEPT ![hash(k)] = <<e>>]
      BY <2>3, <3>0, SetOwnEntry DEF Set, TableInv
    <3>2. table \in Table /\ hash(k) \in Buckets
      BY <3>0, HashIsBucket DEF TableInv, TypeOK
    <3>3. \A j \in Keys : table'.entries[hash(j)]
                          = IF j = k THEN <<e>> ELSE table.entries[hash(j)]
      BY <3>0, <3>1, <3>2, HashIsBucket DEF Alone, Table
    <3>4. <<e>> # <<>> /\ <<e>>[1].value = v
      OBVIOUS
    <3> HIDE DEF e
    <3>5. FilledKeys' = FilledKeys \cup {k}
      BY <3>0, <3>3, <3>4 DEF FilledKeys
    <3>6. \A j \in Keys : HeadValue(j)' = IF j = k THEN v ELSE HeadValue(j)
      BY <3>3, <3>4 DEF HeadValue
    <3>7. LoneMapping' = [j \in F \cup {k} |-> IF j = k THEN v ELSE HeadValue(j)]
      <4>1. FilledKeys' \cap LoneKeys = F \cup {k}
        BY <3>5
      <4>2. \A j \in F \cup {k} : j \in Keys
        BY <1>0
      <4>3. QED
        BY <2>1, <3>6, <4>1, <4>2
    <3>8. DOMAIN LoneMapping = F /\ \A j \in F : LoneMapping[j] = HeadValue(j)
      BY <2>1
    <3>9. LoneMapping' = [j \in DOMAIN LoneMapping \cup {k} |->
                            IF j = k THEN v ELSE LoneMapping[j]]
      BY <3>7, <3>8
    <3>10. last' = [call |-> "set", key |-> k, value |-> v] /\ k \in LoneKeys'
      BY <2>3 DEF Set, SetCall, LoneKeys, Alone
    <3>11. LoneCall' = [call |-> "set", key |-> k, value |-> v]
      BY <3>10 DEF LoneCall, LastCall
    <3>12. QED
      BY <3>9, <3>11 DEF LoneMap!Set, LoneMap!SetCall
  \* A set of another key touches none of their buckets.
  <2>4. ASSUME NEW k \in Keys \ LoneKeys, NEW v \in Values, Set(k, v)
        PROVE  LoneMap!Other
    <3>1. table \in Table /\ hash(k) \in Buckets /\ Len(table.entries[hash(k)]) <= 1
      BY HashIsBucket DEF TableInv, WellFormed
    <3> DEFINE c == [key |-> IF hashmap_find_entry(table, k) # 0
                             THEN table.entries[hash(k)][1].key ELSE k,
                     value |-> v]
    <3>11. /\ c \in Entry
          /\ table'.entries = [table.entries EXCEPT ![hash(k)] = <<c>>]
      BY <2>4, <3>1, SetFacts DEF Set
    <3> HIDE DEF c
    <3>2. PICK e \in Entry :
              table'.entries = [table.entries EXCEPT ![hash(k)] = <<e>>]
      BY <3>11
    <3>3. \A j \in LoneKeys : hash(j) \in Buckets /\ hash(j) # hash(k)
      BY <1>0, HashIsBucket DEF Alone
    <3>4. \A j \in LoneKeys : table'.entries[hash(j)] = table.entries[hash(j)]
      BY <3>1, <3>2, <3>3 DEF Table
    <3>5. FilledKeys' \cap LoneKeys = F
          /\ \A j \in LoneKeys : HeadValue(j)' = HeadValue(j)
      BY <1>0, <3>4 DEF FilledKeys, HeadValue
    <3>6. LoneMapping' = LoneMapping
      BY <2>1, <3>5
    <3>7. last' = [call |-> "set", key |-> k, value |-> v] /\ k \notin LoneKeys'
      BY <2>4 DEF Set, SetCall, LoneKeys, Alone
    <3>8. LoneCall' = [call |-> "other"]
      BY <3>7 DEF LoneCall
    <3>9. QED
      BY <3>6, <3>8 DEF LoneMap!Other, LoneMap!OtherCall
  <2>5. ASSUME NEW k \in LoneKeys, Find(k) PROVE LoneMap!Find(k)
    <3> DEFINE chain == table.entries[hash(k)]
               i == hashmap_find_entry(table, k)
               found == IF i = 0 THEN {} ELSE {chain[i]}
    <3>0. k \in Keys /\ Alone(k)
      BY <1>0
    <3>1. last' = FindCall(k, found) /\ UNCHANGED table
      BY <2>5 DEF Find
    <3>2. i = IF chain = <<>> THEN 0 ELSE 1
      BY <3>0, FindOwnEntry DEF TableInv
    <3>3. {e.value : e \in found} = IF k \in F THEN {HeadValue(k)} ELSE {}
      BY <3>0, <3>2 DEF FilledKeys, HeadValue
    <3>4. {e.value : e \in found}
              = IF k \in DOMAIN LoneMapping THEN {LoneMapping[k]} ELSE {}
      BY <2>1, <3>3
    <3> HIDE DEF found
    <3>5. last'.call = "find" /\ last'.key = k /\ last'.found = found
          /\ k \in LoneKeys'
      BY <3>1 DEF FindCall, LoneKeys, Alone
    <3>6. LoneCall' = [call |-> "find", key |-> k,
                       found |-> {e.value : e \in found}]
      BY <3>5 DEF LoneCall, LastCall, FindCall
    <3>7. LoneMapping' = LoneMapping
      BY <3>1 DEF LoneMapping, StoredMap, StoredEntries
    <3>8. QED
      BY <3>4, <3>6, <3>7 DEF LoneMap!Find, LoneMap!FindCall
  <2>6. ASSUME NEW k \in Keys \ LoneKeys, Find(k) PROVE LoneMap!Other
    <3>1. last'.call = "find" /\ last'.key = k /\ UNCHANGED table
          /\ k \notin LoneKeys'
      BY <2>6 DEF Find, FindCall, LoneKeys, Alone
    <3>2. LoneCall' = [call |-> "other"]
      BY <3>1 DEF LoneCall
    <3>3. LoneMapping' = LoneMapping
      BY <3>1 DEF LoneMapping, StoredMap, StoredEntries
    <3>4. QED
      BY <3>2, <3>3 DEF LoneMap!Other, LoneMap!OtherCall
  <2>7. CASE hashmap_free
    <3>1. table' = [table EXCEPT !.entries = [b \in Buckets |-> <<>>]]
          /\ last' = NoCall
      BY <2>7 DEF hashmap_free
    <3>2. \A b \in Buckets : table'.entries[b] = <<>>
      BY <3>1 DEF TableInv, TypeOK, Table
    <3>3. FilledKeys' = {}
      BY <3>2, HashIsBucket DEF FilledKeys
    <3>4. LoneMapping' = [k \in {} |-> 0]
      BY <2>1, <3>3
    <3>5. LoneCall' = [call |-> "none"]
      BY <3>1 DEF LoneCall, LastCall, NoCall
    <3>6. LoneMap!Free
      BY <3>4, <3>5 DEF LoneMap!Free, LoneMap!NoKeys, LoneMap!NoCall
    <3>7. QED
      BY <3>6 DEF LoneMap!Next
  <2>8. ASSUME NEW k \in Keys, SetFails(k) PROVE UNCHANGED LoneMap!vars
    BY <2>2, <2>8 DEF SetFails
  <2>9. CASE Over \/ UNCHANGED vars
    BY <2>2, <2>9 DEF Over, vars
  <2>10. ASSUME NEW k \in Keys, NEW v \in Values, Set(k, v)
         PROVE  LoneMap!Next
    BY <2>3, <2>4, <2>10 DEF LoneMap!Next
  <2>11. ASSUME NEW k \in Keys, Find(k) PROVE LoneMap!Next
    BY <2>5, <2>6, <2>11 DEF LoneMap!Next
  <2>12. QED
    BY <2>7, <2>8, <2>9, <2>10, <2>11 DEF Next
<1>4. QED
    BY <1>1, <1>3, TableInvariant, PTL
       DEF Spec, ImplementsMapOfLoneKeys, LoneMap!Spec

-----------------------------------------------------------------------------
\* The count is the number of buckets with an entry, as long as no entry
\* could have taken the place of another.
LEMMA OccupiedIsFinite == IsFiniteSet(Occupied)
<1>1. IsFiniteSet(0 .. HASHMAP_SIZE - 1)
    BY SizeAssumption, FS_Interval
<1>2. QED
    BY <1>1, FS_Subset DEF Occupied, Buckets

\* If no key collides after a set, the key set does not, and none did before.
LEMMA NoneCollided ==
    ASSUME TableInv, TableInv', NoneCollides',
           NEW k \in Keys, NEW v \in Values, Set(k, v)
    PROVE  Alone(k) /\ NoneCollides
<1> DEFINE b == hash(k)
           e == [key |-> IF hashmap_find_entry(table, k) # 0
                         THEN table.entries[b][1].key ELSE k,
                 value |-> v]
<1>1. table \in Table /\ b \in Buckets /\ Len(table.entries[b]) <= 1
    BY HashIsBucket DEF TableInv, WellFormed
<1>2. /\ e \in Entry
      /\ table'.entries = [table.entries EXCEPT ![b] = <<e>>]
    BY <1>1, SetFacts DEF Set
<1> HIDE DEF e
<1>3. /\ table'.entries[b] = <<e>>
      /\ \A c \in Buckets \ {b} : table'.entries[c] = table.entries[c]
    BY <1>1, <1>2 DEF Table
<1>4. 1 \in DOMAIN table'.entries[b] /\ table'.entries[b][1] = e
    BY <1>3
<1>5. hash(e.key) = b /\ Alone(e.key) /\ e.key \in Keys
    BY <1>1, <1>2, <1>4 DEF TableInv, WellFormed, NoneCollides, Entry
<1>6. Alone(k)
  <2>1. k = e.key
    BY <1>5 DEF Alone
  <2>2. QED
    BY <1>5, <2>1
<1>7. ASSUME NEW c \in Buckets, NEW i \in DOMAIN table.entries[c]
      PROVE  Alone(table.entries[c][i].key)
  <2>1. CASE c = b
    <3> DEFINE chain == table.entries[c]
    <3>1. chain \in Seq(Entry) /\ i \in DOMAIN chain
      BY <1>1, <1>7 DEF Table
    <3>2. table.entries[c][i].key \in Keys
      <4> HIDE DEF chain
      <4>1. chain[i] \in Entry
        BY <3>1
      <4>2. QED
        BY <4>1 DEF Entry, chain
    <3>3. hash(table.entries[c][i].key) = c
      BY <1>7 DEF TableInv, WellFormed
    <3>4. table.entries[c][i].key = k
      BY <1>6, <2>1, <3>2, <3>3 DEF Alone
    <3>5. QED
      BY <1>6, <3>4
  <2>2. CASE c # b
    BY <1>3, <1>7, <2>2 DEF NoneCollides
  <2>3. QED
    BY <2>1, <2>2
<1>8. QED
    BY <1>6, <1>7 DEF NoneCollides

\* EveryEntryIsFreed (symbol_table.c:89,97-109), for any keys: as long as no
\* key in the table collides, size counts the entries hashmap_free reaches.
THEOREM EveryEntryIsFreedHolds == Spec => []EveryEntryIsFreed
<1>1. Init => EveryEntryIsFreed
  <2> SUFFICES ASSUME Init PROVE EveryEntryIsFreed
    OBVIOUS
  <2>1. table.size = 0 /\ Occupied = {}
    BY DEF Init, hashmap_create, Occupied
  <2>2. QED
    BY <2>1, FS_EmptySet DEF EveryEntryIsFreed
<1>2. TableInv /\ TableInv' /\ EveryEntryIsFreed /\ [Next]_vars
          => EveryEntryIsFreed'
  <2> SUFFICES ASSUME TableInv, TableInv', EveryEntryIsFreed, [Next]_vars,
                      NoneCollides', status' = "used"
               PROVE  table'.size = Cardinality(Occupied')
    BY DEF EveryEntryIsFreed
  <2>1. ASSUME UNCHANGED <<table, status>>
        PROVE  table'.size = Cardinality(Occupied')
    BY <2>1 DEF EveryEntryIsFreed, Occupied, NoneCollides
  <2>2. ASSUME NEW k \in Keys, NEW v \in Values, Set(k, v)
        PROVE  table'.size = Cardinality(Occupied')
    <3> DEFINE b == hash(k)
               e == [key |-> k, value |-> v]
    <3>1. Alone(k) /\ NoneCollides
      BY <2>2, NoneCollided
    <3>2. /\ table'.entries = [table.entries EXCEPT ![b] = <<e>>]
          /\ table'.size = IF table.entries[b] # <<>>
                           THEN table.size ELSE table.size + 1
      BY <2>2, <3>1, SetOwnEntry DEF Set, TableInv
    <3>3. table \in Table /\ b \in Buckets
      BY HashIsBucket DEF TableInv, TypeOK
    <3>4. <<e>> # <<>>
      OBVIOUS
    <3> HIDE DEF b, e
    <3>5. Occupied' = Occupied \cup {b}
      BY <3>2, <3>3, <3>4 DEF Occupied, Table
    <3>6. table.size = Cardinality(Occupied)
      BY <2>2, <3>1 DEF EveryEntryIsFreed, Set
    <3>7. b \in Occupied <=> table.entries[b] # <<>>
      BY <3>3 DEF Occupied
    <3>8. Cardinality(Occupied') = IF b \in Occupied
                                   THEN Cardinality(Occupied)
                                   ELSE Cardinality(Occupied) + 1
      BY <3>5, OccupiedIsFinite, FS_AddElement
    <3>9. QED
      BY <3>2, <3>6, <3>7, <3>8
  <2>3. ASSUME NEW k \in Keys, SetFails(k) PROVE FALSE
    BY <2>3 DEF SetFails
  <2>4. ASSUME NEW k \in Keys, Find(k) PROVE UNCHANGED <<table, status>>
    BY <2>4 DEF Find
  <2>5. CASE hashmap_free
    BY <2>5 DEF hashmap_free
  <2>6. ASSUME Over \/ UNCHANGED vars PROVE UNCHANGED <<table, status>>
    BY <2>6 DEF Over, vars
  <2>7. QED
    BY <2>1, <2>2, <2>3, <2>4, <2>5, <2>6 DEF Next
<1>3. QED
    BY <1>1, <1>2, TableInvariant, PTL DEF Spec
=============================================================================
