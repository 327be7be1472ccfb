--------------------------- MODULE SymbolTableUse ---------------------------
(***************************************************************************)
(* A symbol table in use: any sequence of calls of hashmap_set and         *)
(* hashmap_find_entry on the table of hashmap_create, and hashmap_free at  *)
(* the end, as the assembler (utils.c:137, assemble_branch.c:23,           *)
(* assemble_dt.c:90) and test.c make them.                                 *)
(***************************************************************************)
EXTENDS SymbolTable

CONSTANT MaxEntries     \* how many entries the heap has room for

ASSUME HeapAssumption == MaxEntries \in Nat

VARIABLES
    table,
    status,     \* "used", "freed", or "exited" when strdup fails
    last        \* the last call, of a look-up with the entries it found

vars == <<table, status, last>>

NoCall == [call |-> "none"]
SetCall(k, v) == [call |-> "set", key |-> k, value |-> v]
FindCall(k, found) == [call |-> "find", key |-> k, found |-> found]

Calls ==
    {NoCall}
        \cup [call : {"set"}, key : Keys, value : Values]
        \cup [call : {"find"}, key : Keys, found : SUBSET Entry]

TypeOK ==
    /\ table \in Table
    /\ status \in {"used", "freed", "exited"}
    /\ last \in Calls

Init == table = hashmap_create /\ status = "used" /\ last = NoCall

IsStored(k) == hashmap_find_entry(table, k) # 0

Set(k, v) ==
    /\ status = "used"
    /\ IsStored(k) \/ table.size < MaxEntries
    /\ table' = hashmap_set(table, k, v)
    /\ last' = SetCall(k, v)
    /\ UNCHANGED status

\* No memory for the key of a new entry: the process exits.
SetFails(k) ==
    /\ status = "used"
    /\ ~IsStored(k)
    /\ status' = "exited"
    /\ UNCHANGED <<table, last>>

Find(k) ==
    /\ status = "used"
    /\ LET i == hashmap_find_entry(table, k)
       IN  last' = FindCall(k, IF i = 0 THEN {}
                               ELSE {table.entries[hash(k)][i]})
    /\ UNCHANGED <<table, status>>

\* Every chain is freed.
hashmap_free ==
    /\ status = "used"
    /\ table' = [table EXCEPT !.entries = [b \in Buckets |-> <<>>]]
    /\ status' = "freed"
    /\ last' = NoCall

\* The table is not used any more.
Over == status # "used" /\ UNCHANGED vars

Next ==
    \/ \E k \in Keys, v \in Values : Set(k, v)
    \/ \E k \in Keys : SetFails(k) \/ Find(k)
    \/ hashmap_free
    \/ Over

Spec == Init /\ [][Next]_vars

-----------------------------------------------------------------------------
\* No two keys in use hash to the same bucket.
CollisionFree == \A k \in Keys : Alone(k)

\* A look-up right after a set of the same key (symbol_table.c:63) answers
\* the value set, colliding keys and prefixes included.
SetThenFind ==
    [][\A k \in Keys, v \in Values :
          Set(k, v) =>
             LET i == hashmap_find_entry(table', k)
             IN  i # 0 /\ table'.entries[hash(k)][i].value = v]_vars

\* hashmap_free (symbol_table.c:97) reaches every entry that was allocated,
\* as long as no key in the table collides with another: size counts the
\* allocations, the chains hold the entries that are freed.  An entry is lost
\* only to one with which it collides, and that one tells of it ever after.
Occupied == {b \in Buckets : table.entries[b] # <<>>}
NoneCollides ==
    \A b \in Buckets : \A i \in DOMAIN table.entries[b] :
        Alone(table.entries[b][i].key)

EveryEntryIsFreed ==
    NoneCollides /\ status = "used" => table.size = Cardinality(Occupied)

\* "the entry with the given key, or NULL" (symbol_table.c:41).
FindsGivenKey ==
    last.call = "find" => \A e \in last.found : e.key = last.key

-----------------------------------------------------------------------------
\* The table is a map: the value of a key is that of the entry with the key.
StoredEntries(k) ==
    {e \in ToSet(table.entries[hash(k)]) : e.key = k}

StoredMap ==
    [k \in {j \in Keys : StoredEntries(j) # {}} |->
        (CHOOSE e \in StoredEntries(k) : TRUE).value]

LastCall ==
    IF last.call = "find"
    THEN FindCall(last.key, {e.value : e \in last.found})
    ELSE last

Map == INSTANCE SymbolMap WITH map <- StoredMap, last <- LastCall

\* The hash map implements the map of the report (Report.tex:57): a set
\* changes one key, a look-up answers the value last set.
ImplementsMap == Map!Spec

\* What is left of that map: the keys with a bucket of their own.
LoneKeys == {k \in Keys : Alone(k)}
LoneMapping == [k \in DOMAIN StoredMap \cap LoneKeys |-> StoredMap[k]]
LoneCall == IF last.call # "none" /\ last.key \notin LoneKeys
            THEN [call |-> "other"]
            ELSE LastCall

LoneMap == INSTANCE SymbolMap
               WITH Keys <- LoneKeys, map <- LoneMapping, last <- LoneCall

\* Whatever the other keys do to one another, those that collide and those
\* that are prefixes (symbol_table.c:48,82), the keys with a bucket of their
\* own live in a map: what such a key was last set to is never lost, changed
\* or found under another, in any sequence of calls.
ImplementsMapOfLoneKeys == LoneMap!Spec
=============================================================================
