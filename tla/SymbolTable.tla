---------------------------- MODULE SymbolTable ----------------------------
(***************************************************************************)
(* The hash map of the assembler (symbol_table.c).  A table is an array of *)
(* chains of entries and a count of entries; each operator returns what    *)
(* the C function of the same name answers, or the table it leaves.        *)
(***************************************************************************)
EXTENDS Integers, SequencesExt

CONSTANTS
    HASHMAP_SIZE,   \* 1024 in the code
    Keys,           \* strings, sequences of character codes
    Values          \* what is stored: addresses

Buckets == 0 .. HASHMAP_SIZE - 1

hash(key) == FoldLeft(LAMBDA h, c : (h * 31 + c) % HASHMAP_SIZE, 0, key)

ASSUME SizeAssumption == HASHMAP_SIZE \in Nat \ {0}
ASSUME KeysAssumption == Keys \subseteq Seq(1 .. 127)

\* The last step of the loop of hash is a remainder.
ASSUME HashAssumption == \A k \in Keys : hash(k) \in Buckets

Entry == [key : Keys, value : Values]
Table == [size : Nat, entries : [Buckets -> Seq(Entry)]]

hashmap_create == [size |-> 0, entries |-> [b \in Buckets |-> <<>>]]

\* strncmp over the length of the key searched: an entry matches when the
\* key is a prefix of the entry's.
Matches(chain, key) == {i \in DOMAIN chain : IsPrefix(key, chain[i].key)}

\* The first match in the bucket's chain, 0 for NULL.
hashmap_find_entry(table, key) ==
    LET m == Matches(table.entries[hash(key)], key)
    IN  IF m = {} THEN 0 ELSE CHOOSE i \in m : \A j \in m : i <= j

\* A fault of hashmap_set: the bucket of a new entry is that of the first
\* character, as if the length were that of another string.
FirstCharacterHashed(table, key, value) ==
    LET i == hashmap_find_entry(table, key)
        new_entry == [key |-> key, value |-> value]
    IN  IF i # 0
        THEN [table EXCEPT !.entries[hash(key)][i].value = value]
        ELSE [size |-> table.size + 1,
              entries |-> [table.entries EXCEPT
                              ![hash(<<key[1]>>)] = <<new_entry>>]]

\* A fault of hashmap_set: an update counts as a new entry.
UpdateCounted(table, key, value) ==
    LET b == hash(key)
        new_entry == [key |-> key, value |-> value]
    IN  [size |-> table.size + 1,
         entries |-> [table.entries EXCEPT ![b] = <<new_entry>>]]

\* A fault of hashmap_set: an update frees the old entry and does not count
\* the new one.
UpdateUncounted(table, key, value) ==
    LET b == hash(key)
        new_entry == [key |-> key, value |-> value]
    IN  [size |-> IF hashmap_find_entry(table, key) # 0
                  THEN table.size - 1
                  ELSE table.size + 1,
         entries |-> [table.entries EXCEPT ![b] = <<new_entry>>]]

\* A fault of hashmap_set: the value of an entry found is left as it is.
NotUpdated(table, key, value) ==
    LET b == hash(key)
        new_entry == [key |-> key, value |-> value]
    IN  IF hashmap_find_entry(table, key) # 0
        THEN table
        ELSE [size |-> table.size + 1,
              entries |-> [table.entries EXCEPT ![b] = <<new_entry>>]]

\* An entry found gets the value, and keeps its own key.  Otherwise the new
\* entry becomes the head of the bucket and has no successor: entry is NULL
\* there, so the branch that appends to the chain is never taken.
hashmap_set(table, key, value) ==
    LET b == hash(key)
        i == hashmap_find_entry(table, key)
        new_entry == [key |-> key, value |-> value]
    IN  IF i # 0
        THEN [table EXCEPT !.entries[b][i].value = value]
        ELSE [size |-> table.size + 1,
              entries |-> [table.entries EXCEPT ![b] = <<new_entry>>]]

-----------------------------------------------------------------------------
\* No other key has the key's bucket.
Alone(k) == \A j \in Keys : hash(j) = hash(k) => j = k
=============================================================================
