SPECIFICATION Spec
CONSTANTS
    HASHMAP_SIZE = 8
    Keys <- AllKeys
    Values = {0, 4}
    MaxEntries = 6
INVARIANTS
    TypeOK
    EveryEntryIsFreed
PROPERTIES
    SetThenFind
    ImplementsMapOfLoneKeys
