SPECIFICATION Spec
CONSTANTS
    HASHMAP_SIZE = 8
    Keys <- PrefixKeys
    Values = {0, 4}
    MaxEntries = 6
INVARIANTS
    FindsGivenKey
