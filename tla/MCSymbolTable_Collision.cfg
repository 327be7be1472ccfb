SPECIFICATION Spec
CONSTANTS
    HASHMAP_SIZE = 8
    Keys <- CollidingKeys
    Values = {0, 4}
    MaxEntries = 6
PROPERTIES
    ImplementsMap
