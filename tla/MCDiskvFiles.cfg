SPECIFICATION Spec
CONSTANTS
    long = long
    Shards = {s1}
    Keys = {k1, k2, long}
    Contents = {a, b}
    KeyLen <- Lengths
    NameMax = 255
SYMMETRY Symmetry
INVARIANTS
    OldOrNew
PROPERTIES
    ImplementsStore
    ReplaceComplete
