SPECIFICATION Spec
CONSTANTS
    HeapBytes = 40
    HEADER_SIZE = 4
    HEAP_ALIGNMENT = 2
    SizeSpace = 128
    UInt32Max = 63
    c1 = c1
    c2 = c2
    c3 = c3
    Clients <- MCClients3
    Sizes <- GranuleSizes
    Arrays <- GranuleArrays
SYMMETRY Perms
INVARIANTS
    HeapCheckPasses
    FreeListExact
    LiveBlocksBacked
    PanicsOnMisuseOnly
    NullOnlyWithoutFit
CHECK_DEADLOCK FALSE
