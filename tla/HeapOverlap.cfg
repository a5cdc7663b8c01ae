SPECIFICATION Spec
CONSTANTS
    HeapBytes = 32
    HEADER_SIZE = 4
    HEAP_ALIGNMENT = 2
    SizeSpace = 128
    UInt32Max = 63
    c1 = c1
    c2 = c2
    c3 = c3
    Clients <- MCClients2
    Sizes <- MixedSizes
    Arrays <- NoArrays
SYMMETRY Perms
INVARIANT LiveBytesDisjoint
CHECK_DEADLOCK FALSE
