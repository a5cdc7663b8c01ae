SPECIFICATION Spec
CONSTANTS
    Boots <- MCBoots
    Counts <- MCCounts
    LowPage <- MCLowPage
    PageSpace = 64
    BigRegion = 2
    MaxRegions = 4
    BitmapBytes = 1
INVARIANTS TypeOK FreeCountExact ManagedPartition NullOnlyWithoutRun
CHECK_DEADLOCK FALSE
