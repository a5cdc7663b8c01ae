SPECIFICATION Spec
CONSTANTS
    Elfs <- MCElfs
    PageSize = 4
    MapSizes = {3, 4, 5, 6, 7}
    MaxChanges = 3
INVARIANTS ReadFileCleansUp ImageLoaded MapFitsBuffer KernelSeesFinalMap
CHECK_DEADLOCK FALSE
