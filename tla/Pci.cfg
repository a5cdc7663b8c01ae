SPECIFICATION PciSpec
CONSTANTS
    Machines <- MCMachines
    Bars <- MCBars
    LastBus = 2
    LastDev = 1
    LastFunc = 1
    LastFallback = 2
    PCI_MAX_DEVICES = 5
    BarSpace = 256
    PageSize = 64
INVARIANTS  WindowMapped
PROPERTY ScanEnds
CHECK_DEADLOCK FALSE
