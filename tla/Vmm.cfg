SPECIFICATION Spec
CONSTANTS
    TABLE_ENTRIES = 8
    KERNEL_VIRT_BASE = 4032
    Layouts <- Low
    ClientVirts <- OutsideRam
    DevicePages <- Devices
    MaxSpaces = 1
INVARIANTS TablesFormTree KernelMapComplete CurrentReachesTables TlbCoherent
PROPERTY MapFrame
CHECK_DEADLOCK FALSE
