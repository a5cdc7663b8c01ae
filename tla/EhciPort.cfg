SPECIFICATION PortSpec
CONSTANTS
    NumPorts = 2
    MaxDevices = 3
    HighSpeed = {1, 3}
INVARIANT TransferTargetWasReset
PROPERTY ResetReportTrue
