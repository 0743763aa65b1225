\* Two ports: a device that was stopped is still registered.
SPECIFICATION Spec
CONSTANTS
    d1 = d1
    d2 = d2
    com1 = com1
    com2 = com2
    None = None
    Devices = {d1, d2}
    Ports = {com1, com2}
    Bauds = {9600}
    Slaves = {1, 2}
    SlaveId <- SlaveIdDistinct
    MaxPos = 3
    MaxLine = 1
INVARIANTS
    StoppedIsSilent
