\* Two ports, two devices: what holds of the registry for any number of ports.
SPECIFICATION Spec
CONSTANTS
    d1 = d1
    d2 = d2
    com1 = com1
    com2 = com2
    None = None
    Devices = {d1, d2}
    Ports = {com1, com2}
    Bauds = {9600, 19200}
    Slaves = {1, 2}
    SlaveId <- SlaveIdDistinct
    MaxPos = 2
    MaxLine = 1
INVARIANTS
    PortsInUse
    WorkingIsServed
