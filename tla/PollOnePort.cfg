\* One port, two devices with the same slave address, two baud rates.
SPECIFICATION FairSpec
CONSTANTS
    d1 = d1
    d2 = d2
    com1 = com1
    com2 = com2
    None = None
    Devices = {d1, d2}
    Ports = {com1}
    Bauds = {9600, 19200}
    Slaves = {1, 2}
    SlaveId <- SlaveIdShared
    MaxPos = 3
    MaxLine = 1
INVARIANTS
    StoppedIsSilent
    NoDanglingDevice
PROPERTIES
    RegistryStable
    SettlesDown
    SwitchesAsPromised
