\* A client that recovers, and a line that loses, delays and damages frames.
SPECIFICATION Spec
CONSTANTS
    NB = 2
    W = 2
    MaxReadBits = 2
    MaxReadRegs = 2
    MaxWriteBits = 2
    MaxWriteRegs = 2
    MaxRWWriteRegs = 2
    Calls <- ApiCalls
    Recovery = {"link", "protocol"}
    Changes = {0, 1}
    MaxFlight = 2
    Bad = Bad
    None = None
INVARIANTS
    OnlyLateTwins
    ReadsAreTrue
    WritesAreDone
PROPERTIES
    CallsReturn
