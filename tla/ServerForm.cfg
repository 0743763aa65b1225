\* A number in holding and input registers, a box for a coil and an
\* input, and the summary of the coils.
SPECIFICATION Spec
CONSTANTS
    NB = 3
    W = 4
    WordBits = 2
    HalfWord = 2
    Summary = 1
    SummaryBits = 3
    MaxReadBits = 3
    MaxReadRegs = 3
    MaxWriteBits = 3
    MaxWriteRegs = 2
    MaxRWWriteRegs = 1
    Widgets = {"box", "number"}
    Registers <- FormRegisters
    Requests <- FormRequests
    Edits <- FormEdits
    None = None
INVARIANTS
    MasterKnows
    ReadsAreRecent
    SummaryIsFresh
    CoilsAreShown
