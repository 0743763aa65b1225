\* Masters that pause and retry as they like, and masters that wait for silence.
SPECIFICATION FairSpec
CONSTANTS
    Frames <- ThreeFrames
    Byte = {0, 1, 2, 3, 5, 7, 16, 17, 80, 81, 82, 83, 84, 85}
    MaxAdu = 14
    MaxLine = 3
    MaxSent = 4
    MaxLost = 12
    AnyLost = 2
CHECK_DEADLOCK FALSE
INVARIANTS
    NoOverrun
    OthersArrive
PROPERTIES
    Resynchronises
