\* A client that opens, closes, starts, stops and reads as it likes.
SPECIFICATION FairSpec
CONSTANTS
    Threads = {"t1", "t2"}
    None = "none"
INVARIANTS
    OneListener
    HandlesHeld
PROPERTIES
    Reported
    StopReturnsInTraffic
