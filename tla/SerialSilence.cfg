\* A line on which nothing more arrives.
SPECIFICATION FairSpec
CONSTANTS
    Threads = {"t1", "t2"}
    None = "none"
PROPERTIES
    StopAlwaysReturns
