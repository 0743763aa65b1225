\* Masters that send and pause as they like, and masters that wait for the device;
\* or a form of six numbers, an edit among its answers, and the closing of the window.
SPECIFICATION MCSpec
CONSTANTS
    Byte = {"mark", "ok", "start", "cur", "acc", "n1", "n2"}
    Mark = "mark"
    Ok = "ok"
    Current = "cur"
    Accumulate = "acc"
    Name <- DeviceName
    Frames <- TuraFrames
    MaxLine = 3
    MaxSent = 4
    AnySent = 3
    Numbers <- TwoNumbers
    Forms <- SomeForms
    Stack <- SomeStack
    UIntMax = 268435455
    Overflown = {0, 16777215}
    MaxEdits = 1
INVARIANTS
    StoppedIsQuiet
    AnswersAreRecent
    SavedIsShown
PROPERTIES
    StopReturns
    PatientWholeFrames
    PatientAnswered
CHECK_DEADLOCK FALSE
