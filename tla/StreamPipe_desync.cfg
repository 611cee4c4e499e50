\* One stream whose client hangs up.
SPECIFICATION Spec
CONSTANTS
    Streams = {1}
    NoStream = 0
    Chunks <- FewChunks
    PipeCap = 2
    ChanCap = 1
    MaxCrashes = 0
INVARIANTS LeavesPipeInSync
