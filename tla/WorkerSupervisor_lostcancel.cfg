\* One batch whose client hangs up.
SPECIFICATION Spec
CONSTANTS
    BatchJobs = {b1}
    StreamJobs = {}
    Width = 1
    NoJob = NoJob
    Evictor = Evictor
    HoldsForever = TRUE
    MayPanic = FALSE
    MaxCrashes = 0
CHECK_DEADLOCK FALSE
INVARIANTS CancelReachesJob
