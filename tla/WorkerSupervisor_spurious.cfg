\* Two batches of one, one after the other.
SPECIFICATION Spec
CONSTANTS
    BatchJobs = {b1, b2}
    StreamJobs = {}
    Width = 1
    NoJob = NoJob
    Evictor = Evictor
    HoldsForever = TRUE
    MayPanic = FALSE
    MaxCrashes = 0
CHECK_DEADLOCK FALSE
INVARIANTS CancelOnlyDeserted
