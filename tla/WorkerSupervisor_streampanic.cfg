\* One stream whose synthesis panics.
SPECIFICATION Spec
CONSTANTS
    BatchJobs = {}
    StreamJobs = {s1}
    Width = 1
    NoJob = NoJob
    Evictor = Evictor
    HoldsForever = TRUE
    MayPanic = TRUE
    MaxCrashes = 0
CHECK_DEADLOCK FALSE
INVARIANTS NoReadFromIdleWorker
