\* Two batches and a stream, panics, a crash and eviction: a torn pipe is met by both
\* kinds of job.  A stream whose synthesis panics stops the system, and so does a
\* read from a torn pipe: deadlock is not checked.
SPECIFICATION Spec
CONSTANTS
    BatchJobs = {b1, b2}
    StreamJobs = {s1}
    Width = 1
    NoJob = NoJob
    Evictor = Evictor
    HoldsForever = FALSE
    MayPanic = TRUE
    MaxCrashes = 1
SYMMETRY Symmetry
CHECK_DEADLOCK FALSE
INVARIANTS TypeOK PipesInSync WorkerHeld OneWorker CancelNeedsDesertion
PROPERTIES JobsAsPromised
