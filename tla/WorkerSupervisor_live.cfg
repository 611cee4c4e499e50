\* A batch of two and a stream behind one mutex, a crash and eviction, no panics.
\* One of two clients may hang up, and a late signal of either job meets the other.
SPECIFICATION FairSpec
CONSTANTS
    BatchJobs = {b1}
    StreamJobs = {s1}
    Width = 2
    NoJob = NoJob
    Evictor = Evictor
    HoldsForever = FALSE
    MayPanic = FALSE
    MaxCrashes = 1
INVARIANTS NoReadFromIdleWorker CancelNeedsDesertion
PROPERTIES EveryJobEnds
