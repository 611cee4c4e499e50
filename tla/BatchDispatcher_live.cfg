\* No symmetry: a liveness property is checked.  --parallel exceeds MAX_BATCH, so
\* that a batch can also be refused.
SPECIFICATION FairSpec
CONSTANTS
    Requests = {r1, r2, r3}
    Keys = {k1, k2}
    NoKey = NoKey
    Parallel = 2
    MaxBatch = 1
    MaxLosses = 1
PROPERTIES EveryCallAnswered
