\* Batches of up to three out of four calls with two keys: a batch may be partial
\* at its deadline, leave calls of its own key and of the other behind, and be
\* requeued in front of both.
SPECIFICATION Spec
CONSTANTS
    Requests = {r1, r2, r3, r4}
    Keys = {k1, k2}
    NoKey = NoKey
    Parallel = 3
    MaxBatch = 3
    MaxLosses = 1
SYMMETRY Symmetry
INVARIANTS TypeOK NoLostWakeup Placement BatchShape
PROPERTIES ServesInOrder
