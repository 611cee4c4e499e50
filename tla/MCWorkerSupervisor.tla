------------------------- MODULE MCWorkerSupervisor ------------------------
(* Instances of WorkerSupervisor for TLC.                                    *)
EXTENDS WorkerSupervisor, TLC

\* Batches differ only in when they are submitted.
Symmetry == Permutations(BatchJobs)

=============================================================================
