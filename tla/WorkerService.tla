--------------------------- MODULE WorkerService ---------------------------
(* What a job may expect of the worker: the outcomes of dispatch_batch and   *)
(* stream_relay, without the mutex, the process, its pipes and the signal.   *)
(* BatchDispatcher assumes these outcomes, WorkerSupervisor implements them. *)
(*                                                                           *)
(* One job is served at a time, by a worker that was started for it or left  *)
(* by an earlier one.  A worker that is well answers.  One that came to harm *)
(* may still answer, may answer with something else, or fails the job and is *)
(* then replaced.  A job that waits fails where no worker can be had, and a  *)
(* stream also where the worker turns out to be harmed; a batch then gets    *)
(* another.  A job is told that it was cancelled only if all the clients of  *)
(* some job hung up.                                                         *)
CONSTANTS
    BatchJobs,  \* batches
    StreamJobs  \* streams

Jobs == BatchJobs \union StreamJobs

VARIABLES
    waiting,    \* jobs that asked for the worker
    serving,    \* the job that has it, as a set
    verdict,    \* verdict[j]: what the clients of j were told
    deserted,   \* jobs whose clients all hung up
    worker      \* the worker: "none", "well" or "harmed"

vars == <<waiting, serving, verdict, deserted, worker>>

Init ==
    /\ waiting = {} /\ serving = {} /\ deserted = {} /\ worker = "none"
    /\ verdict = [j \in Jobs |-> "none"]

Ask(j) ==
    /\ j \notin waiting \union serving /\ verdict[j] = "none"
    /\ waiting' = waiting \union {j}
    /\ UNCHANGED <<serving, verdict, deserted, worker>>

\* The job whose turn it is may use a worker, or have one started.
Turn(j) == serving = {} /\ j \in waiting

Tell(j, v) ==
    /\ waiting' = waiting \ {j}
    /\ serving' = serving \ {j}
    /\ verdict' = [verdict EXCEPT ![j] = v]
    /\ UNCHANGED deserted

Start(j) ==
    /\ Turn(j) /\ worker = "none"
    /\ worker' \in {"well", "harmed"}
    /\ UNCHANGED <<waiting, serving, verdict, deserted>>

NoWorker(j) == Turn(j) /\ worker = "none" /\ Tell(j, "model_missing") /\ UNCHANGED worker

Serve(j) ==
    /\ Turn(j) /\ worker # "none"
    /\ waiting' = waiting \ {j}
    /\ serving' = {j}
    /\ UNCHANGED <<verdict, deserted, worker>>

\* The harm is noticed before the job has the worker.
Retry(j) ==
    /\ Turn(j) /\ j \in BatchJobs
    /\ worker = "harmed" /\ worker' = "none"
    /\ UNCHANGED <<waiting, serving, verdict, deserted>>

StreamRefused(j) ==
    /\ Turn(j) /\ j \in StreamJobs
    /\ worker = "harmed" /\ worker' = "none"
    /\ Tell(j, "worker_exited")

Answer(j) ==
    /\ serving = {j}
    /\ \E v \in {"ok", "failed"} : Tell(j, v)
    /\ UNCHANGED worker

Cancelled(j) ==
    /\ serving = {j} /\ deserted # {}
    /\ Tell(j, "cancelled")
    /\ UNCHANGED worker

Garbled(j) ==
    /\ serving = {j} /\ worker = "harmed"
    /\ Tell(j, "garbled")
    /\ UNCHANGED worker

Fail(j) ==
    /\ serving = {j}
    /\ worker = "harmed" /\ worker' = "none"
    /\ Tell(j, "pipe_error")

\* The clients of a job hang up at any time, a worker comes to harm at any time,
\* and one that nobody uses is evicted.
Desert(j) ==
    /\ deserted' = deserted \union {j}
    /\ UNCHANGED <<waiting, serving, verdict, worker>>

Harm ==
    /\ worker = "well" /\ worker' = "harmed"
    /\ UNCHANGED <<waiting, serving, verdict, deserted>>

Evict ==
    /\ serving = {} /\ worker # "none" /\ worker' = "none"
    /\ UNCHANGED <<waiting, serving, verdict, deserted>>

Next ==
    \/ \E j \in Jobs : \/ Ask(j) \/ Start(j) \/ NoWorker(j) \/ Serve(j)
                       \/ Retry(j) \/ StreamRefused(j) \/ Desert(j)
                       \/ Answer(j) \/ Cancelled(j) \/ Garbled(j) \/ Fail(j)
    \/ Harm \/ Evict

Spec == Init /\ [][Next]_vars

=============================================================================
