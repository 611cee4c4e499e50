----------------------- MODULE WorkerSupervisorProofs ----------------------
(* Proofs about WorkerSupervisor for every set of batches and streams, every *)
(* batch width and bound on crashes, with and without panics and eviction.   *)
EXTENDS WorkerSupervisor, SequenceItems, TLAPS

-----------------------------------------------------------------------------
(* The inductive invariant.                                                  *)

\* Where a task that holds the mutex works on the worker.
Owning == {"spawn", "write", "read"}
Spawning == \E j \in Jobs : jpc[j] = "spawn"

\* The mutex: who waits in its queue, and who must be first in it.
Mutex ==
    /\ IsInjective(lockq)
    /\ \A j \in Jobs : j \in ToSet(lockq) <=> jpc[j] \in {"lock"} \union Owning
    /\ Evictor \in ToSet(lockq) <=> evictor # "sleep"
    /\ \A j \in Jobs : jpc[j] \in Owning => Holds(j)
    /\ evictor = "closing" => Holds(Evictor)

\* Inner::state and the process: who answers for a process at each moment.
Ownership ==
    /\ handle => wk.proc \in {"up", "dead"} /\ wk.open
    /\ \A j \in Jobs : jpc[j] = "spawn" => ~handle /\ wk.open
    /\ \A j \in Jobs : jpc[j] \in {"write", "read"} => handle
    /\ evictor = "closing" => ~handle
    /\ wk.proc # "none" => handle \/ Spawning \/ evictor = "closing"
    /\ wk.proc = "loading" => Spawning

\* The worker's main task: it has a job exactly between reading its request and
\* the last message about it, and only a process that loaded its model has a
\* main task.
MainTask ==
    /\ wk.proc \in {"none", "loading"} => wk.stdout = <<>>
    /\ wk.proc # "up" => /\ wk.pc = "idle" /\ wk.slot = NoJob
                         /\ ~wk.signal /\ wk.stdin = <<>>
    /\ wk.pc \in {"read", "running"} <=> wk.job # NoJob
    /\ wk.slot # NoJob => jpc[wk.slot] \in {"read", "done"}

\* The pipes in sync: one message at a time, of the job that reads or of a spawn.
Pipes ==
    /\ Len(wk.stdin) <= 1 /\ Len(wk.stdout) <= 1
    /\ wk.stdin # <<>> => wk.job = NoJob /\ wk.stdout = <<>>
    /\ wk.job # NoJob => wk.stdout = <<>>
    /\ \A j \in InWorker : jpc[j] = "read"
    /\ \A m \in ToSet(wk.stdout) :
          /\ m.kind = "ready" <=> m.job = NoJob
          /\ m.kind = "ready" => Spawning

\* The pipes, torn or not: a torn one is of a worker that served a stream, and what
\* is in it is of jobs that wrote a request.
Strays ==
    /\ wk.torn => handle \/ evictor = "closing"
    /\ \A j \in InWorker : jpc[j] \in {"read", "done"}
    /\ \A m \in ToSet(wk.stdout) : m.kind = "cancelled" => cancelled # {}

\* Signals: on whose behalf they were sent, and what they can have reached.
Signals ==
    /\ \A j \in killing \union signalled : Deserted(j) /\ jpc[j] \in {"read", "done"}
    /\ wk.signal => signalled # {}
    /\ cancelled # {} => signalled # {}
    /\ \A j \in cancelled : jpc[j] \in {"read", "done"}

\* The clients of a job are told something when it ends, and only then.
Told == \A j \in Jobs : verdict[j] = "none" <=> jpc[j] # "done"

\* The inductive invariant.  Pipes needs Mutex and Ownership, to know that a job
\* writes into empty pipes of a worker nobody else reads from, and it can be claimed
\* only as long as no read was given up in the middle of a frame; what is left then
\* is Strays.
SupervisorInv ==
    /\ TypeOK
    /\ Mutex
    /\ Ownership
    /\ MainTask
    /\ ~wk.torn => Pipes
    /\ Strays
    /\ Signals
    /\ Told

\* No worker, no job, no signal.
LEMMA InitSupervisorInv == Init => SupervisorInv
<1> SUFFICES ASSUME Init PROVE SupervisorInv
  OBVIOUS
<1>1. TypeOK
  <2>1. <<>> \in Seq(Jobs) /\ <<>> \in Seq(Messages) /\ <<>> \in Seq(Jobs \union {Evictor})
    BY EmptySeq
  <2>2. wk \in Processes
    BY <2>1 DEF Init, NoProcess, Processes
  <2>3. crashes \in 0..MaxCrashes
    BY SizesAssumption DEF Init
  <2> QED
    BY <2>1, <2>2, <2>3 DEF Init, TypeOK, Verdicts, Replies
<1>2. Mutex
  <2>1. ToSet(lockq) = {} /\ IsInjective(lockq)
    BY DEF Init, ToSet, IsInjective
  <2> QED
    BY <2>1 DEF Init, Mutex, Owning
<1>3. Ownership
  BY DEF Init, Ownership, NoProcess
<1>4. MainTask
  BY DEF Init, MainTask, NoProcess
<1>5. Pipes
  <2>1. Len(wk.stdin) = 0 /\ Len(wk.stdout) = 0
    BY EmptySeq DEF Init, NoProcess
  <2>2. ToSet(wk.stdin) = {} /\ ToSet(wk.stdout) = {} /\ wk.job = NoJob
    BY DEF Init, NoProcess, ToSet
  <2>3. wk.stdin = <<>> /\ wk.stdout = <<>>
    BY DEF Init, NoProcess
  <2> QED
    BY <2>1, <2>2, <2>3 DEF Pipes, InWorker
<1>6. Signals
  BY DEF Init, Signals, NoProcess
<1>7. Told /\ Strays
  <2>1. InWorker = {} /\ ToSet(wk.stdout) = {} /\ ~wk.torn
    BY DEF Init, NoProcess, ToSet, InWorker
  <2> QED
    BY <2>1 DEF Init, Told, Strays
<1> QED
  BY <1>1, <1>2, <1>3, <1>4, <1>5, <1>6, <1>7 DEF SupervisorInv

-----------------------------------------------------------------------------
(* The mutex and the process, as the actions use them.                       *)

\* A task joins the queue of the mutex: who holds it stays.
LEMMA Joins ==
    ASSUME TypeOK, Mutex, NEW t \in Jobs \union {Evictor}, t \notin ToSet(lockq),
           lockq' = Append(lockq, t)
    PROVE  /\ lockq' \in Seq(Jobs \union {Evictor})
           /\ IsInjective(lockq')
           /\ ToSet(lockq') = ToSet(lockq) \union {t}
           /\ \A u : Holds(u) => Holds(u)'
<1>1. lockq \in Seq(Jobs \union {Evictor})
  BY DEF TypeOK
<1>2. lockq' \in Seq(Jobs \union {Evictor}) /\ lockq' # <<>>
  BY <1>1, AppendProperties
<1>3. IsInjective(lockq') /\ ToSet(lockq') = ToSet(lockq) \union {t}
  BY <1>1, AppendItems DEF Mutex
<1>4. lockq # <<>> => Head(lockq') = Head(lockq)
  BY <1>1, HeadTailAppend
<1> QED
  BY <1>2, <1>3, <1>4 DEF Holds

\* The guard is dropped: the task leaves the queue.
LEMMA Leaves ==
    ASSUME TypeOK, Mutex, NEW t, Holds(t), lockq' = Tail(lockq)
    PROVE  /\ lockq' \in Seq(Jobs \union {Evictor})
           /\ IsInjective(lockq')
           /\ ToSet(lockq') = ToSet(lockq) \ {t}
           /\ \A u : Holds(u) => u = t
<1>1. lockq \in Seq(Jobs \union {Evictor}) /\ lockq # <<>> /\ Head(lockq) = t
  BY DEF TypeOK, Holds
<1> QED
  BY <1>1, HeadTailProperties, TailItems DEF Mutex, Holds

\* Only one task is between taking the mutex and giving it back.
LEMMA OneOwner ==
    ASSUME Mutex, NEW t, Holds(t)
    PROVE  /\ \A j \in Jobs : jpc[j] \in Owning => j = t
           /\ evictor = "closing" => t = Evictor
BY DEF Mutex, Holds

\* Evictor and NoJob are not jobs, and no job is both a batch and a stream.
LEMMA NotJobs == Evictor \notin Jobs /\ NoJob \notin Jobs
BY JobsAssumption DEF Jobs

\* The components of a process and what an exit leaves of them.
LEMMA ProcessTypes ==
    ASSUME NEW w \in Processes
    PROVE  /\ NoProcess \in Processes
           /\ [NoProcess EXCEPT !.proc = "loading"] \in Processes
           /\ Dead(w) \in Processes
           /\ w.stdin \in Seq(Jobs) /\ w.stdout \in Seq(Messages)
           /\ w.job \in Jobs \union {NoJob} /\ w.slot \in Jobs \union {NoJob}
           /\ w.torn \in BOOLEAN
<1>1. <<>> \in Seq(Jobs) /\ <<>> \in Seq(Messages)
  BY EmptySeq
<1> QED
  BY <1>1 DEF Processes, NoProcess, Dead

\* What is left of a worker that died.
LEMMA DeadFields ==
    ASSUME NEW w
    PROVE  /\ Dead(w).proc = "dead" /\ Dead(w).pc = "idle" /\ Dead(w).job = NoJob
           /\ Dead(w).slot = NoJob /\ Dead(w).signal = FALSE /\ Dead(w).stdin = <<>>
           /\ Dead(w).open = w.open /\ Dead(w).stdout = w.stdout
           /\ Dead(w).torn = w.torn /\ ~Dead(w).poisoned
BY DEF Dead, NoProcess

\* What a task does with the worker for its job, by itself or on a torn pipe.
JobStep(j) == JobTask(j) \/ Misread(j)

\* The steps that give up the worker, and its process with it.
Drops(j) == \/ SpawnFailed(j) \/ WorkerGone(j) \/ WriteFailed(j)
            \/ ReadOversize(j) \/ ReadEof(j) \/ MisreadTooLarge(j)

\* The steps that take a message out of the pipe, and those that touch no process.
Takes(j) == SpawnReady(j) \/ ReadReply(j) \/ MisreadPart(j)
Spares(j) == AskLock(j) \/ SpawnRefused(j) \/ WorkerAlive(j) \/ MisreadReply(j)

\* What each kind does.
LEMMA KindsOfSteps ==
    ASSUME NEW j, JobStep(j)
    PROVE  /\ Drops(j) \/ Takes(j) \/ Spares(j) \/ StartSpawn(j) \/ Write(j) \/ StreamCancel(j)
           /\ Drops(j) => wk' = NoProcess
           /\ Takes(j) => wk.stdout # <<>> /\ wk' = [wk EXCEPT !.stdout = Tail(wk.stdout)]
           /\ Spares(j) => wk' = wk
BY DEF JobStep, JobTask, Misread, Drops, Takes, Spares, SpawnFailed, WorkerGone, WriteFailed,
       ReadOversize, ReadEof, MisreadTooLarge, DropWorker, SpawnReady, ReadReply, MisreadPart,
       Misreading, AskLock, SpawnRefused, WorkerAlive, MisreadReply

-----------------------------------------------------------------------------
(* The mutex.                                                                *)

\* The holder goes on with its critical section,
LEMMA MoveKeepsMutex ==
    ASSUME TypeOK, Mutex, NEW j \in Jobs, NEW at \in {"lock"} \union Owning,
           jpc[j] \in {"lock"} \union Owning, Holds(j), Goto(j, at),
           UNCHANGED <<lockq, evictor>>
    PROVE  Mutex'
BY DEF TypeOK, Mutex, Goto, Holds, Owning

\* or leaves it.
LEMMA LeaveKeepsMutex ==
    ASSUME TypeOK, Mutex, NEW j \in Jobs, NEW at \in {"start", "done"}, Holds(j),
           Goto(j, at), lockq' = Tail(lockq), UNCHANGED evictor
    PROVE  Mutex'
<1>1. /\ IsInjective(lockq') /\ ToSet(lockq') = ToSet(lockq) \ {j}
      /\ \A u : Holds(u) => u = j
  BY Leaves
<1>2. \A i \in Jobs : jpc'[i] = IF i = j THEN at ELSE jpc[i]
  BY DEF Goto, TypeOK
<1>3. \A i \in Jobs : jpc'[i] \notin Owning
  BY <1>1, <1>2 DEF Mutex, Owning
<1>4. evictor # "closing" /\ j # Evictor
  BY <1>1, NotJobs DEF Mutex
<1> QED
  BY <1>1, <1>2, <1>3, <1>4 DEF Mutex, Owning

\* A task waits for the mutex, holds it, or gives it back.
LEMMA JobTaskKeepsMutex ==
    ASSUME SupervisorInv, NEW j \in Jobs, JobStep(j)
    PROVE  Mutex'
<1> USE DEF SupervisorInv
<1>1. jpc[j] \in Owning => Holds(j)
  BY DEF Mutex
<1>2. CASE AskLock(j)
  <2>1. j \notin ToSet(lockq)
    BY <1>2 DEF AskLock, Mutex, Owning
  <2>2. /\ IsInjective(lockq') /\ ToSet(lockq') = ToSet(lockq) \union {j}
        /\ \A u : Holds(u) => Holds(u)'
    BY <1>2, <2>1, Joins DEF AskLock
  <2>3. \A i \in Jobs : jpc'[i] = IF i = j THEN "lock" ELSE jpc[i]
    BY <1>2 DEF AskLock, Goto, TypeOK
  <2> QED
    BY <1>2, <2>2, <2>3, NotJobs DEF AskLock, Mutex, Owning
<1>3. CASE StartSpawn(j) \/ SpawnReady(j) \/ WorkerAlive(j) \/ Write(j)
  BY <1>1, <1>3, MoveKeepsMutex
     DEF StartSpawn, SpawnReady, WorkerAlive, Write, Owning
<1>4. CASE \/ SpawnRefused(j) \/ SpawnFailed(j) \/ WriteFailed(j) \/ ReadReply(j)
           \/ ReadOversize(j) \/ ReadEof(j) \/ MisreadReply(j) \/ MisreadTooLarge(j)
  <2>1. Holds(j)
    BY <1>1, <1>4
       DEF SpawnRefused, SpawnFailed, WriteFailed, ReadReply, ReadOversize, ReadEof,
           MisreadReply, MisreadTooLarge, Misreading, Owning
  <2>2. Goto(j, "done") /\ lockq' = Tail(lockq) /\ evictor' = evictor
    BY <1>4
       DEF SpawnRefused, SpawnFailed, WriteFailed, ReadReply, ReadOversize, ReadEof,
           MisreadReply, MisreadTooLarge, Finish
  <2> QED
    BY <2>1, <2>2, LeaveKeepsMutex
<1>5. CASE WorkerGone(j)
  <2>1. \E at \in {"start", "done"} : Goto(j, at)
    BY <1>5 DEF WorkerGone, Finish
  <2> QED
    BY <1>5, <2>1, LeaveKeepsMutex DEF WorkerGone, Finish
<1>6. CASE StreamCancel(j) \/ MisreadPart(j)
  BY <1>6 DEF StreamCancel, MisreadPart, Mutex, Holds
<1> QED
  BY <1>2, <1>3, <1>4, <1>5, <1>6 DEF JobStep, JobTask, Misread

\* Every step keeps the mutex.
LEMMA NextMutex == SupervisorInv /\ [Next]_vars => Mutex'
<1> SUFFICES ASSUME SupervisorInv, [Next]_vars PROVE Mutex'
  OBVIOUS
<1> USE DEF SupervisorInv
<1>1. CASE \E j \in Jobs : JobStep(j)
  BY <1>1, JobTaskKeepsMutex
<1>2. CASE \E j \in Jobs : Submit(j)
  BY <1>2 DEF Submit, Goto, TypeOK, Mutex, Holds, Owning
<1>3. CASE EvictTick
  <2>1. Evictor \notin ToSet(lockq)
    BY <1>3 DEF EvictTick, Mutex
  <2>2. /\ IsInjective(lockq') /\ ToSet(lockq') = ToSet(lockq) \union {Evictor}
        /\ \A u : Holds(u) => Holds(u)'
    BY <1>3, <2>1, Joins DEF EvictTick
  <2> QED
    BY <1>3, <2>2, NotJobs DEF EvictTick, Mutex
<1>4. CASE EvictSkip \/ EvictDone
  <2>1. Holds(Evictor) /\ lockq' = Tail(lockq) /\ evictor' = "sleep" /\ jpc' = jpc
    BY <1>4 DEF EvictSkip, EvictDone, Mutex
  <2>2. /\ IsInjective(lockq') /\ ToSet(lockq') = ToSet(lockq) \ {Evictor}
        /\ \A u : Holds(u) => u = Evictor
    BY <2>1, Leaves
  <2>3. \A i \in Jobs : jpc[i] \notin Owning
    BY <2>2, NotJobs DEF Mutex
  <2> QED
    BY <2>1, <2>2, <2>3, NotJobs DEF Mutex
<1>5. CASE EvictTake
  BY <1>5 DEF EvictTake, Mutex, Holds
<1>6. CASE UNCHANGED <<lockq, jpc, evictor>>
  BY <1>6 DEF Mutex, Holds
<1> QED
  BY <1>1, <1>2, <1>3, <1>4, <1>5, <1>6
     DEF Next, JobStep, vars, clientVars, Disconnect, Watchers, WatcherCounts, WatcherKills,
         EvictionTask, WorkerTask, Worker, Load, LoadFails, ReadRequest, StdinClosed, Begin,
         FinishBatch, FinishStream, StreamTail, InstallHandler, HandleSignal, Crash

-----------------------------------------------------------------------------
(* Inner::state and the process.                                             *)

\* kill(pid, SIGUSR1), with a read given up in the middle of a frame or without.
Signalling == \E lost \in BOOLEAN : wk' = [Delivered(wk) EXCEPT !.torn = @ \/ lost]

\* A process goes on as it was but for a pending signal and a torn pipe, or dies.
LEMMA SignalEffect ==
    ASSUME TypeOK, Signalling
    PROVE  /\ wk' \in Processes
           /\ wk'.open = wk.open /\ wk'.stdout = wk.stdout /\ (wk.torn => wk'.torn)
           /\ \/ /\ wk'.proc = wk.proc /\ wk'.pc = wk.pc /\ wk'.job = wk.job
                 /\ wk'.slot = wk.slot /\ wk'.stdin = wk.stdin
                 /\ wk'.poisoned = wk.poisoned
                 /\ wk'.signal = wk.signal \/ wk.proc = "up"
              \/ /\ wk.proc = "up" /\ wk'.proc = "dead" /\ wk'.pc = "idle"
                 /\ wk'.job = NoJob /\ wk'.slot = NoJob /\ ~wk'.signal
                 /\ wk'.stdin = <<>> /\ ~wk'.poisoned
<1>1. wk \in Processes /\ Dead(wk) \in Processes
  BY ProcessTypes DEF TypeOK
<1>2. PICK lost \in BOOLEAN : wk' = [Delivered(wk) EXCEPT !.torn = @ \/ lost]
  BY DEF Signalling
<1>3. CASE wk.proc # "up"
  <2>1. wk' = [wk EXCEPT !.torn = @ \/ lost]
    BY <1>2, <1>3 DEF Delivered
  <2> QED
    BY <1>1, <2>1 DEF Processes
<1>4. CASE wk.proc = "up" /\ wk.handler
  <2> DEFINE w == [wk EXCEPT !.signal = TRUE]
  <2>1. wk' = [w EXCEPT !.torn = @ \/ lost]
    BY <1>2, <1>4 DEF Delivered
  <2> QED
    BY <1>1, <1>4, <2>1 DEF Processes
<1>5. CASE wk.proc = "up" /\ ~wk.handler
  <2> DEFINE w == Dead(wk)
  <2>1. wk' = [w EXCEPT !.torn = @ \/ lost]
    BY <1>2, <1>5 DEF Delivered
  <2>2. w \in Processes
    BY <1>1
  <2>3. /\ w.proc = "dead" /\ w.pc = "idle" /\ w.job = NoJob /\ w.slot = NoJob
        /\ w.signal = FALSE /\ w.stdin = <<>> /\ w.open = wk.open
        /\ w.stdout = wk.stdout /\ w.torn = wk.torn /\ ~w.poisoned
    BY DeadFields
  <2> HIDE DEF w
  <2> QED
    BY <1>5, <2>1, <2>2, <2>3 DEF Processes
<1> QED
  BY <1>3, <1>4, <1>5

\* Both tasks that send a signal do this.
LEMMA SignalSent ==
    ASSUME TypeOK
    PROVE  /\ \A j \in BatchJobs : WatcherKills(j) => Signalling
           /\ \A j \in Jobs : StreamCancel(j) => Signalling
<1>1. wk \in Processes /\ Dead(wk) \in Processes
  BY ProcessTypes DEF TypeOK
<1>2. ASSUME wk' = Delivered(wk) PROVE Signalling
  <2>1. Delivered(wk) \in Processes
    BY <1>1 DEF Delivered, Processes
  <2>2. [Delivered(wk) EXCEPT !.torn = @ \/ FALSE] = Delivered(wk)
    BY <2>1 DEF Processes
  <2> QED
    BY <1>2, <2>2 DEF Signalling
<1>3. ASSUME NEW j \in Jobs, StreamCancel(j) PROVE Signalling
  BY <1>3 DEF StreamCancel, Signalling
<1> QED
  BY <1>2, <1>3 DEF WatcherKills

\* A task takes the worker only when it holds the mutex.
LEMMA JobTaskKeepsOwnership ==
    ASSUME SupervisorInv, NEW j \in Jobs, JobStep(j)
    PROVE  Ownership'
<1> USE DEF SupervisorInv
<1>1. jpc[j] \in Owning => Holds(j)
  BY DEF Mutex
<1>2. Holds(j) => /\ \A i \in Jobs : jpc[i] \in Owning => i = j
                  /\ evictor # "closing"
  BY OneOwner, NotJobs
<1>3. /\ wk \in Processes
      /\ jpc \in [Jobs -> {"new", "start", "lock", "spawn", "write", "read", "done"}]
  BY DEF TypeOK
<1>4. CASE AskLock(j)
  BY <1>3, <1>4 DEF AskLock, Goto, Ownership, Spawning
<1>12. CASE SpawnRefused(j) \/ MisreadReply(j)
  <2>1. UNCHANGED <<handle, wk, evictor>>
    BY <1>12 DEF SpawnRefused, MisreadReply
  <2>2. \A i \in Jobs : jpc'[i] \notin {"spawn"} /\ (jpc'[i] = jpc[i] \/ jpc'[i] = "done")
    <3>1. jpc' = [jpc EXCEPT ![j] = "done"] /\ Holds(j) /\ jpc[j] # "spawn"
      BY <1>1, <1>12 DEF SpawnRefused, MisreadReply, Misreading, Finish, Goto, Owning
    <3>2. \A i \in Jobs : i # j => jpc[i] \notin Owning
      BY <1>2, <3>1
    <3> QED
      BY <1>3, <3>1, <3>2 DEF Owning
  <2>3. ~Spawning
    <3>1. Holds(j) /\ jpc[j] # "spawn"
      BY <1>1, <1>12 DEF SpawnRefused, MisreadReply, Misreading, Owning
    <3> QED
      BY <1>2, <3>1 DEF Spawning, Owning
  <2> QED
    BY <2>1, <2>2, <2>3 DEF Ownership, Spawning
<1>13. CASE MisreadPart(j)
  BY <1>3, <1>13 DEF MisreadPart, Ownership, Spawning, Processes
<1>5. CASE StartSpawn(j)
  <2>1. wk'.proc = "loading" /\ wk'.open /\ jpc'[j] = "spawn" /\ ~handle'
    BY <1>3, <1>5 DEF StartSpawn, Goto, NoProcess
  <2>2. \A i \in Jobs : i # j => jpc'[i] \notin Owning
    BY <1>2, <1>3, <1>5 DEF StartSpawn, Goto
  <2> QED
    BY <1>2, <1>5, <2>1, <2>2 DEF StartSpawn, Ownership, Spawning, Owning
<1>6. CASE SpawnReady(j)
  <2>1. wk'.proc = wk.proc /\ wk'.open = wk.open /\ handle' /\ evictor' = evictor
    BY <1>3, <1>6 DEF SpawnReady, Processes
  <2>2. wk.open /\ wk.proc \in {"up", "dead"}
    BY <1>3, <1>6 DEF SpawnReady, Ownership, MainTask, Processes
  <2>3. \A i \in Jobs : jpc'[i] \notin Owning
    BY <1>1, <1>2, <1>3, <1>6 DEF SpawnReady, Goto, Owning
  <2> QED
    BY <1>1, <1>2, <1>6, <2>1, <2>2, <2>3
       DEF SpawnReady, Ownership, Spawning, Owning
<1>7. CASE SpawnFailed(j)
  <2>1. \A i \in Jobs : jpc'[i] \notin Owning
    BY <1>1, <1>2, <1>3, <1>7 DEF SpawnFailed, Finish, Goto, Owning
  <2>2. wk'.proc = "none" /\ ~handle' /\ evictor' = evictor
    BY <1>7 DEF SpawnFailed, NoProcess, Ownership
  <2> QED
    BY <1>1, <1>2, <1>7, <2>1, <2>2 DEF SpawnFailed, Ownership, Spawning, Owning
<1>8. CASE \/ WorkerGone(j) \/ WriteFailed(j) \/ ReadOversize(j) \/ ReadEof(j)
           \/ MisreadTooLarge(j)
  <2>1. wk'.proc = "none" /\ ~handle' /\ evictor' = evictor
    BY <1>8
       DEF WorkerGone, WriteFailed, ReadOversize, ReadEof, MisreadTooLarge, DropWorker,
           NoProcess
  <2>2. \A i \in Jobs : jpc'[i] \notin Owning
    <3>1. Holds(j) /\ \E at \in {"start", "done"} : jpc' = [jpc EXCEPT ![j] = at]
      BY <1>1, <1>8
         DEF WorkerGone, WriteFailed, ReadOversize, ReadEof, MisreadTooLarge, Misreading,
             Finish, Goto, Owning
    <3> QED
      BY <1>2, <1>3, <3>1 DEF Owning
  <2> QED
    BY <2>1, <2>2 DEF Ownership, Spawning, Owning
<1>9. CASE WorkerAlive(j) \/ Write(j)
  <2>1. wk'.proc = "up" /\ wk'.open = wk.open /\ handle' = handle /\ evictor' = evictor
    BY <1>3, <1>9 DEF WorkerAlive, Write, Processes
  <2>2. handle
    BY <1>9 DEF WorkerAlive, Write, Ownership
  <2>3. \A i \in Jobs : i # j => jpc'[i] \notin Owning
    BY <1>1, <1>2, <1>3, <1>9 DEF WorkerAlive, Write, Goto, Owning
  <2>4. jpc'[j] # "spawn"
    BY <1>3, <1>9 DEF WorkerAlive, Write, Goto
  <2> QED
    BY <1>1, <1>2, <2>1, <2>2, <2>3, <2>4 DEF Ownership, Spawning, Owning
<1>10. CASE StreamCancel(j)
  <2>1. UNCHANGED <<handle, jpc, evictor>>
    BY <1>10 DEF StreamCancel
  <2>2. wk'.open = wk.open /\ (wk'.proc = wk.proc \/ (wk.proc = "up" /\ wk'.proc = "dead"))
    BY <1>10, SignalSent, SignalEffect
  <2> QED
    BY <2>1, <2>2 DEF Ownership, Spawning
<1>11. CASE ReadReply(j)
  <2>1. wk'.proc = wk.proc /\ wk'.open = wk.open /\ handle' = handle /\ evictor' = evictor
    BY <1>3, <1>11 DEF ReadReply, Processes
  <2>2. handle
    BY <1>11 DEF ReadReply, Ownership
  <2>3. \A i \in Jobs : jpc'[i] \notin Owning
    BY <1>1, <1>2, <1>3, <1>11 DEF ReadReply, Finish, Goto, Owning
  <2>4. wk.proc # "loading"
    BY <1>11, <1>1, <1>2 DEF ReadReply, Ownership, Spawning, Owning
  <2> QED
    BY <2>1, <2>2, <2>3, <2>4 DEF Ownership, Spawning, Owning
<1> QED
  BY <1>4, <1>5, <1>6, <1>7, <1>8, <1>9, <1>10, <1>11, <1>12, <1>13
     DEF JobStep, JobTask, Misread

\* Every step keeps the owner of the worker.
LEMMA NextOwnership == SupervisorInv /\ [Next]_vars => Ownership'
<1> SUFFICES ASSUME SupervisorInv, [Next]_vars PROVE Ownership'
  OBVIOUS
<1> USE DEF SupervisorInv
<1>1. wk \in Processes
  BY DEF TypeOK
<1>2. CASE \E j \in Jobs : JobStep(j)
  BY <1>2, JobTaskKeepsOwnership
<1>3. CASE \E j \in Jobs : Submit(j)
  BY <1>3 DEF Submit, Goto, TypeOK, Ownership, Spawning
<1>4. CASE WorkerTask \/ InstallHandler \/ HandleSignal \/ Crash
  <2>1. UNCHANGED <<handle, jpc, evictor>>
    BY <1>4
       DEF WorkerTask, Worker, Load, LoadFails, ReadRequest, StdinClosed, Begin, FinishBatch,
           FinishStream, StreamTail, InstallHandler, HandleSignal, Crash
  <2>2. wk'.open = wk.open
    <3>1. CASE LoadFails \/ StdinClosed \/ Crash
      BY <3>1, DeadFields DEF LoadFails, StdinClosed, Crash, Worker
    <3>2. CASE Load \/ ReadRequest \/ Begin \/ StreamTail
               \/ InstallHandler \/ HandleSignal
      BY <1>1, <3>2
         DEF Load, ReadRequest, Begin, StreamTail, InstallHandler, HandleSignal, Worker,
             Processes
    <3>3. CASE FinishBatch
      BY <1>1, <3>3 DEF FinishBatch, Worker, Processes
    <3>4. CASE FinishStream
      BY <1>1, <3>4 DEF FinishStream, Worker, Processes
    <3> QED
      BY <1>4, <3>1, <3>2, <3>3, <3>4 DEF WorkerTask
  <2>3. wk'.proc \in {"up", "dead"} /\ wk.proc \in {"up", "loading"}
    <3>1. CASE Load
      BY <1>1, <3>1 DEF Load, Worker, Processes
    <3>2. CASE LoadFails \/ StdinClosed \/ Crash
      BY <3>2, DeadFields DEF LoadFails, StdinClosed, Worker, Idle, Crash
    <3>3. CASE ReadRequest \/ InstallHandler
      BY <1>1, <3>3 DEF ReadRequest, InstallHandler, Worker, Idle, Processes
    <3>4. CASE Begin \/ FinishBatch \/ FinishStream \/ StreamTail \/ HandleSignal
      <4>1. wk.proc = "up"
        BY <3>4 DEF Begin, FinishBatch, FinishStream, StreamTail, HandleSignal, MainTask
      <4>2. wk'.proc = wk.proc
        BY <1>1, <3>4
           DEF Begin, FinishBatch, FinishStream, StreamTail, HandleSignal, Worker,
               Processes
      <4> QED
        BY <4>1, <4>2
    <3> QED
      BY <1>4, <3>1, <3>2, <3>3, <3>4 DEF WorkerTask
  <2> QED
    BY <2>1, <2>2, <2>3 DEF Ownership, Spawning
<1>5. CASE \E j \in BatchJobs : WatcherKills(j)
  <2>1. UNCHANGED <<handle, jpc, evictor>>
    BY <1>5 DEF WatcherKills
  <2>2. wk'.open = wk.open
    BY <1>5, SignalSent, SignalEffect
  <2>3. \/ wk'.proc = wk.proc
        \/ wk.proc = "up" /\ wk'.proc = "dead"
    BY <1>5, SignalSent, SignalEffect
  <2> QED
    BY <2>1, <2>2, <2>3 DEF Ownership, Spawning
<1>6. CASE EvictTake
  <2>1. Holds(Evictor) /\ wk'.proc = wk.proc /\ ~wk'.open /\ ~handle'
        /\ evictor' = "closing" /\ jpc' = jpc
    BY <1>1, <1>6 DEF EvictTake, Processes
  <2>2. \A i \in Jobs : jpc[i] \notin Owning
    BY <2>1, OneOwner, NotJobs
  <2> QED
    BY <2>1, <2>2 DEF Ownership, Spawning, Owning
<1>7. CASE EvictDone
  <2>1. wk'.proc = "none" /\ evictor' = "sleep" /\ UNCHANGED <<handle, jpc>>
    BY <1>7 DEF EvictDone, NoProcess
  <2>2. Holds(Evictor) /\ ~handle
    BY <1>7 DEF EvictDone, Mutex, Ownership
  <2>3. \A i \in Jobs : jpc[i] \notin Owning
    BY <2>2, OneOwner, NotJobs
  <2> QED
    BY <2>1, <2>2, <2>3 DEF Ownership, Spawning, Owning
<1>8. CASE EvictTick \/ EvictSkip
  BY <1>8 DEF EvictTick, EvictSkip, Ownership, Spawning
<1>9. CASE UNCHANGED <<handle, jpc, evictor, wk>>
  BY <1>9 DEF Ownership, Spawning
<1> QED
  BY <1>2, <1>3, <1>4, <1>5, <1>6, <1>7, <1>8, <1>9
     DEF Next, JobStep, vars, clientVars, Disconnect, Watchers, WatcherCounts, EvictionTask

-----------------------------------------------------------------------------
(* The worker's main task.                                                   *)

\* A request that was written is never taken back: its job goes on reading, and
\* once over it is over.
LEMMA WrittenStays ==
    ASSUME TypeOK, [Next]_vars, NEW i \in Jobs
    PROVE  /\ jpc[i] \in {"read", "done"} => jpc'[i] \in {"read", "done"}
           /\ jpc[i] = "done" => jpc'[i] = "done"
<1> USE DEF TypeOK
<1>1. CASE \E j \in Jobs : JobStep(j)
  <2>1. PICK j \in Jobs : JobStep(j)
    BY <1>1
  <2>2. CASE \/ ReadReply(j) \/ ReadOversize(j) \/ ReadEof(j) \/ MisreadReply(j)
             \/ MisreadTooLarge(j)
    BY <2>2 DEF ReadReply, ReadOversize, ReadEof, MisreadReply, MisreadTooLarge, Finish, Goto
  <2>3. CASE StreamCancel(j) \/ MisreadPart(j)
    BY <2>3 DEF StreamCancel, MisreadPart
  <2>4. CASE \/ AskLock(j) \/ SpawnRefused(j) \/ StartSpawn(j) \/ SpawnReady(j)
             \/ SpawnFailed(j) \/ WorkerGone(j) \/ WorkerAlive(j) \/ Write(j)
             \/ WriteFailed(j)
    <3>1. jpc[j] \notin {"read", "done"}
      BY <2>1, <2>4
         DEF AskLock, SpawnRefused, StartSpawn, SpawnReady, SpawnFailed, WorkerGone,
             WorkerAlive, Write, WriteFailed
    <3>2. \A k \in Jobs : k # j => jpc'[k] = jpc[k]
      BY <2>1, <2>4
         DEF AskLock, SpawnRefused, StartSpawn, SpawnReady, SpawnFailed, WorkerGone,
             WorkerAlive, Write, WriteFailed, Finish, Goto
    <3> QED
      BY <3>1, <3>2
  <2> QED
    BY <2>1, <2>2, <2>3, <2>4 DEF JobStep, JobTask, Misread
<1>2. CASE \E j \in Jobs : Submit(j)
  BY <1>2 DEF Submit, Goto
<1>3. CASE UNCHANGED jpc
  BY <1>3
<1> QED
  BY <1>1, <1>2, <1>3
     DEF Next, JobStep, vars, clientVars, Disconnect, Watchers, WatcherCounts, WatcherKills,
         EvictTick, EvictionTask, EvictSkip, EvictTake, EvictDone, WorkerTask, Worker,
         Load, LoadFails, ReadRequest, StdinClosed, Begin, FinishBatch, FinishStream, StreamTail,
         InstallHandler, HandleSignal, Crash

\* A process that just died, or none, has no main task.
LEMMA NoMainTask ==
    ASSUME NEW w, w \in {NoProcess, [NoProcess EXCEPT !.proc = "loading"], Dead(wk)}
    PROVE  /\ w.proc # "up" /\ w.pc = "idle" /\ w.job = NoJob /\ w.slot = NoJob
           /\ ~w.signal /\ w.stdin = <<>>
           /\ w.proc # "dead" => w.stdout = <<>>
<1>1. CASE w = Dead(wk)
  BY <1>1, DeadFields
<1>2. CASE w = NoProcess \/ w = [NoProcess EXCEPT !.proc = "loading"]
  BY <1>2 DEF NoProcess
<1> QED
  BY <1>1, <1>2

\* Every step keeps the worker's main task.
LEMMA NextMainTask == SupervisorInv /\ [Next]_vars => MainTask'
<1> SUFFICES ASSUME SupervisorInv, [Next]_vars PROVE MainTask'
  OBVIOUS
<1> USE DEF SupervisorInv
<1>1. wk \in Processes
  BY DEF TypeOK
<1>2. wk.slot # NoJob => jpc'[wk.slot] \in {"read", "done"}
  <2>1. wk.slot # NoJob => wk.slot \in Jobs
    BY <1>1, ProcessTypes
  <2> QED
    BY <2>1, WrittenStays DEF MainTask
<1>3. CASE wk' \in {NoProcess, [NoProcess EXCEPT !.proc = "loading"], Dead(wk)}
  BY <1>3, NoMainTask DEF MainTask

<1>5. CASE wk.stdout # <<>> /\ wk' = [wk EXCEPT !.stdout = Tail(wk.stdout)]
  <2>2. wk.proc \notin {"none", "loading"}
    BY <1>5 DEF MainTask
  <2>3. wk' = [wk EXCEPT !.stdout = Tail(wk.stdout)]
    BY <1>5
  <2> QED
    BY <1>1, <1>2, <2>2, <2>3 DEF MainTask, Processes
<1>6. CASE \E j \in Jobs : Write(j)
  BY <1>1, <1>2, <1>6 DEF Write, MainTask, Processes
<1>7. CASE EvictTake
  BY <1>1, <1>2, <1>7 DEF EvictTake, MainTask, Processes
<1>8. CASE Signalling
  <2>1. wk'.stdout = wk.stdout
    BY <1>8, SignalEffect
  <2> QED
    BY <1>2, <1>8, <2>1, SignalEffect DEF MainTask
<1>9. CASE Load
  <2>1. wk.proc = "loading" /\ wk'.proc = "up" /\ wk'.pc = wk.pc /\ wk'.job = wk.job
        /\ wk'.slot = wk.slot /\ wk'.signal = wk.signal
    BY <1>1, <1>9 DEF Load, Worker, Processes
  <2> QED
    BY <1>2, <2>1 DEF MainTask
<1>10. CASE InstallHandler \/ HandleSignal
  BY <1>1, <1>2, <1>10 DEF InstallHandler, HandleSignal, Worker, MainTask, Processes
<1>11. CASE ReadRequest
  <2>1. Head(wk.stdin) \in Jobs
    BY <1>1, <1>11, ProcessTypes, HeadTailProperties DEF ReadRequest
  <2>2. Head(wk.stdin) # NoJob
    BY <2>1, NotJobs
  <2>3. wk'.pc = "read" /\ wk'.job = Head(wk.stdin) /\ wk'.slot = wk.slot
        /\ wk'.proc = "up"
    BY <1>1, <1>11 DEF ReadRequest, Idle, Worker, Processes
  <2> QED
    BY <1>2, <2>2, <2>3 DEF MainTask
<1>12. CASE Begin
  <2>1. wk.job \in Jobs /\ wk.job \in InWorker
    BY <1>1, <1>12, ProcessTypes DEF Begin, MainTask, InWorker
  <2>2. jpc[wk.job] \in {"read", "done"}
    BY <2>1 DEF Strays
  <2>3. jpc'[wk.job] \in {"read", "done"}
    BY <2>1, <2>2, WrittenStays
  <2>4. wk.proc = "up" /\ wk'.proc = "up" /\ wk'.pc = "running" /\ wk'.job = wk.job
        /\ wk'.slot = wk.job
    BY <1>1, <1>12 DEF Begin, Worker, MainTask, Processes
  <2> QED
    BY <2>3, <2>4, <2>1, NotJobs DEF MainTask
<1>13. CASE FinishBatch \/ FinishStream
  <2>1. wk.proc = "up" /\ wk'.proc = "up" /\ wk'.pc \in {"idle", "tail"}
        /\ wk'.job = NoJob /\ wk'.slot \in {NoJob, wk.slot}
    BY <1>1, <1>13 DEF FinishBatch, FinishStream, Worker, MainTask, Processes
  <2> QED
    BY <1>2, <2>1 DEF MainTask
<1>14. CASE StreamTail
  <2>1. wk.proc = "up" /\ wk'.proc = "up" /\ wk'.pc = "idle" /\ wk'.job = wk.job
        /\ wk'.slot = NoJob /\ wk.job = NoJob
    BY <1>1, <1>14 DEF StreamTail, Worker, MainTask, Processes
  <2> QED
    BY <2>1 DEF MainTask
<1>15. CASE UNCHANGED wk
  BY <1>2, <1>15 DEF MainTask
<1>16. ASSUME NEW j \in Jobs, JobStep(j) PROVE MainTask'
  <2>1. CASE Drops(j) \/ StartSpawn(j)
    BY <1>3, <1>16, <2>1, KindsOfSteps DEF StartSpawn
  <2>2. CASE Spares(j)
    BY <1>15, <1>16, <2>2, KindsOfSteps
  <2>3. CASE StreamCancel(j)
    BY <1>8, <2>3, SignalSent
  <2>4. CASE Takes(j)
    BY <1>5, <1>16, <2>4, KindsOfSteps
  <2> QED
    BY <1>6, <1>16, <2>1, <2>2, <2>3, <2>4, KindsOfSteps
<1>17. CASE WorkerTask \/ Crash
  <2>1. CASE LoadFails \/ StdinClosed \/ Crash
    BY <1>3, <2>1 DEF LoadFails, StdinClosed, Worker, Crash
  <2> QED
    BY <1>9, <1>11, <1>12, <1>13, <1>14, <1>17, <2>1 DEF WorkerTask
<1>18. CASE EvictDone
  BY <1>3, <1>18 DEF EvictDone
<1>19. CASE Watchers
  BY <1>8, <1>15, <1>19, SignalSent DEF Watchers, WatcherCounts
<1> QED
  BY <1>7, <1>10, <1>15, <1>16, <1>17, <1>18, <1>19
     DEF Next, JobStep, vars, clientVars, Disconnect, Submit, EvictTick, EvictionTask, EvictSkip

-----------------------------------------------------------------------------
(* The pipes.                                                                *)

\* Everything in the pipes is of a job that reads, or of a spawn.
LEMMA Contents ==
    ASSUME TypeOK, Pipes
    PROVE  /\ wk.stdin # <<>> => Head(wk.stdin) \in Jobs /\ jpc[Head(wk.stdin)] = "read"
           /\ wk.job # NoJob => wk.job \in Jobs /\ jpc[wk.job] = "read"
           /\ wk.stdout # <<>> =>
                 LET m == Head(wk.stdout) IN
                 /\ m \in Messages
                 /\ m.kind = "ready" => Spawning
                 /\ m.kind # "ready" => m.job \in Jobs /\ jpc[m.job] = "read"
<1>1. wk.stdin \in Seq(Jobs) /\ wk.stdout \in Seq(Messages)
      /\ wk.job \in Jobs \union {NoJob}
  BY ProcessTypes DEF TypeOK
<1>2. ASSUME wk.stdin # <<>>
      PROVE  Head(wk.stdin) \in Jobs /\ jpc[Head(wk.stdin)] = "read"
  <2>1. Head(wk.stdin) \in Jobs /\ Head(wk.stdin) \in ToSet(wk.stdin)
    BY <1>1, <1>2, SingleItem DEF Pipes
  <2>2. Head(wk.stdin) \in InWorker
    BY <2>1, NotJobs DEF InWorker
  <2> QED
    BY <2>1, <2>2 DEF Pipes
<1>3. ASSUME wk.job # NoJob PROVE wk.job \in Jobs /\ jpc[wk.job] = "read"
  BY <1>1, <1>3 DEF Pipes, InWorker
<1>4. ASSUME wk.stdout # <<>>, NEW m, m = Head(wk.stdout)
      PROVE  /\ m \in Messages
             /\ m.kind = "ready" => Spawning
             /\ m.kind # "ready" => m.job \in Jobs /\ jpc[m.job] = "read"
  <2>1. m \in Messages /\ m \in ToSet(wk.stdout)
    BY <1>1, <1>4, SingleItem DEF Pipes
  <2>2. m.job \in Jobs \union {NoJob}
    BY <2>1 DEF Messages
  <2>3. m.kind # "ready" => m.job # NoJob
    BY <2>1 DEF Pipes
  <2>4. m.job # NoJob => m.job \in InWorker
    BY <2>1 DEF InWorker
  <2> QED
    BY <2>1, <2>2, <2>3, <2>4 DEF Pipes
<1> QED
  BY <1>2, <1>3, <1>4

\* A task that took the mutex finds the pipes empty until it spawns or writes.
LEMMA Quiet ==
    ASSUME TypeOK, Mutex, Pipes, NEW t, Holds(t),
           t \in Jobs => jpc[t] \notin {"spawn", "read"}
    PROVE  wk.stdin = <<>> /\ wk.job = NoJob /\ wk.stdout = <<>>
<1>1. \A i \in Jobs : jpc[i] \notin {"spawn", "read"}
  BY OneOwner DEF Owning
<1> QED
  BY <1>1, Contents DEF Spawning

\* Nothing is in the pipes of no process, or of one that starts.
LEMMA EmptyPipes ==
    ASSUME wk'.stdin = <<>>, wk'.job = NoJob, wk'.stdout = <<>>
    PROVE  Pipes'
<1>1. Len(wk'.stdin) = 0 /\ Len(wk'.stdout) = 0
  BY EmptySeq
<1>2. ToSet(wk'.stdin) = {} /\ ToSet(wk'.stdout) = {}
  BY DEF ToSet
<1>3. InWorker' = {}
  BY <1>2 DEF InWorker
<1> QED
  BY <1>1, <1>2, <1>3 DEF Pipes

\* Only jobs are in the worker and its pipes.
LEMMA InWorkerJobs ==
    ASSUME TypeOK
    PROVE  InWorker \subseteq Jobs /\ ToSet(wk.stdout) \subseteq Messages
<1>1. ToSet(wk.stdin) \subseteq Jobs
  BY ProcessTypes, LenProperties, ElementOfSeq DEF TypeOK, ToSet
<1>2. ToSet(wk.stdout) \subseteq Messages
  BY ProcessTypes, LenProperties, ElementOfSeq DEF TypeOK, ToSet
<1>3. wk.job \in Jobs \union {NoJob}
  BY ProcessTypes DEF TypeOK
<1> QED
  BY <1>1, <1>2, <1>3 DEF InWorker, Messages

\* The pipes stay as they are, while the task they belong to waits.
LEMMA SamePipes ==
    ASSUME TypeOK, Pipes,
           wk'.stdin = wk.stdin, wk'.job = wk.job, wk'.stdout = wk.stdout,
           \A i \in Jobs : jpc[i] = "read" => jpc'[i] = "read",
           Spawning => Spawning'
    PROVE  Pipes'
<1>1. InWorker' = InWorker
  BY DEF InWorker
<1>2. InWorker \subseteq Jobs
  BY InWorkerJobs
<1> QED
  BY <1>1, <1>2 DEF Pipes

\* The process dies, and what it wrote stays.
LEMMA DeadPipes ==
    ASSUME TypeOK, Pipes,
           wk'.stdin = <<>>, wk'.job = NoJob, wk'.stdout = wk.stdout,
           \A i \in Jobs : jpc[i] = "read" => jpc'[i] = "read",
           Spawning => Spawning'
    PROVE  Pipes'
<1>2. Len(wk'.stdin) = 0 /\ ToSet(wk'.stdin) = {}
  BY EmptySeq DEF ToSet
<1>3. InWorker' \subseteq InWorker
  BY <1>2 DEF InWorker
<1>4. \A m \in ToSet(wk.stdout) : m \in Messages
  BY ProcessTypes, LenProperties, ElementOfSeq DEF TypeOK, ToSet
<1>5. InWorker' \subseteq Jobs
  BY <1>2, <1>4 DEF InWorker, Messages
<1> QED
  BY <1>2, <1>3, <1>5 DEF Pipes

\* A signal moves nothing in the pipes.
LEMMA SignalKeepsPipes ==
    ASSUME TypeOK, Pipes, Signalling, UNCHANGED jpc
    PROVE  Pipes'
<1>1. Spawning => Spawning'
  BY DEF Spawning
<1>2. \A i \in Jobs : jpc[i] = "read" => jpc'[i] = "read"
  OBVIOUS
<1>3. wk'.stdout = wk.stdout
  BY SignalEffect
<1>4. CASE wk'.stdin = wk.stdin /\ wk'.job = wk.job
  BY <1>1, <1>2, <1>3, <1>4, SamePipes
<1>5. CASE wk'.stdin = <<>> /\ wk'.job = NoJob
  BY <1>1, <1>2, <1>3, <1>5, DeadPipes
<1> QED
  BY <1>4, <1>5, SignalEffect

\* A task writes its own request and reads its own answer.
LEMMA JobTaskKeepsPipes ==
    ASSUME SupervisorInv, NEW j \in Jobs, JobStep(j), ~wk'.torn
    PROVE  Pipes'
<1> USE DEF SupervisorInv
<1>1. wk \in Processes
      /\ jpc \in [Jobs -> {"new", "start", "lock", "spawn", "write", "read", "done"}]
  BY DEF TypeOK
<1>2. jpc[j] \in Owning => Holds(j)
  BY DEF Mutex
<1>3. CASE Drops(j) \/ StartSpawn(j)
  <2>1. wk' \in {NoProcess, [NoProcess EXCEPT !.proc = "loading"]}
    BY <1>3, KindsOfSteps DEF StartSpawn
  <2>2. wk'.stdin = <<>> /\ wk'.job = NoJob /\ wk'.stdout = <<>>
    BY <2>1 DEF NoProcess
  <2> QED
    BY <2>2, EmptyPipes
<1>4. CASE ~wk.torn /\ Spares(j)
  <2>1. jpc[j] \notin {"read", "spawn"} /\ wk' = wk
    BY <1>4, KindsOfSteps
       DEF Spares, AskLock, SpawnRefused, WorkerAlive, MisreadReply, Misreading
  <2>2. \A i \in Jobs : i # j => jpc'[i] = jpc[i]
    BY <1>1, <1>4
       DEF Spares, AskLock, SpawnRefused, WorkerAlive, MisreadReply, Misreading, Finish, Goto
  <2>3. Spawning => Spawning'
    BY <2>1, <2>2 DEF Spawning
  <2> QED
    BY <1>4, <2>1, <2>2, <2>3, SamePipes
<1>5. CASE ~wk.torn /\ Takes(j)
  <2>1. wk.stdout # <<>> /\ wk' = [wk EXCEPT !.stdout = Tail(wk.stdout)]
    BY <1>5, KindsOfSteps
  <2>2. wk.stdin = <<>> /\ wk.job = NoJob
    BY <1>5, <2>1 DEF Pipes
  <2>3. Tail(wk.stdout) = <<>>
    BY <1>1, <1>5, <2>1, ProcessTypes, SingleItem DEF Pipes
  <2>4. wk'.stdin = wk.stdin /\ wk'.job = wk.job /\ wk'.stdout = Tail(wk.stdout)
    BY <1>1, <2>1 DEF Processes
  <2> QED
    BY <2>2, <2>3, <2>4, EmptyPipes
<1>6. CASE ~wk.torn /\ Write(j)
  <2>1. jpc[j] = "write" /\ Holds(j)
    BY <1>2, <1>6 DEF Write, Owning
  <2>2. wk.stdin = <<>> /\ wk.job = NoJob /\ wk.stdout = <<>>
    BY <1>6, <2>1, Quiet
  <2>3. wk'.stdin = Append(<<>>, j) /\ wk'.job = NoJob /\ wk'.stdout = <<>>
    BY <1>1, <1>6, <2>2 DEF Write, Processes
  <2>4. Len(wk'.stdin) = 1 /\ ToSet(wk'.stdin) = {j}
    BY <2>3, AppendToEmpty
  <2>5. Len(wk'.stdout) = 0 /\ ToSet(wk'.stdout) = {}
    BY <2>3, EmptySeq DEF ToSet
  <2>6. InWorker' = {j}
    BY <2>3, <2>4, <2>5, NotJobs DEF InWorker
  <2>7. jpc'[j] = "read"
    BY <1>1, <1>6 DEF Write, Goto
  <2> QED
    BY <2>3, <2>4, <2>5, <2>6, <2>7 DEF Pipes
<1>7. CASE ~wk.torn /\ StreamCancel(j)
  BY <1>7, SignalSent, SignalKeepsPipes DEF StreamCancel
<1>9. Drops(j) \/ StartSpawn(j) \/ ~wk.torn
  <2>1. CASE Takes(j)
    BY <1>1, <2>1, KindsOfSteps DEF Processes
  <2>2. CASE Spares(j)
    BY <2>2, KindsOfSteps
  <2>3. CASE Write(j)
    BY <1>1, <2>3 DEF Write, Processes
  <2>4. CASE StreamCancel(j)
    BY <2>4, SignalSent, SignalEffect
  <2> QED
    BY <2>1, <2>2, <2>3, <2>4, KindsOfSteps
<1> QED
  BY <1>3, <1>4, <1>5, <1>6, <1>7, <1>9, KindsOfSteps

\* The worker answers the job whose request it read.
LEMMA WorkerKeepsPipes ==
    ASSUME SupervisorInv, Pipes, WorkerTask \/ InstallHandler \/ HandleSignal \/ Crash
    PROVE  Pipes'
<1> USE DEF SupervisorInv
<1>1. wk \in Processes
  BY DEF TypeOK
<1>2. jpc' = jpc /\ (Spawning => Spawning')
  BY DEF WorkerTask, Worker, Load, LoadFails, ReadRequest, StdinClosed, Begin, FinishBatch,
         FinishStream, StreamTail, InstallHandler, HandleSignal, Crash, Spawning
<1>4. CASE LoadFails \/ StdinClosed \/ Crash
  <2>1. wk'.stdin = <<>> /\ wk'.job = NoJob /\ wk'.stdout = wk.stdout
    BY <1>4, DeadFields DEF LoadFails, StdinClosed, Crash, Worker
  <2> QED
    BY <1>2, <2>1, DeadPipes
<1>5. CASE Begin \/ StreamTail \/ InstallHandler \/ HandleSignal
  <2>1. wk'.stdin = wk.stdin /\ wk'.job = wk.job /\ wk'.stdout = wk.stdout
    BY <1>1, <1>5
       DEF Begin, StreamTail, InstallHandler, HandleSignal, Worker, Processes
  <2> QED
    BY <1>2, <2>1, SamePipes
<1>6. CASE Load
  <2> DEFINE ready == [job |-> NoJob, kind |-> "ready"]
  <2>1. wk.stdin = <<>> /\ wk.job = NoJob /\ wk.stdout = <<>> /\ Spawning
    BY <1>6 DEF Load, MainTask, Ownership
  <2>2. wk'.stdin = <<>> /\ wk'.job = NoJob /\ wk'.stdout = Append(<<>>, ready)
    BY <1>1, <1>6, <2>1 DEF Load, Worker, Processes
  <2>3. ready \in Messages
    BY DEF Messages
  <2>4. ready.job = NoJob /\ ready.kind = "ready"
    OBVIOUS
  <2> HIDE DEF ready
  <2>5. Len(wk'.stdout) = 1 /\ ToSet(wk'.stdout) = {ready}
    BY <2>2, <2>3, AppendToEmpty
  <2>6. Len(wk'.stdin) = 0 /\ ToSet(wk'.stdin) = {}
    BY <2>2, EmptySeq DEF ToSet
  <2>7. InWorker' = {}
    BY <2>2, <2>4, <2>5, <2>6 DEF InWorker
  <2> QED
    BY <1>2, <2>1, <2>2, <2>4, <2>5, <2>6, <2>7 DEF Pipes
<1>7. CASE ReadRequest
  <2>1. wk.stdin # <<>> /\ wk.stdout = <<>>
    BY <1>7 DEF ReadRequest, Pipes
  <2>2. Head(wk.stdin) \in Jobs /\ jpc[Head(wk.stdin)] = "read"
    BY <2>1, Contents
  <2>3. Tail(wk.stdin) = <<>>
    BY <1>1, <2>1, ProcessTypes, SingleItem DEF Pipes
  <2>4. wk'.stdin = <<>> /\ wk'.job = Head(wk.stdin) /\ wk'.stdout = <<>>
    BY <1>1, <1>7, <2>1, <2>3 DEF ReadRequest, Worker, Processes
  <2>5. /\ Len(wk'.stdin) = 0 /\ ToSet(wk'.stdin) = {}
        /\ Len(wk'.stdout) = 0 /\ ToSet(wk'.stdout) = {}
    BY <2>4, EmptySeq DEF ToSet
  <2>6. InWorker' \subseteq {Head(wk.stdin)}
    BY <2>4, <2>5 DEF InWorker
  <2> QED
    BY <1>2, <2>2, <2>4, <2>5, <2>6 DEF Pipes
<1>8. CASE FinishBatch \/ FinishStream
  <2>1. wk.job # NoJob /\ wk.job \in Jobs
    BY <1>8, NotJobs DEF FinishBatch, FinishStream, Jobs
  <2>2. wk.stdin = <<>> /\ wk.stdout = <<>> /\ jpc[wk.job] = "read"
    BY <2>1, Contents DEF Pipes
  <2>3. wk'.stdin = <<>> /\ wk'.job = NoJob
    BY <1>1, <1>8, <2>2 DEF FinishBatch, FinishStream, Worker, Processes
  <2>4. CASE wk'.stdout = <<>>
    BY <2>3, <2>4, EmptyPipes
  <2>5. ASSUME NEW kind \in Replies \union {"oversize"},
               wk'.stdout = Append(<<>>, [job |-> wk.job, kind |-> kind])
        PROVE  Pipes'
    <3> DEFINE m == [job |-> wk.job, kind |-> kind]
    <3>1. m \in Messages /\ m.job = wk.job /\ m.kind = kind /\ kind # "ready"
      BY <2>1 DEF Messages, Replies
    <3> HIDE DEF m
    <3>2. Len(wk'.stdout) = 1 /\ ToSet(wk'.stdout) = {m}
      BY <2>5, <3>1, AppendToEmpty DEF m
    <3>3. Len(wk'.stdin) = 0 /\ ToSet(wk'.stdin) = {}
      BY <2>3, EmptySeq DEF ToSet
    <3>4. InWorker' \subseteq {wk.job}
      BY <2>3, <3>1, <3>2, <3>3 DEF InWorker
    <3> QED
      BY <1>2, <2>1, <2>2, <2>3, <2>5, <3>1, <3>2, <3>3, <3>4 DEF Pipes
  <2>6. Outcomes \subseteq Replies \union {"panic", "oversize"}
    BY DEF Outcomes, Replies
  <2>7. CASE FinishBatch
    <3>1. PICK how \in Outcomes :
             wk'.stdout = Append(<<>>, [job |-> wk.job,
                              kind |-> IF how = "panic" THEN "failed" ELSE how])
      BY <1>1, <2>2, <2>7 DEF FinishBatch, Worker, Processes
    <3> QED
      BY <2>5, <2>6, <3>1 DEF Replies
  <2>8. CASE FinishStream
    <3>1. PICK how \in Outcomes :
             wk'.stdout = <<>> \o (IF how = "panic" THEN <<>>
                                   ELSE <<[job |-> wk.job, kind |-> how]>>)
      BY <1>1, <2>2, <2>8 DEF FinishStream, Worker, Processes
    <3>2. CASE how = "panic"
      BY <2>4, <3>1, <3>2, ConcatEmptySeq, EmptySeq
    <3>3. CASE how # "panic"
      <4>1. how \in Replies \union {"oversize"}
        BY <2>6, <3>1, <3>3
      <4>2. [job |-> wk.job, kind |-> how] \in Messages
        BY <2>1, <4>1 DEF Messages
      <4>3. wk'.stdout = Append(<<>>, [job |-> wk.job, kind |-> how])
        BY <3>1, <3>3, <4>2, AppendIsConcat, EmptySeq
      <4> QED
        BY <2>5, <4>1, <4>3
    <3> QED
      BY <3>2, <3>3
  <2> QED
    BY <1>8, <2>7, <2>8
<1> QED
  BY <1>4, <1>5, <1>6, <1>7, <1>8 DEF WorkerTask

\* The worker knows nothing of a read that was given up.
LEMMA WorkerKeepsTorn ==
    ASSUME TypeOK, WorkerTask \/ InstallHandler \/ HandleSignal \/ Crash
    PROVE  wk'.torn = wk.torn
<1>1. wk \in Processes
  BY DEF TypeOK
<1>2. CASE LoadFails \/ StdinClosed \/ Crash
  BY <1>2, DeadFields DEF LoadFails, StdinClosed, Crash, Worker
<1>3. CASE Load \/ ReadRequest \/ Begin \/ StreamTail \/ InstallHandler \/ HandleSignal
  BY <1>1, <1>3
     DEF Load, ReadRequest, Begin, StreamTail, InstallHandler, HandleSignal, Worker,
         Processes
<1>4. CASE FinishBatch \/ FinishStream
  BY <1>1, <1>4 DEF FinishBatch, FinishStream, Worker, Processes
<1> QED
  BY <1>2, <1>3, <1>4 DEF WorkerTask

\* Every step keeps the pipes.
LEMMA NextPipes == SupervisorInv /\ [Next]_vars => (~wk'.torn => Pipes')
<1> SUFFICES ASSUME SupervisorInv, [Next]_vars, ~wk'.torn PROVE Pipes'
  OBVIOUS
<1> USE DEF SupervisorInv
<1>1. CASE \E j \in Jobs : JobStep(j)
  BY <1>1, JobTaskKeepsPipes
<1>2. CASE WorkerTask \/ InstallHandler \/ HandleSignal \/ Crash
  <2>1. wk'.torn = wk.torn
    BY <1>2, WorkerKeepsTorn
  <2> QED
    BY <1>2, <2>1, WorkerKeepsPipes
<1>3. CASE \E j \in Jobs : Submit(j)
  <2>1. PICK j \in Jobs : Submit(j)
    BY <1>3
  <2>2. /\ jpc[j] = "new" /\ wk' = wk
        /\ \A i \in Jobs : i # j => jpc'[i] = jpc[i]
    BY <2>1 DEF Submit, Goto, TypeOK
  <2>3. Spawning => Spawning'
    BY <2>2 DEF Spawning
  <2> QED
    BY <2>2, <2>3, SamePipes
<1>4. CASE \E j \in BatchJobs : WatcherKills(j)
  <2>1. Signalling /\ jpc' = jpc
    BY <1>4, SignalSent DEF WatcherKills
  <2> QED
    BY <2>1, SignalEffect, SignalKeepsPipes
<1>5. CASE EvictTake
  <2>1. wk'.stdin = wk.stdin /\ wk'.job = wk.job /\ wk'.stdout = wk.stdout
        /\ jpc' = jpc /\ wk'.torn = wk.torn
    BY <1>5 DEF EvictTake, TypeOK, Processes
  <2> QED
    BY <2>1, SamePipes DEF Spawning
<1>6. CASE EvictDone
  <2>1. wk'.stdin = <<>> /\ wk'.job = NoJob /\ wk'.stdout = <<>>
    BY <1>6 DEF EvictDone, NoProcess
  <2> QED
    BY <2>1, EmptyPipes
<1>7. CASE UNCHANGED <<wk, jpc>>
  BY <1>7, SamePipes DEF Spawning
<1> QED
  BY <1>1, <1>2, <1>3, <1>4, <1>5, <1>6, <1>7
     DEF Next, JobStep, vars, clientVars, Disconnect, Watchers, WatcherCounts, EvictTick,
         EvictionTask, EvictSkip

-----------------------------------------------------------------------------
(* Signals, what is left in a torn pipe, and verdicts.                       *)

\* Hanging up, a signal sent and a token flipped are never undone.
LEMMA Grows ==
    ASSUME TypeOK, [Next]_vars
    PROVE  /\ gone \subseteq gone' /\ signalled \subseteq signalled'
           /\ cancelled \subseteq cancelled'
<1>1. CASE \E j \in Jobs : JobStep(j)
  BY <1>1
     DEF JobStep, JobTask, Misread, AskLock, SpawnRefused, StartSpawn, SpawnReady, SpawnFailed,
         WorkerGone, WorkerAlive, Write, WriteFailed, StreamCancel, ReadReply, ReadOversize,
         ReadEof, MisreadReply, MisreadPart, MisreadTooLarge, clientVars
<1>2. CASE WorkerTask \/ InstallHandler \/ HandleSignal \/ Crash
  BY <1>2
     DEF WorkerTask, Worker, Load, LoadFails, ReadRequest, StdinClosed, Begin, FinishBatch,
         FinishStream, StreamTail, InstallHandler, HandleSignal, Crash, clientVars
<1>3. CASE Watchers \/ EvictTick \/ EvictionTask
  BY <1>3
     DEF Watchers, WatcherCounts, WatcherKills, EvictTick, EvictionTask, EvictSkip,
         EvictTake, EvictDone, clientVars
<1> QED
  BY <1>1, <1>2, <1>3 DEF Next, JobStep, vars, clientVars, Disconnect, Submit

\* What a step does to the signals under way and their targets.
LEMMA SignalSteps ==
    ASSUME SupervisorInv, [Next]_vars
    PROVE  /\ \A j \in (killing' \union signalled') \ (killing \union signalled) :
                 j \in Jobs /\ Members(j) \subseteq gone /\ jpc[j] = "read"
           /\ wk'.signal => wk.signal \/ signalled' # {}
           /\ \A j \in cancelled' \ cancelled :
                 wk.signal /\ j = wk.slot /\ j \in Jobs /\ jpc[j] \in {"read", "done"}
<1> USE DEF SupervisorInv
<1>1. wk \in Processes /\ counted \subseteq gone
  BY DEF TypeOK
<1>2. CASE wk' \in {NoProcess, [NoProcess EXCEPT !.proc = "loading"], Dead(wk)}
           /\ UNCHANGED <<signalled, cancelled>> /\ killing' \subseteq killing
  BY <1>2, NoMainTask
<1>3. CASE wk'.signal = wk.signal /\ UNCHANGED <<killing, signalled, cancelled>>
  BY <1>3
<1>4. ASSUME NEW j \in Jobs, JobStep(j)
      PROVE  \/ wk' \in {NoProcess, [NoProcess EXCEPT !.proc = "loading"], Dead(wk)}
                /\ UNCHANGED <<signalled, cancelled>> /\ killing' \subseteq killing
             \/ wk'.signal = wk.signal /\ UNCHANGED <<killing, signalled, cancelled>>
             \/ StreamCancel(j)
  <2>1. CASE StartSpawn(j)
    BY <2>1 DEF StartSpawn
  <2>2. CASE Drops(j)
    <3>1. UNCHANGED <<killing, signalled, cancelled>>
      BY <2>2
         DEF Drops, SpawnFailed, WorkerGone, WriteFailed, ReadOversize, ReadEof,
             MisreadTooLarge, clientVars
    <3> QED
      BY <1>4, <2>2, <3>1, KindsOfSteps
  <2>3. CASE Takes(j) \/ Spares(j) \/ Write(j)
    <3>1. UNCHANGED <<killing, signalled, cancelled>>
      BY <2>3
         DEF Takes, Spares, SpawnReady, ReadReply, MisreadPart, AskLock, SpawnRefused,
             WorkerAlive, MisreadReply, Write, clientVars
    <3>2. wk'.signal = wk.signal
      <4>1. CASE Takes(j)
        BY <1>1, <1>4, <4>1, KindsOfSteps DEF Processes
      <4>2. CASE Spares(j)
        BY <1>4, <4>2, KindsOfSteps
      <4>3. CASE Write(j)
        BY <1>1, <4>3 DEF Write, Processes
      <4> QED
        BY <2>3, <4>1, <4>2, <4>3
    <3> QED
      BY <3>1, <3>2
  <2> QED
    BY <1>4, <2>1, <2>2, <2>3, KindsOfSteps
<1>5. CASE \E j \in Jobs : StreamCancel(j)
  <2>1. PICK j \in Jobs : StreamCancel(j)
    BY <1>5
  <2>2. /\ signalled' = signalled \union {j} /\ UNCHANGED <<killing, cancelled>>
        /\ jpc[j] = "read" /\ Members(j) \subseteq gone
    BY <2>1 DEF StreamCancel, Deserted
  <2> QED
    BY <2>2
<1>6. CASE \E c \in Clients : WatcherCounts(c)
  <2>1. PICK c \in Clients : WatcherCounts(c)
    BY <1>6
  <2>2. c[1] \in Jobs /\ jpc[c[1]] = "read" /\ counted' \subseteq gone
    BY <1>1, <2>1 DEF WatcherCounts, Jobs
  <2>3. killing' \subseteq killing \/ Members(c[1]) \subseteq counted'
    BY <2>1 DEF WatcherCounts
  <2>4. killing' \subseteq killing \union {c[1]}
        /\ UNCHANGED <<signalled, cancelled, wk>>
    BY <2>1 DEF WatcherCounts
  <2> QED
    BY <2>2, <2>3, <2>4
<1>7. CASE \E j \in BatchJobs : WatcherKills(j)
  BY <1>7 DEF WatcherKills
<1>8. CASE HandleSignal
  <2>1. wk.slot # NoJob => wk.slot \in Jobs /\ jpc[wk.slot] \in {"read", "done"}
    BY <1>1, ProcessTypes DEF MainTask
  <2>2. wk.signal /\ UNCHANGED <<killing, signalled>>
    BY <1>8 DEF HandleSignal, clientVars
  <2> QED
    BY <1>8, <2>1, <2>2 DEF HandleSignal
<1>9. CASE LoadFails \/ StdinClosed \/ Crash \/ EvictDone
  BY <1>2, <1>9 DEF LoadFails, StdinClosed, Worker, Crash, EvictDone, clientVars
<1>10. CASE Load \/ ReadRequest \/ Begin \/ FinishBatch \/ FinishStream \/ StreamTail
            \/ InstallHandler \/ EvictTake
  BY <1>1, <1>3, <1>10
     DEF Load, ReadRequest, Begin, FinishBatch, FinishStream, StreamTail,
         InstallHandler, EvictTake, Worker, clientVars, Processes
<1>11. CASE UNCHANGED <<wk, killing, signalled, cancelled>>
  BY <1>3, <1>11
<1> QED
  BY <1>2, <1>3, <1>4, <1>5, <1>6, <1>7, <1>8, <1>9, <1>10, <1>11
     DEF Next, JobStep, vars, clientVars, Disconnect, Submit, Watchers, EvictTick, EvictionTask,
         EvictSkip, WorkerTask

\* Every step keeps the signals and who they are meant for.
LEMMA NextSignals == SupervisorInv /\ [Next]_vars => Signals'
<1> SUFFICES ASSUME SupervisorInv, [Next]_vars PROVE Signals'
  OBVIOUS
<1> USE DEF SupervisorInv
<1>1. gone \subseteq gone' /\ signalled \subseteq signalled'
  BY Grows
<1>2. killing \union signalled \subseteq Jobs /\ cancelled \subseteq Jobs
  BY DEF TypeOK, Jobs
<1>3. ASSUME NEW j \in killing' \union signalled'
      PROVE  Deserted(j)' /\ jpc'[j] \in {"read", "done"}
  <2>1. j \in Jobs /\ Members(j) \subseteq gone /\ jpc[j] \in {"read", "done"}
    BY <1>2, SignalSteps DEF Signals, Deserted
  <2>2. jpc'[j] \in {"read", "done"}
    BY <2>1, WrittenStays
  <2> QED
    BY <1>1, <2>1, <2>2 DEF Deserted, Members
<1>4. wk'.signal => signalled' # {}
  BY <1>1, SignalSteps DEF Signals
<1>5. cancelled' # {} => signalled' # {}
  BY <1>1, SignalSteps DEF Signals
<1>6. ASSUME NEW j \in cancelled' PROVE jpc'[j] \in {"read", "done"}
  <2>1. j \in Jobs /\ jpc[j] \in {"read", "done"}
    BY <1>2, SignalSteps DEF Signals
  <2> QED
    BY <2>1, WrittenStays
<1> QED
  BY <1>3, <1>4, <1>5, <1>6 DEF Signals

\* A pipe is torn while its worker is Inner::state's, and goes with it.
LEMMA TornIsHeld ==
    ASSUME SupervisorInv, [Next]_vars
    PROVE  wk'.torn => handle' \/ evictor' = "closing"
<1> USE DEF SupervisorInv
<1>1. wk \in Processes
  BY DEF TypeOK
<1>2. CASE ~wk'.torn
  BY <1>2
<1>3. CASE wk'.torn = wk.torn /\ (handle => handle') /\ evictor' = evictor
  BY <1>3 DEF Strays
<1>4. ASSUME NEW j \in Jobs, JobStep(j) PROVE wk'.torn => handle' \/ evictor' = "closing"
  <2>1. CASE Drops(j) \/ StartSpawn(j)
    <3>1. wk' \in {NoProcess, [NoProcess EXCEPT !.proc = "loading"]}
      BY <1>4, <2>1, KindsOfSteps DEF StartSpawn
    <3> QED
      BY <3>1 DEF NoProcess
  <2>2. CASE Takes(j)
    <3>1. wk'.torn = wk.torn
      BY <1>1, <1>4, <2>2, KindsOfSteps DEF Processes
    <3>2. (handle => handle') /\ evictor' = evictor
      BY <2>2 DEF Takes, SpawnReady, ReadReply, MisreadPart
    <3> QED
      BY <1>3, <3>1, <3>2
  <2>3. CASE Spares(j)
    <3>1. wk' = wk
      BY <1>4, <2>3, KindsOfSteps
    <3>2. (handle => handle') /\ evictor' = evictor
      BY <2>3 DEF Spares, AskLock, SpawnRefused, WorkerAlive, MisreadReply
    <3> QED
      BY <1>3, <3>1, <3>2
  <2>4. CASE Write(j)
    BY <1>1, <1>3, <2>4 DEF Write, Processes
  <2>5. CASE StreamCancel(j)
    BY <2>5 DEF StreamCancel, Ownership
  <2> QED
    BY <1>4, <2>1, <2>2, <2>3, <2>4, <2>5, KindsOfSteps
<1>5. CASE WorkerTask \/ InstallHandler \/ HandleSignal \/ Crash
  <2>1. UNCHANGED <<handle, evictor>>
    BY <1>5
       DEF WorkerTask, Worker, Load, LoadFails, ReadRequest, StdinClosed, Begin, FinishBatch,
           FinishStream, StreamTail, InstallHandler, HandleSignal, Crash
  <2> QED
    BY <1>3, <1>5, <2>1, WorkerKeepsTorn
<1>6. CASE \E j \in BatchJobs : WatcherKills(j)
  <2>1. wk'.torn = wk.torn
    BY <1>1, <1>6, DeadFields DEF WatcherKills, Delivered, Processes
  <2> QED
    BY <1>3, <1>6, <2>1 DEF WatcherKills
<1>7. CASE EvictTick \/ EvictSkip
  BY <1>7 DEF EvictTick, EvictSkip, Strays
<1>8. CASE EvictTake
  BY <1>8 DEF EvictTake
<1>9. CASE EvictDone
  BY <1>2, <1>9 DEF EvictDone, NoProcess
<1>10. CASE UNCHANGED <<wk, handle, evictor>>
  BY <1>3, <1>10
<1> QED
  BY <1>4, <1>5, <1>6, <1>7, <1>8, <1>9, <1>10
     DEF Next, JobStep, vars, clientVars, Disconnect, Submit, Watchers, WatcherCounts,
         EvictionTask

\* What is in the worker and its pipes after a step was there before it, or is the
\* request that a task wrote, or the worker's last message.
LEMMA NewContents ==
    ASSUME SupervisorInv, [Next]_vars
    PROVE  /\ \A j \in InWorker' : j \in InWorker \/ (j \in Jobs /\ jpc'[j] = "read")
           /\ \A m \in ToSet(wk'.stdout) :
                 m \in ToSet(wk.stdout) \/ (m.kind = "cancelled" => cancelled # {})
<1> USE DEF SupervisorInv
<1>1. wk \in Processes
      /\ jpc \in [Jobs -> {"new", "start", "lock", "spawn", "write", "read", "done"}]
  BY DEF TypeOK
<1>2. wk.stdin \in Seq(Jobs) /\ wk.stdout \in Seq(Messages)
      /\ wk.job \in Jobs \union {NoJob}
  BY <1>1, ProcessTypes
<1>3. CASE /\ wk'.stdin = wk.stdin /\ wk'.job = wk.job
           /\ ToSet(wk'.stdout) \subseteq ToSet(wk.stdout)
  BY <1>3 DEF InWorker
<1>4. CASE /\ wk'.stdin = <<>> /\ wk'.job = NoJob
           /\ ToSet(wk'.stdout) \subseteq ToSet(wk.stdout)
  <2>1. ToSet(wk'.stdin) = {}
    BY <1>4 DEF ToSet
  <2> QED
    BY <1>4, <2>1 DEF InWorker
<1>5. ASSUME wk' \in {NoProcess, [NoProcess EXCEPT !.proc = "loading"], Dead(wk)}
      PROVE  /\ wk'.stdin = <<>> /\ wk'.job = NoJob
             /\ ToSet(wk'.stdout) \subseteq ToSet(wk.stdout)
  <2>1. CASE wk' = Dead(wk)
    BY <2>1, DeadFields
  <2>2. CASE wk' \in {NoProcess, [NoProcess EXCEPT !.proc = "loading"]}
    <3>1. wk'.stdin = <<>> /\ wk'.job = NoJob /\ wk'.stdout = <<>>
      BY <2>2 DEF NoProcess
    <3> QED
      BY <3>1 DEF ToSet
  <2> QED
    BY <1>5, <2>1, <2>2
<1>6. CASE Signalling
  BY <1>3, <1>4, <1>6, SignalEffect
<1>7. ASSUME NEW m \in Messages, wk'.stdout = Append(wk.stdout, m),
             m.kind = "cancelled" => cancelled # {}, m.job \in {NoJob, wk.job},
             wk'.stdin = wk.stdin, wk'.job \in {NoJob, wk.job}
      PROVE  /\ \A j \in InWorker' : j \in InWorker \/ (j \in Jobs /\ jpc'[j] = "read")
             /\ \A n \in ToSet(wk'.stdout) :
                   n \in ToSet(wk.stdout) \/ (n.kind = "cancelled" => cancelled # {})
  <2>1. ToSet(wk'.stdout) = ToSet(wk.stdout) \union {m}
    BY <1>2, <1>7, AppendItems
  <2> QED
    BY <1>7, <2>1 DEF InWorker
<1>8. ASSUME NEW j \in Jobs, JobStep(j)
      PROVE  /\ \A i \in InWorker' : i \in InWorker \/ (i \in Jobs /\ jpc'[i] = "read")
             /\ \A m \in ToSet(wk'.stdout) :
                   m \in ToSet(wk.stdout) \/ (m.kind = "cancelled" => cancelled # {})
  <2>1. CASE Drops(j) \/ StartSpawn(j)
    BY <1>4, <1>5, <1>8, <2>1, KindsOfSteps DEF StartSpawn
  <2>2. CASE Takes(j)
    <3>1. wk.stdout # <<>> /\ wk' = [wk EXCEPT !.stdout = Tail(wk.stdout)]
      BY <1>8, <2>2, KindsOfSteps
    <3>2. wk'.stdin = wk.stdin /\ wk'.job = wk.job /\ wk'.stdout = Tail(wk.stdout)
      BY <1>1, <3>1 DEF Processes
    <3>3. ToSet(Tail(wk.stdout)) \subseteq ToSet(wk.stdout)
      BY <1>2, <3>1, HeadAndTailItems
    <3> QED
      BY <1>3, <3>2, <3>3
  <2>3. CASE Spares(j)
    BY <1>3, <1>8, <2>3, KindsOfSteps
  <2>4. CASE Write(j)
    <3>1. /\ wk'.stdin = Append(wk.stdin, j) /\ wk'.job = wk.job /\ wk'.stdout = wk.stdout
          /\ jpc'[j] = "read"
      BY <1>1, <2>4 DEF Write, Goto, Processes
    <3>2. ToSet(wk'.stdin) = ToSet(wk.stdin) \union {j}
      BY <1>2, <3>1, AppendItems
    <3> QED
      BY <3>1, <3>2 DEF InWorker
  <2>5. CASE StreamCancel(j)
    BY <1>6, <2>5, SignalSent
  <2> QED
    BY <1>8, <2>1, <2>2, <2>3, <2>4, <2>5, KindsOfSteps
<1>9. CASE Load
  <2> DEFINE m == [job |-> NoJob, kind |-> "ready"]
  <2>1. m \in Messages /\ m.job = NoJob /\ m.kind # "cancelled"
    BY DEF Messages
  <2>2. wk'.stdin = wk.stdin /\ wk'.job = wk.job /\ wk'.stdout = Append(wk.stdout, m)
    BY <1>1, <1>9 DEF Load, Worker, Processes
  <2> HIDE DEF m
  <2> QED
    BY <1>7, <2>1, <2>2
<1>10. CASE ReadRequest
  <2>1. wk.stdin # <<>> /\ wk'.stdin = Tail(wk.stdin) /\ wk'.job = Head(wk.stdin)
        /\ wk'.stdout = wk.stdout
    BY <1>1, <1>10 DEF ReadRequest, Worker, Processes
  <2>2. ToSet(wk.stdin) = {Head(wk.stdin)} \union ToSet(Tail(wk.stdin))
    BY <1>2, <2>1, HeadAndTailItems
  <2> QED
    BY <2>1, <2>2 DEF InWorker
<1>11. CASE FinishBatch \/ FinishStream
  <2>1. PICK how \in Outcomes, kind \in Replies \union {"oversize"} :
           /\ kind = "cancelled" => cancelled # {}
           /\ \/ wk'.stdout = Append(wk.stdout, [job |-> wk.job, kind |-> kind])
              \/ wk'.stdout = wk.stdout \o <<[job |-> wk.job, kind |-> kind]>>
              \/ wk'.stdout = wk.stdout \o <<>>
    <3>1. \A how \in Outcomes : /\ how \in Replies \union {"oversize", "panic"}
                                /\ how = "cancelled" => cancelled # {}
      BY DEF Outcomes, Replies
    <3>2. CASE FinishBatch
      <4>1. PICK how \in Outcomes :
               wk'.stdout = Append(wk.stdout,
                   [job |-> wk.job, kind |-> IF how = "panic" THEN "failed" ELSE how])
        BY <1>1, <3>2 DEF FinishBatch, Worker, Processes
      <4> DEFINE kind == IF how = "panic" THEN "failed" ELSE how
      <4>2. kind \in Replies \union {"oversize"} /\ (kind = "cancelled" => cancelled # {})
        BY <3>1 DEF Replies
      <4> QED
        BY <4>1, <4>2
    <3>3. CASE FinishStream
      <4>1. PICK how \in Outcomes :
               wk'.stdout = wk.stdout \o
                  (IF how = "panic" THEN <<>> ELSE <<[job |-> wk.job, kind |-> how]>>)
        BY <1>1, <3>3 DEF FinishStream, Worker, Processes
      <4>2. CASE how = "panic"
        BY <4>1, <4>2 DEF Replies
      <4>3. CASE how # "panic"
        BY <3>1, <4>1, <4>3
      <4> QED
        BY <4>2, <4>3
    <3> QED
      BY <1>11, <3>2, <3>3
  <2> DEFINE m == [job |-> wk.job, kind |-> kind]
  <2>2. wk'.stdin = wk.stdin /\ wk'.job = NoJob
    BY <1>1, <1>11 DEF FinishBatch, FinishStream, Worker, Processes
  <2>3. m \in Messages /\ m.job = wk.job /\ m.kind = kind
    BY <1>2 DEF Messages
  <2>4. wk'.stdout = Append(wk.stdout, m) \/ wk'.stdout = wk.stdout \o <<m>>
        \/ wk'.stdout = wk.stdout \o <<>>
    BY <2>1
  <2> HIDE DEF m
  <2>5. wk.stdout \o <<m>> = Append(wk.stdout, m) /\ wk.stdout \o <<>> = wk.stdout
    BY <1>2, <2>3, AppendIsConcat, ConcatEmptySeq
  <2>6. CASE wk'.stdout = Append(wk.stdout, m)
    BY <1>7, <2>1, <2>2, <2>3, <2>6
  <2>7. CASE wk'.stdout = wk.stdout
    BY <2>2, <2>7 DEF InWorker
  <2> QED
    BY <2>4, <2>5, <2>6, <2>7
<1>12. CASE Begin \/ StreamTail \/ InstallHandler \/ HandleSignal \/ EvictTake
  <2>1. wk'.stdin = wk.stdin /\ wk'.job = wk.job /\ wk'.stdout = wk.stdout
    BY <1>1, <1>12
       DEF Begin, StreamTail, InstallHandler, HandleSignal, EvictTake, Worker, Processes
  <2> QED
    BY <1>3, <2>1
<1>13. CASE LoadFails \/ StdinClosed \/ Crash \/ EvictDone
  <2>1. wk' \in {NoProcess, Dead(wk)}
    BY <1>13 DEF LoadFails, StdinClosed, Crash, EvictDone, Worker
  <2> QED
    BY <1>4, <1>5, <2>1
<1>14. CASE UNCHANGED wk
  BY <1>3, <1>14
<1> QED
  BY <1>6, <1>8, <1>9, <1>10, <1>11, <1>12, <1>13, <1>14, SignalSent
     DEF Next, JobStep, vars, clientVars, Disconnect, Submit, Watchers, WatcherCounts,
         EvictTick, EvictionTask, EvictSkip, WorkerTask

\* Every step keeps what may be left in the pipes.
LEMMA NextStrays == SupervisorInv /\ [Next]_vars => Strays'
<1> SUFFICES ASSUME SupervisorInv, [Next]_vars PROVE Strays'
  OBVIOUS
<1> USE DEF SupervisorInv
<1>1. wk'.torn => handle' \/ evictor' = "closing"
  BY TornIsHeld
<1>2. ASSUME NEW j \in InWorker' PROVE jpc'[j] \in {"read", "done"}
  <2>1. CASE j \in InWorker
    <3>1. j \in Jobs
      BY <2>1, InWorkerJobs
    <3> QED
      BY <2>1, <3>1, WrittenStays DEF Strays
  <2> QED
    BY <2>1, NewContents
<1>3. ASSUME NEW m \in ToSet(wk'.stdout), m.kind = "cancelled" PROVE cancelled' # {}
  <2>1. cancelled # {}
    BY <1>3, NewContents DEF Strays
  <2> QED
    BY <2>1, Grows
<1> QED
  BY <1>1, <1>2, <1>3 DEF Strays

\* What a reply says may be told to a job's clients, and if it is that the job was
\* cancelled, some token was flipped.
LEMMA Verdict ==
    ASSUME SupervisorInv, NEW j \in Jobs, ReadReply(j)
    PROVE  /\ Head(wk.stdout).kind \in Replies
           /\ Head(wk.stdout).kind = "cancelled" => cancelled # {}
<1>1. wk.stdout # <<>> /\ Head(wk.stdout).kind \in Replies
  BY DEF ReadReply
<1>2. Head(wk.stdout) \in ToSet(wk.stdout)
  BY <1>1, ProcessTypes, HeadAndTailItems DEF SupervisorInv, TypeOK
<1> QED
  BY <1>1, <1>2 DEF SupervisorInv, Strays

\* What a task tells its clients.
LEMMA JobTaskVerdicts ==
    ASSUME SupervisorInv, NEW j \in Jobs, JobStep(j)
    PROVE  \/ UNCHANGED verdict /\ \E at : at # "done" /\ jpc' = [jpc EXCEPT ![j] = at]
           \/ UNCHANGED <<verdict, jpc>>
           \/ /\ jpc' = [jpc EXCEPT ![j] = "done"]
              /\ \E v \in Verdicts \ {"none"} : verdict' = [verdict EXCEPT ![j] = v]
<1>1. CASE ReadReply(j)
  BY <1>1, Verdict DEF ReadReply, Finish, Goto, Verdicts, Replies
<1>2. CASE \/ SpawnRefused(j) \/ SpawnFailed(j) \/ WriteFailed(j) \/ ReadOversize(j)
           \/ ReadEof(j) \/ MisreadReply(j) \/ MisreadTooLarge(j)
  BY <1>2
     DEF SpawnRefused, SpawnFailed, WriteFailed, ReadOversize, ReadEof, MisreadReply,
         MisreadTooLarge, Finish, Goto, Verdicts
<1>3. CASE WorkerGone(j)
  BY <1>3 DEF WorkerGone, Finish, Goto, Verdicts
<1>4. CASE AskLock(j) \/ StartSpawn(j) \/ SpawnReady(j) \/ WorkerAlive(j) \/ Write(j)
  BY <1>4 DEF AskLock, StartSpawn, SpawnReady, WorkerAlive, Write, Goto
<1>5. CASE StreamCancel(j) \/ MisreadPart(j)
  BY <1>5 DEF StreamCancel, MisreadPart
<1> QED
  BY <1>1, <1>2, <1>3, <1>4, <1>5 DEF JobStep, JobTask, Misread

\* Every step keeps what clients were told.
LEMMA NextTold == SupervisorInv /\ [Next]_vars => Told'
<1> SUFFICES ASSUME SupervisorInv, [Next]_vars PROVE Told'
  OBVIOUS
<1> USE DEF SupervisorInv
<1>1. jpc \in [Jobs -> {"new", "start", "lock", "spawn", "write", "read", "done"}]
      /\ verdict \in [Jobs -> Verdicts]
  BY DEF TypeOK
<1>2. CASE \E j \in Jobs : JobStep(j)
  <2>1. PICK j \in Jobs : JobStep(j)
    BY <1>2
  <2>2. CASE UNCHANGED verdict /\ \E at : at # "done" /\ jpc' = [jpc EXCEPT ![j] = at]
    <3>1. jpc[j] # "done" \/ UNCHANGED jpc
      BY <2>1
         DEF JobStep, JobTask, Misread, AskLock, SpawnRefused, StartSpawn, SpawnReady,
             SpawnFailed, WorkerGone, WorkerAlive, Write, WriteFailed, StreamCancel,
             ReadReply, ReadOversize, ReadEof, MisreadReply, MisreadPart, MisreadTooLarge,
             Misreading
    <3> QED
      BY <1>1, <2>2, <3>1 DEF Told
  <2>3. CASE UNCHANGED <<verdict, jpc>>
    BY <2>3 DEF Told
  <2>4. CASE /\ jpc' = [jpc EXCEPT ![j] = "done"]
             /\ \E v \in Verdicts \ {"none"} : verdict' = [verdict EXCEPT ![j] = v]
    BY <1>1, <2>4 DEF Told
  <2> QED
    BY <2>1, <2>2, <2>3, <2>4, JobTaskVerdicts
<1>3. CASE \E j \in Jobs : Submit(j)
  BY <1>1, <1>3 DEF Submit, Goto, Told
<1>4. CASE UNCHANGED <<verdict, jpc>>
  BY <1>4 DEF Told
<1> QED
  BY <1>2, <1>3, <1>4
     DEF Next, JobStep, vars, clientVars, Disconnect, Watchers, WatcherCounts, WatcherKills,
         EvictTick, EvictionTask, EvictSkip, EvictTake, EvictDone, WorkerTask, Worker,
         Load, LoadFails, ReadRequest, StdinClosed, Begin, FinishBatch, FinishStream, StreamTail,
         InstallHandler, HandleSignal, Crash

-----------------------------------------------------------------------------
(* Types.                                                                    *)

\* The tasks of the jobs keep the types.
LEMMA JobTaskTypes ==
    ASSUME SupervisorInv, NEW j \in Jobs, JobStep(j)
    PROVE  TypeOK'
<1> USE DEF SupervisorInv
<1> DEFINE Places == {"new", "start", "lock", "spawn", "write", "read", "done"}
<1>1. wk \in Processes /\ jpc \in [Jobs -> Places] /\ verdict \in [Jobs -> Verdicts]
      /\ lockq \in Seq(Jobs \union {Evictor})
  BY DEF TypeOK
<1>2. lockq' \in Seq(Jobs \union {Evictor})
  <2>1. jpc[j] \in Owning => Holds(j)
    BY DEF Mutex
  <2>2. CASE AskLock(j)
    BY <1>1, <2>2, AppendProperties DEF AskLock
  <2>3. CASE lockq' = Tail(lockq) /\ Holds(j)
    BY <2>3, Leaves
  <2>4. CASE UNCHANGED lockq
    BY <1>1, <2>4
  <2> QED
    BY <2>1, <2>2, <2>3, <2>4
       DEF JobStep, JobTask, Misread, SpawnRefused, StartSpawn, SpawnReady, SpawnFailed,
           WorkerGone, WorkerAlive, Write, WriteFailed, StreamCancel, ReadReply, ReadOversize,
           ReadEof, MisreadReply, MisreadPart, MisreadTooLarge, Misreading, Finish, Owning
<1>3. jpc' \in [Jobs -> Places]
  BY <1>1
     DEF JobStep, JobTask, Misread, AskLock, SpawnRefused, StartSpawn, SpawnReady, SpawnFailed,
         WorkerGone, WorkerAlive, Write, WriteFailed, StreamCancel, ReadReply, ReadOversize,
         ReadEof, MisreadReply, MisreadPart, MisreadTooLarge,
         Finish, Goto
<1>4. verdict' \in [Jobs -> Verdicts]
  BY <1>1, JobTaskVerdicts
<1>5. wk' \in Processes
  <2>1. CASE Takes(j)
    <3>1. wk.stdout # <<>> /\ wk' = [wk EXCEPT !.stdout = Tail(wk.stdout)]
      BY <2>1, KindsOfSteps
    <3>2. Tail(wk.stdout) \in Seq(Messages)
      BY <1>1, <3>1, ProcessTypes, HeadTailProperties
    <3> QED
      BY <1>1, <3>1, <3>2 DEF Processes
  <2>2. CASE Write(j)
    <3>1. Append(wk.stdin, j) \in Seq(Jobs)
      BY <1>1, ProcessTypes, AppendProperties
    <3> QED
      BY <1>1, <2>2, <3>1 DEF Write, Processes
  <2>3. CASE StreamCancel(j)
    BY <2>3, SignalSent, SignalEffect
  <2>4. CASE Drops(j) \/ StartSpawn(j)
    BY <1>1, <2>4, ProcessTypes, KindsOfSteps DEF StartSpawn
  <2>5. CASE Spares(j)
    BY <1>1, <2>5, KindsOfSteps
  <2> QED
    BY <2>1, <2>2, <2>3, <2>4, <2>5, KindsOfSteps
<1>6. handle' \in BOOLEAN
  BY DEF TypeOK, JobStep, JobTask, Misread, AskLock, SpawnRefused, StartSpawn,
         SpawnReady, SpawnFailed,
         WorkerGone, WorkerAlive, Write, WriteFailed, StreamCancel, ReadReply, ReadOversize,
         ReadEof, MisreadReply, MisreadPart, MisreadTooLarge,
         DropWorker
<1>7. /\ killing' \subseteq killing /\ signalled' \subseteq signalled \union {j}
      /\ UNCHANGED <<gone, counted, cancelled, evictor, crashes>>
  BY DEF JobStep, JobTask, Misread, AskLock, SpawnRefused, StartSpawn, SpawnReady, SpawnFailed,
         WorkerGone, WorkerAlive, Write, WriteFailed, StreamCancel, ReadReply, ReadOversize,
         ReadEof, MisreadReply, MisreadPart, MisreadTooLarge,
         clientVars
<1> QED
  BY <1>2, <1>3, <1>4, <1>5, <1>6, <1>7 DEF TypeOK

\* The worker keeps the types.
LEMMA WorkerTypes ==
    ASSUME SupervisorInv, WorkerTask \/ InstallHandler \/ HandleSignal \/ Crash
    PROVE  TypeOK'
<1> USE DEF SupervisorInv
<1>1. wk \in Processes
  BY DEF TypeOK
<1>2. /\ UNCHANGED <<lockq, handle, jpc, verdict, clientVars, evictor>>
      /\ cancelled' \subseteq cancelled \union ({wk.slot} \ {NoJob})
  BY DEF WorkerTask, Worker, Load, LoadFails, ReadRequest, StdinClosed, Begin, FinishBatch,
         FinishStream, StreamTail, InstallHandler, HandleSignal, Crash, clientVars
<1>3. crashes' \in 0..MaxCrashes
  <2>1. CASE Crash
    BY <2>1, SizesAssumption DEF Crash, TypeOK
  <2>2. CASE UNCHANGED crashes
    BY <2>2 DEF TypeOK
  <2> QED
    BY <2>1, <2>2
       DEF WorkerTask, Worker, Load, LoadFails, ReadRequest, StdinClosed, Begin, FinishBatch,
           FinishStream, StreamTail, InstallHandler, HandleSignal
<1>4. cancelled' \subseteq Jobs
  BY <1>1, <1>2, ProcessTypes DEF TypeOK
<1>5. wk' \in Processes
  <2>1. /\ wk.stdin \in Seq(Jobs) /\ wk.stdout \in Seq(Messages)
        /\ wk.job \in Jobs \union {NoJob}
    BY <1>1, ProcessTypes
  <2>2. CASE Load
    <3>1. Append(wk.stdout, [job |-> NoJob, kind |-> "ready"]) \in Seq(Messages)
      BY <2>1, AppendProperties DEF Messages
    <3> QED
      BY <1>1, <2>2, <3>1 DEF Load, Worker, Processes
  <2>3. CASE ReadRequest
    <3>1. Head(wk.stdin) \in Jobs /\ Tail(wk.stdin) \in Seq(Jobs)
      BY <2>1, <2>3, HeadTailProperties DEF ReadRequest
    <3> QED
      BY <1>1, <2>3, <3>1 DEF ReadRequest, Worker, Processes
  <2>4. CASE LoadFails \/ StdinClosed \/ Crash
    BY <1>1, <2>4, ProcessTypes DEF LoadFails, StdinClosed, Crash, Worker
  <2>5. CASE Begin \/ StreamTail \/ InstallHandler \/ HandleSignal
    <3>1. \/ wk' = [wk EXCEPT !.pc = "running", !.slot = wk.job]
          \/ wk' = [wk EXCEPT !.pc = "idle", !.slot = NoJob]
          \/ wk' = [wk EXCEPT !.handler = TRUE]
          \/ wk' = [wk EXCEPT !.signal = FALSE]
      BY <2>5 DEF Begin, StreamTail, InstallHandler, HandleSignal, Worker
    <3>2. CASE wk' = [wk EXCEPT !.pc = "running", !.slot = wk.job]
      BY <1>1, <2>1, <3>2 DEF Processes
    <3>3. CASE wk' = [wk EXCEPT !.pc = "idle", !.slot = NoJob]
      BY <1>1, <3>3 DEF Processes
    <3>4. CASE wk' = [wk EXCEPT !.handler = TRUE] \/ wk' = [wk EXCEPT !.signal = FALSE]
      BY <1>1, <3>4 DEF Processes
    <3> QED
      BY <3>1, <3>2, <3>3, <3>4
  <2>6. Outcomes \subseteq Replies \union {"panic", "oversize"}
    BY DEF Outcomes, Replies
  <2>7. CASE FinishBatch
    <3>1. PICK how \in Outcomes :
             wk' = [wk EXCEPT !.pc = "idle", !.job = NoJob, !.slot = NoJob,
                              !.poisoned = how = "panic",
                              !.stdout = Append(wk.stdout, [job |-> wk.job,
                                 kind |-> IF how = "panic" THEN "failed" ELSE how])]
      BY <1>1, <2>7 DEF FinishBatch, Worker
    <3>2. [job |-> wk.job, kind |-> IF how = "panic" THEN "failed" ELSE how] \in Messages
      BY <2>1, <2>6, <3>1 DEF Messages, Replies
    <3>3. Append(wk.stdout, [job |-> wk.job,
                    kind |-> IF how = "panic" THEN "failed" ELSE how]) \in Seq(Messages)
      BY <2>1, <3>2, AppendProperties
    <3> QED
      BY <1>1, <3>1, <3>3 DEF Processes
  <2>8. CASE FinishStream
    <3>1. PICK how \in Outcomes :
             wk' = [wk EXCEPT !.pc = "tail", !.job = NoJob,
                              !.poisoned = how = "panic",
                              !.stdout = wk.stdout \o
                                 (IF how = "panic" THEN <<>>
                                  ELSE <<[job |-> wk.job, kind |-> how]>>)]
      BY <1>1, <2>8 DEF FinishStream, Worker
    <3>2. how # "panic" => [job |-> wk.job, kind |-> how] \in Messages
      BY <2>1, <2>6, <3>1 DEF Messages, Replies
    <3>3. (IF how = "panic" THEN <<>>
           ELSE <<[job |-> wk.job, kind |-> how]>>) \in Seq(Messages)
      BY <3>2, EmptySeq
    <3>4. wk'.stdout \in Seq(Messages)
      BY <1>1, <2>1, <3>1, <3>3, ConcatProperties DEF Processes
    <3> QED
      BY <1>1, <3>1, <3>4 DEF Processes
  <2> QED
    BY <2>2, <2>3, <2>4, <2>5, <2>7, <2>8 DEF WorkerTask
<1> QED
  BY <1>2, <1>3, <1>4, <1>5 DEF TypeOK, clientVars

\* Every step keeps the types.
LEMMA NextTypeOK == SupervisorInv /\ [Next]_vars => TypeOK'
<1> SUFFICES ASSUME SupervisorInv, [Next]_vars PROVE TypeOK'
  OBVIOUS
<1> USE DEF SupervisorInv
<1>1. CASE \E j \in Jobs : JobStep(j)
  BY <1>1, JobTaskTypes
<1>2. CASE WorkerTask \/ InstallHandler \/ HandleSignal \/ Crash
  BY <1>2, WorkerTypes
<1>3. CASE \E j \in Jobs : Submit(j)
  BY <1>3 DEF Submit, Goto, TypeOK, clientVars
<1>4. CASE \E c \in Clients : Disconnect(c)
  BY <1>4 DEF Disconnect, TypeOK
<1>5. CASE \E c \in Clients : WatcherCounts(c)
  BY <1>5 DEF WatcherCounts, TypeOK
<1>6. CASE \E j \in BatchJobs : WatcherKills(j)
  <2>1. wk' \in Processes
    BY <1>6, SignalSent, SignalEffect
  <2> QED
    BY <1>6, <2>1 DEF WatcherKills, TypeOK, Jobs
<1>7. CASE EvictTick
  <2>1. lockq' \in Seq(Jobs \union {Evictor})
    BY <1>7, AppendProperties DEF EvictTick, TypeOK
  <2> QED
    BY <1>7, <2>1 DEF EvictTick, TypeOK, clientVars
<1>8. CASE EvictSkip \/ EvictDone
  <2>1. Holds(Evictor) /\ lockq' = Tail(lockq)
    BY <1>8 DEF EvictSkip, EvictDone, Mutex
  <2>2. lockq' \in Seq(Jobs \union {Evictor})
    BY <2>1, Leaves
  <2>3. wk' \in Processes
    BY <1>8, ProcessTypes DEF EvictSkip, EvictDone, TypeOK
  <2> QED
    BY <1>8, <2>2, <2>3 DEF EvictSkip, EvictDone, TypeOK, clientVars
<1>9. CASE EvictTake
  <2>1. wk' \in Processes
    BY <1>9 DEF EvictTake, TypeOK, Processes
  <2> QED
    BY <1>9, <2>1 DEF EvictTake, TypeOK, clientVars
<1>10. CASE UNCHANGED vars
  BY <1>10 DEF vars, clientVars, TypeOK
<1> QED
  BY <1>1, <1>2, <1>3, <1>4, <1>5, <1>6, <1>7, <1>8, <1>9, <1>10
     DEF Next, JobStep, Watchers, EvictionTask

-----------------------------------------------------------------------------
(* The answer of a job under way.                                            *)

\* Without panics, the request of a job that reads, or its answer, is in the
\* pipes or in the worker's hands, as long as the worker lives and no part of the
\* answer went with a read that was given up.
AnswerInSight ==
    ~MayPanic =>
        /\ ~wk.poisoned
        /\ ~wk.torn => \A j \in Jobs : jpc[j] = "read" /\ wk.proc = "up" =>
              wk.stdin # <<>> \/ wk.stdout # <<>> \/ wk.job # NoJob

\* A signal takes no answer away.
LEMMA SignalKeepsAnswer ==
    ASSUME TypeOK, AnswerInSight, Signalling, UNCHANGED jpc
    PROVE  AnswerInSight'
BY SignalEffect DEF AnswerInSight

\* A task that reads has an answer to come.
LEMMA JobTaskKeepsAnswer ==
    ASSUME SupervisorInv, AnswerInSight, ~MayPanic, NEW j \in Jobs, JobStep(j)
    PROVE  AnswerInSight'
<1> USE DEF SupervisorInv
<1>1. wk \in Processes
      /\ jpc \in [Jobs -> {"new", "start", "lock", "spawn", "write", "read", "done"}]
  BY DEF TypeOK
<1>2. Holds(j) => \A i \in Jobs : jpc[i] \in Owning => i = j
  BY OneOwner
<1>3. jpc[j] \in Owning => Holds(j)
  BY DEF Mutex
<1>4. CASE Drops(j) \/ StartSpawn(j)
  <2>1. wk' \in {NoProcess, [NoProcess EXCEPT !.proc = "loading"]}
    BY <1>4, KindsOfSteps DEF StartSpawn
  <2>2. wk'.proc # "up" /\ ~wk'.poisoned
    BY <2>1 DEF NoProcess
  <2> QED
    BY <2>2 DEF AnswerInSight
<1>5. CASE Spares(j)
  <2>1. wk' = wk
    BY <1>5, KindsOfSteps
  <2>2. \A i \in Jobs : jpc'[i] = "read" => jpc[i] = "read"
    BY <1>1, <1>5
       DEF Spares, AskLock, SpawnRefused, WorkerAlive, MisreadReply, Finish, Goto
  <2> QED
    BY <2>1, <2>2 DEF AnswerInSight
<1>6. CASE Takes(j)
  <2>1. wk'.poisoned = wk.poisoned /\ wk'.torn = wk.torn
    BY <1>1, <1>6, KindsOfSteps DEF Processes
  <2>2. CASE MisreadPart(j)
    BY <2>1, <2>2 DEF MisreadPart, Misreading, AnswerInSight
  <2>3. CASE SpawnReady(j) \/ ReadReply(j)
    <3>1. jpc'[j] # "read" /\ jpc[j] \in Owning
      BY <1>1, <2>3 DEF SpawnReady, ReadReply, Finish, Goto, Owning
    <3>2. \A i \in Jobs : i # j => jpc'[i] = jpc[i]
      BY <1>1, <2>3 DEF SpawnReady, ReadReply, Finish, Goto
    <3>3. \A i \in Jobs : jpc'[i] # "read"
      BY <1>2, <1>3, <3>1, <3>2 DEF Owning
    <3> QED
      BY <2>1, <3>3 DEF AnswerInSight
  <2> QED
    BY <1>6, <2>2, <2>3 DEF Takes
<1>7. CASE Write(j)
  <2>1. Append(wk.stdin, j) # <<>>
    <3>1. wk.stdin \in Seq(Jobs)
      BY <1>1, ProcessTypes
    <3> QED
      BY <3>1, AppendProperties
  <2>2. wk'.stdin # <<>> /\ wk'.poisoned = wk.poisoned
    BY <1>1, <1>7, <2>1 DEF Write, Processes
  <2> QED
    BY <2>2 DEF AnswerInSight
<1>8. CASE StreamCancel(j)
  BY <1>8, SignalSent, SignalKeepsAnswer DEF StreamCancel
<1> QED
  BY <1>4, <1>5, <1>6, <1>7, <1>8, KindsOfSteps

\* Every step keeps that an answer comes, where the synthesis does not panic.
LEMMA NextAnswer ==
    SupervisorInv /\ AnswerInSight /\ [Next]_vars => AnswerInSight'
<1> SUFFICES ASSUME SupervisorInv, AnswerInSight, ~MayPanic, [Next]_vars
             PROVE  AnswerInSight'
  BY DEF AnswerInSight
<1> USE DEF SupervisorInv
<1>1. wk \in Processes
  BY DEF TypeOK
<1>2. CASE \E j \in Jobs : JobStep(j)
  BY <1>2, JobTaskKeepsAnswer
<1>3. CASE \E j \in Jobs : Submit(j)
  BY <1>3 DEF Submit, Goto, TypeOK, AnswerInSight
<1>4. CASE \E j \in BatchJobs : WatcherKills(j)
  BY <1>4, SignalSent, SignalKeepsAnswer DEF WatcherKills
<1>5. CASE LoadFails \/ StdinClosed \/ Crash \/ EvictDone
  <2>1. wk' = Dead(wk) \/ wk' = NoProcess
    BY <1>5 DEF LoadFails, StdinClosed, Worker, Crash, EvictDone
  <2>2. CASE wk' = Dead(wk)
    BY <2>2 DEF AnswerInSight, Dead, NoProcess
  <2>3. CASE wk' = NoProcess
    BY <2>3 DEF AnswerInSight, NoProcess
  <2> QED
    BY <2>1, <2>2, <2>3
<1>6. CASE Begin \/ StreamTail \/ InstallHandler \/ HandleSignal \/ EvictTake
  <2>1. /\ wk'.stdin = wk.stdin /\ wk'.stdout = wk.stdout /\ wk'.job = wk.job
        /\ wk'.poisoned = wk.poisoned /\ wk'.proc = wk.proc /\ jpc' = jpc
        /\ wk'.torn = wk.torn
    BY <1>1, <1>6
       DEF Begin, StreamTail, InstallHandler, HandleSignal, EvictTake, Worker, Processes
  <2> QED
    BY <2>1 DEF AnswerInSight
<1>7. CASE Load
  <2>1. Append(wk.stdout, [job |-> NoJob, kind |-> "ready"]) # <<>>
    <3>1. [job |-> NoJob, kind |-> "ready"] \in Messages
      BY DEF Messages
    <3>2. wk.stdout \in Seq(Messages)
      BY <1>1, ProcessTypes
    <3> QED
      BY <3>1, <3>2, AppendProperties
  <2>2. wk'.stdout # <<>> /\ wk'.poisoned = wk.poisoned
    BY <1>1, <1>7, <2>1 DEF Load, Worker, Processes
  <2> QED
    BY <2>2 DEF AnswerInSight
<1>8. CASE ReadRequest
  <2>1. Head(wk.stdin) # NoJob
    BY <1>1, <1>8, ProcessTypes, HeadTailProperties, NotJobs DEF ReadRequest
  <2>2. wk'.job # NoJob /\ wk'.poisoned = wk.poisoned
    BY <1>1, <1>8, <2>1 DEF ReadRequest, Worker, Processes
  <2> QED
    BY <2>2 DEF AnswerInSight
<1>9. CASE FinishBatch \/ FinishStream
  <2>1. "panic" \notin Outcomes /\ Outcomes \subseteq Replies \union {"oversize"}
    BY DEF Outcomes, AnswerInSight, Replies
  <2>2. wk.stdout \in Seq(Messages) /\ wk.job \in Jobs
    BY <1>1, <1>9, ProcessTypes DEF FinishBatch, FinishStream, Jobs
  <2>3. PICK how \in Outcomes :
           /\ wk'.stdout \in {Append(wk.stdout, [job |-> wk.job, kind |-> how]),
                              wk.stdout \o <<[job |-> wk.job, kind |-> how]>>}
           /\ ~wk'.poisoned
    <3>1. CASE FinishBatch
      BY <1>1, <3>1, <2>1 DEF FinishBatch, Worker, Processes
    <3>2. CASE FinishStream
      BY <1>1, <3>2, <2>1 DEF FinishStream, Worker, Processes
    <3> QED
      BY <1>9, <3>1, <3>2
  <2>4. [job |-> wk.job, kind |-> how] \in Messages
    BY <2>1, <2>2, <2>3 DEF Messages
  <2>5. wk'.stdout # <<>>
    BY <2>2, <2>3, <2>4, AppendProperties, AppendIsConcat
  <2> QED
    BY <2>3, <2>5 DEF AnswerInSight
<1>10. CASE UNCHANGED <<wk, jpc>>
  BY <1>10 DEF AnswerInSight
<1> QED
  BY <1>2, <1>3, <1>4, <1>5, <1>6, <1>7, <1>8, <1>9, <1>10
     DEF Next, JobStep, vars, clientVars, Disconnect, Watchers, WatcherCounts, EvictTick,
         EvictionTask, EvictSkip, WorkerTask

-----------------------------------------------------------------------------
(* The theorems.                                                             *)

\* The invariant holds in every state.
LEMMA SupervisorInvariance == Spec => []SupervisorInv
<1>1. SupervisorInv /\ [Next]_vars => SupervisorInv'
  BY NextTypeOK, NextMutex, NextOwnership, NextMainTask, NextPipes, NextSignals,
     NextStrays, NextTold DEF SupervisorInv
<1> QED
  BY <1>1, InitSupervisorInv, PTL DEF Spec

\* The supervisor and the worker never leave their types: in particular what a task
\* tells its clients is one of the outcomes of dispatch_batch and stream_relay.
THEOREM TypeCorrect == Spec => []TypeOK
<1>1. SupervisorInv => TypeOK
  BY DEF SupervisorInv
<1> QED
  BY <1>1, SupervisorInvariance, PTL

\* The pipes stay in sync, whatever the number of jobs, panics and crashes, until a
\* cancelled stream gives up a read in the middle of a frame: the response that
\* dispatch_batch or stream_relay reads is the one to its request, and nothing is
\* left for the next.  A worker whose pipe is torn is held by Inner::state or being
\* evicted (Strays), and the one that follows it starts in sync again.
THEOREM PipesStayInSync == Spec => []PipesInSync
<1>1. SupervisorInv => PipesInSync
  <2> SUFFICES ASSUME SupervisorInv, ~wk.torn
               PROVE  /\ \A j \in InWorker : jpc[j] = "read" /\ Holds(j)
                      /\ Len(wk.stdin) + Len(wk.stdout)
                            + (IF wk.job = NoJob THEN 0 ELSE 1) <= 1
    BY DEF PipesInSync
  <2> USE DEF SupervisorInv
  <2>1. ASSUME NEW j \in InWorker PROVE jpc[j] = "read" /\ Holds(j)
    <3>1. j \in Jobs
      BY InWorkerJobs
    <3>2. jpc[j] = "read"
      BY DEF Pipes
    <3> QED
      BY <3>1, <3>2 DEF Mutex, Owning
  <2>2. /\ Len(wk.stdin) \in Nat /\ Len(wk.stdout) \in Nat
        /\ wk.stdin = <<>> => Len(wk.stdin) = 0
        /\ wk.stdout = <<>> => Len(wk.stdout) = 0
    BY ProcessTypes, LenProperties, EmptySeq DEF TypeOK
  <2>3. Len(wk.stdin) + Len(wk.stdout) + (IF wk.job = NoJob THEN 0 ELSE 1) <= 1
    <3> DEFINE a == Len(wk.stdin)
               b == Len(wk.stdout)
    <3>1. /\ a \in Nat /\ a <= 1 /\ b \in Nat /\ b <= 1
          /\ a = 0 \/ b = 0
          /\ wk.job # NoJob => a = 0 /\ b = 0
      <4>1. /\ wk.stdin = <<>> \/ wk.stdout = <<>>
            /\ wk.job # NoJob => wk.stdin = <<>> /\ wk.stdout = <<>>
            /\ a <= 1 /\ b <= 1
        BY DEF Pipes
      <4> QED
        BY <2>2, <4>1
    <3> HIDE DEF a, b
    <3>2. a + b + (IF wk.job = NoJob THEN 0 ELSE 1) <= 1
      <4>1. CASE wk.job = NoJob
        <5>1. (IF wk.job = NoJob THEN 0 ELSE 1) = 0
          BY <4>1
        <5> QED
          BY <3>1, <5>1
      <4>2. CASE wk.job # NoJob
        <5>1. (IF wk.job = NoJob THEN 0 ELSE 1) = 1
          BY <4>2
        <5> QED
          BY <3>1, <4>2, <5>1
      <4> QED
        BY <4>1, <4>2
    <3> QED
      BY <3>2 DEF a, b
  <2> QED
    BY <2>1, <2>3
<1> QED
  BY <1>1, SupervisorInvariance, PTL

\* Between the check that the worker is alive and the end of the job, neither the
\* eviction task nor another job replaces the worker or closes its stdin.
THEOREM WorkerStaysHeld == Spec => []WorkerHeld
<1>1. SupervisorInv => WorkerHeld
  BY DEF SupervisorInv, Ownership, WorkerHeld
<1> QED
  BY <1>1, SupervisorInvariance, PTL

\* At most one model is loaded: a live process is Inner::state's, or a job is
\* starting it, or the eviction task is closing it, under the mutex.
THEOREM OneWorkerAtATime == Spec => []OneWorker
<1>1. SupervisorInv => OneWorker
  BY DEF SupervisorInv, Ownership, Mutex, OneWorker, Spawning, Owning
<1> QED
  BY <1>1, SupervisorInvariance, PTL

\* SIGUSR1 flips the token of a job under way only if all of its clients hung up,
\* or all those of a job that is over: the late signal of dispatch_batch's watcher.
THEOREM CancellationNeedsDesertion == Spec => []CancelNeedsDesertion
<1>1. SupervisorInv => CancelNeedsDesertion
  <2> SUFFICES ASSUME SupervisorInv, NEW j \in cancelled, jpc[j] = "read"
               PROVE  Deserted(j) \/ \E i \in signalled \ {j} :
                                        Deserted(i) /\ jpc[i] = "done"
    BY DEF CancelNeedsDesertion
  <2> USE DEF SupervisorInv
  <2>1. PICK i \in signalled : Deserted(i) /\ jpc[i] \in {"read", "done"}
    BY DEF Signals
  <2>2. i \in Jobs /\ j \in Jobs
    BY <2>1 DEF TypeOK
  <2>3. jpc[i] = "read" => i = j
    BY <2>2 DEF Mutex, Owning, Holds
  <2> QED
    BY <2>1, <2>3
<1> QED
  BY <1>1, SupervisorInvariance, PTL

\* Where synthesis does not panic, and no part of an answer was lost with a cancelled
\* read, the task that holds the mutex never reads from a worker that waits for a
\* request: every synthesis ends with a response or a terminal frame.  (With panics
\* the model checker finds the stream that hangs.)
THEOREM ReaderIsAnswered == ~MayPanic => (Spec => []NoReadFromIdleWorker)
<1> SUFFICES ASSUME ~MayPanic PROVE Spec => []NoReadFromIdleWorker
  OBVIOUS
<1>1. Init => AnswerInSight
  BY DEF Init, NoProcess, AnswerInSight
<1>2. SupervisorInv /\ AnswerInSight => NoReadFromIdleWorker
  BY DEF SupervisorInv, MainTask, AnswerInSight, NoReadFromIdleWorker, Idle
<1> QED
  BY <1>1, <1>2, NextAnswer, SupervisorInvariance, PTL DEF Spec

-----------------------------------------------------------------------------
(* The supervisor implements WorkerService.                                  *)

\* The service's view of the jobs.
Waiting == {j \in Jobs : jpc[j] \in {"start", "lock", "spawn"}}
Serving == {j \in Jobs : jpc[j] \in {"write", "read"}}
DesertedJobs == {j \in Jobs : Deserted(j)}
WorkerSeen == IF ~handle THEN "none" ELSE IF Harmed THEN "harmed" ELSE "well"

\* WorkerService's variables, by name.
LEMMA ServiceView ==
    /\ Service!Jobs = Jobs
    /\ UNCHANGED <<Waiting, Serving, verdict, DesertedJobs, WorkerSeen>>
          => UNCHANGED Service!vars
BY DEF Service!Jobs, Jobs, Service!vars, Waiting, Serving, DesertedJobs, WorkerSeen

\* Every job has a client.
LEMMA JobsHaveClients == \A j \in Jobs : Members(j) # {}
<1> SUFFICES ASSUME NEW j \in Jobs PROVE Members(j) # {}
  OBVIOUS
<1>1. 1 \in 1..Width
  BY SizesAssumption
<1>2. <<j, 1>> \in Members(j)
  BY <1>1 DEF Members
<1> QED
  BY <1>2

\* The first state is one of WorkerService.
LEMMA InitService == Init => Service!Init
<1> SUFFICES ASSUME Init PROVE Service!Init
  OBVIOUS
<1>1. {j \in Jobs : Deserted(j)} = {}
  BY JobsHaveClients DEF Init, Deserted
<1>2. ~handle
  BY DEF Init
<1>3. {j \in Jobs : jpc[j] \in {"start", "lock", "spawn"}} = {}
      /\ {j \in Jobs : jpc[j] \in {"write", "read"}} = {}
  BY DEF Init
<1> QED
  BY <1>1, <1>2, <1>3, ServiceView DEF Init, Service!Init

\* A client that hangs up deserts at most its own job.
LEMMA DisconnectServed ==
    ASSUME TypeOK, NEW c \in Clients, Disconnect(c)
    PROVE  [Service!Next]_(Service!vars)
<1>1. PICK k \in Jobs : c \in Members(k)
  BY DEF Clients
<1>2. \A i \in Jobs : i # k => c \notin Members(i)
  BY <1>1 DEF Members
<1>3. \A i \in Jobs : i # k => (Deserted(i)' <=> Deserted(i))
  BY <1>2 DEF Disconnect, Deserted, Members
<1>4. Deserted(k) => Deserted(k)'
  BY DEF Disconnect, Deserted, Members
<1>5. DesertedJobs' = DesertedJobs \/ DesertedJobs' = DesertedJobs \union {k}
  BY <1>3, <1>4 DEF DesertedJobs
<1>6. UNCHANGED <<Waiting, Serving, verdict, WorkerSeen>>
  BY DEF Disconnect, Waiting, Serving, WorkerSeen, Harmed
<1>7. CASE DesertedJobs' = DesertedJobs
  BY <1>6, <1>7, ServiceView
<1>8. CASE DesertedJobs' = DesertedJobs \union {k}
  <2>1. Service!Desert(k)
    BY <1>6, <1>8 DEF Service!Desert, Waiting, Serving, WorkerSeen, DesertedJobs
  <2> QED
    BY <2>1, ServiceView DEF Service!Next
<1> QED
  BY <1>5, <1>7, <1>8

\* A job that asks.
LEMMA SubmitServed ==
    ASSUME SupervisorInv, NEW j \in Jobs, Submit(j)
    PROVE  Service!Next
<1>1. jpc \in [Jobs -> {"new", "start", "lock", "spawn", "write", "read", "done"}]
  BY DEF SupervisorInv, TypeOK
<1>2. jpc[j] = "new" /\ jpc' = [jpc EXCEPT ![j] = "start"]
  BY DEF Submit, Goto
<1>3. Waiting' = Waiting \union {j} /\ Serving' = Serving
      /\ j \notin Waiting \union Serving
  BY <1>1, <1>2 DEF Waiting, Serving
<1>4. verdict[j] = "none"
  BY <1>2 DEF SupervisorInv, Told
<1>5. UNCHANGED <<verdict, DesertedJobs, WorkerSeen>>
  BY DEF Submit, clientVars, DesertedJobs, Deserted, Members, WorkerSeen, Harmed
<1>6. Service!Ask(j)
  BY <1>3, <1>4, <1>5 DEF Service!Ask, Waiting, Serving, DesertedJobs, WorkerSeen
<1> QED
  BY <1>6, ServiceView DEF Service!Next

\* A verdict reaches the clients.
LEMMA FinishTells ==
    ASSUME TypeOK, NEW j \in Jobs, NEW v, Finish(j, v), UNCHANGED gone
    PROVE  Service!Tell(j, v)
<1>1. jpc \in [Jobs -> {"new", "start", "lock", "spawn", "write", "read", "done"}]
  BY DEF TypeOK
<1>2. jpc' = [jpc EXCEPT ![j] = "done"] /\ verdict' = [verdict EXCEPT ![j] = v]
  BY DEF Finish, Goto
<1>3. Waiting' = Waiting \ {j} /\ Serving' = Serving \ {j}
  BY <1>1, <1>2 DEF Waiting, Serving
<1>4. UNCHANGED DesertedJobs
  BY DEF DesertedJobs, Deserted, Members
<1> QED
  BY <1>2, <1>3, <1>4 DEF Service!Tell, Waiting, Serving, DesertedJobs

\* The holder of the mutex is served alone, or nobody is.
LEMMA HolderServed ==
    ASSUME SupervisorInv, NEW j \in Jobs, Holds(j)
    PROVE  /\ jpc[j] \in {"write", "read"} => Serving = {j}
           /\ jpc[j] \in {"lock", "spawn"} => Serving = {} /\ j \in Waiting
<1>1. \A i \in Jobs : jpc[i] \in Owning => i = j
  BY OneOwner DEF SupervisorInv
<1> QED
  BY <1>1 DEF Serving, Waiting, Owning

\* A worker that came to harm stays so while a job has it: nothing makes up for its
\* death, a torn pipe, or a response too large.
LEMMA HarmStays ==
    ASSUME SupervisorInv, handle, Harmed,
           \/ WorkerTask \/ InstallHandler \/ HandleSignal \/ Crash
           \/ Signalling
           \/ \E j \in Jobs : MisreadPart(j)
    PROVE  Harmed'
<1> USE DEF SupervisorInv
<1>1. wk \in Processes /\ wk.stdout \in Seq(Messages) /\ wk.job \in Jobs \union {NoJob}
  BY ProcessTypes DEF TypeOK
<1>2. CASE WorkerTask \/ InstallHandler \/ HandleSignal \/ Crash
  <2>1. wk.proc = "up"
    BY <1>2
       DEF WorkerTask, Load, LoadFails, ReadRequest, StdinClosed, Begin, FinishBatch,
           FinishStream, StreamTail, InstallHandler, HandleSignal, Crash, Idle, Ownership,
           MainTask
  <2>2. wk'.torn = wk.torn
    BY <1>2, WorkerKeepsTorn
  <2>3. ToSet(wk.stdout) \subseteq ToSet(wk'.stdout)
    <3>1. CASE LoadFails \/ StdinClosed \/ Crash
      BY <3>1, DeadFields DEF LoadFails, StdinClosed, Crash, Worker
    <3>2. CASE ReadRequest \/ Begin \/ StreamTail \/ InstallHandler \/ HandleSignal
      BY <1>1, <3>2
         DEF ReadRequest, Begin, StreamTail, InstallHandler, HandleSignal, Worker, Processes
    <3>3. CASE FinishBatch \/ FinishStream
      <4>1. PICK t \in Seq(Messages) : wk'.stdout = wk.stdout \o t
        <5>1. Outcomes \subseteq Replies \union {"panic", "oversize"}
          BY DEF Outcomes, Replies
        <5>2. \A kind \in Replies \union {"oversize"} :
                 /\ [job |-> wk.job, kind |-> kind] \in Messages
                 /\ <<[job |-> wk.job, kind |-> kind]>> \in Seq(Messages)
          BY <1>1 DEF Messages
        <5>3. CASE FinishBatch
          <6>1. PICK how \in Outcomes :
                   wk'.stdout = Append(wk.stdout,
                       [job |-> wk.job, kind |-> IF how = "panic" THEN "failed" ELSE how])
            BY <1>1, <5>3 DEF FinishBatch, Worker, Processes
          <6> DEFINE kind == IF how = "panic" THEN "failed" ELSE how
          <6>2. kind \in Replies \union {"oversize"}
            BY <5>1, <6>1 DEF Replies
          <6> HIDE DEF kind
          <6>3. wk'.stdout = wk.stdout \o <<[job |-> wk.job, kind |-> kind]>>
            BY <1>1, <5>2, <6>1, <6>2, AppendIsConcat DEF kind
          <6> QED
            BY <5>2, <6>2, <6>3
        <5>4. CASE FinishStream
          <6>1. PICK how \in Outcomes :
                   wk'.stdout = wk.stdout \o
                      (IF how = "panic" THEN <<>> ELSE <<[job |-> wk.job, kind |-> how]>>)
            BY <1>1, <5>4 DEF FinishStream, Worker, Processes
          <6>2. (IF how = "panic" THEN <<>> ELSE <<[job |-> wk.job, kind |-> how]>>)
                   \in Seq(Messages)
            BY <5>1, <5>2, <6>1, EmptySeq
          <6> QED
            BY <6>1, <6>2
        <5> QED
          BY <3>3, <5>3, <5>4
      <4> QED
        BY <1>1, <4>1, ConcatItems
    <3>4. ~Load
      BY <2>1 DEF Load
    <3> QED
      BY <1>2, <3>1, <3>2, <3>3, <3>4 DEF WorkerTask
  <2> QED
    BY <2>1, <2>2, <2>3 DEF Harmed
<1>3. CASE Signalling
  BY <1>3, SignalEffect DEF Harmed
<1>4. CASE \E j \in Jobs : MisreadPart(j)
  <2>1. wk.torn /\ wk'.torn = wk.torn
    BY <1>1, <1>4 DEF MisreadPart, Misreading, Processes
  <2> QED
    BY <2>1 DEF Harmed
<1> QED
  BY <1>2, <1>3, <1>4

\* The steps that tell the clients nothing and start no job.
LEMMA OthersServed ==
    ASSUME SupervisorInv, UNCHANGED <<jpc, verdict, gone, handle>>,
           handle /\ Harmed => Harmed'
    PROVE  [Service!Next]_(Service!vars)
<1>1. UNCHANGED <<Waiting, Serving, verdict, DesertedJobs>>
  BY DEF Waiting, Serving, DesertedJobs, Deserted, Members
<1>2. CASE WorkerSeen' = WorkerSeen
  BY <1>1, <1>2, ServiceView
<1>3. CASE WorkerSeen = "well" /\ WorkerSeen' = "harmed"
  <2>1. Service!Harm
    BY <1>1, <1>3 DEF Service!Harm, Waiting, Serving, DesertedJobs, WorkerSeen
  <2> QED
    BY <2>1 DEF Service!Next
<1>4. \/ WorkerSeen' = WorkerSeen
      \/ WorkerSeen = "well" /\ WorkerSeen' = "harmed"
  BY DEF WorkerSeen
<1> QED
  BY <1>2, <1>3, <1>4

\* A step of a job's task is a step of WorkerService or none.
LEMMA JobTaskServed ==
    ASSUME SupervisorInv, NEW j \in Jobs, JobStep(j)
    PROVE  [Service!Next]_(Service!vars)
<1> USE DEF SupervisorInv
<1>1. /\ jpc \in [Jobs -> {"new", "start", "lock", "spawn", "write", "read", "done"}]
      /\ wk \in Processes /\ wk.stdout \in Seq(Messages)
  BY ProcessTypes DEF TypeOK
<1>2. jpc[j] \in Owning => Holds(j)
  BY DEF Mutex
<1>3. CASE AskLock(j) \/ StartSpawn(j) \/ Write(j)
  <2>1. UNCHANGED <<verdict, gone, handle>>
    BY <1>3 DEF AskLock, StartSpawn, Write, clientVars
  <2>2. Waiting' = Waiting /\ Serving' = Serving
    BY <1>1, <1>3 DEF AskLock, StartSpawn, Write, Goto, Waiting, Serving
  <2>3. handle => wk'.proc = wk.proc /\ wk'.torn = wk.torn /\ wk'.stdout = wk.stdout
    BY <1>1, <1>3 DEF AskLock, StartSpawn, Write, Processes
  <2>4. UNCHANGED <<DesertedJobs, WorkerSeen>>
    BY <2>1, <2>3 DEF DesertedJobs, Deserted, Members, WorkerSeen, Harmed
  <2> QED
    BY <2>1, <2>2, <2>4, ServiceView
<1>4. CASE SpawnReady(j)
  <2>1. /\ jpc[j] = "spawn" /\ jpc' = [jpc EXCEPT ![j] = "lock"]
        /\ handle' = TRUE /\ UNCHANGED <<verdict, gone>>
    BY <1>4 DEF SpawnReady, Goto, clientVars
  <2>2. Serving = {} /\ j \in Waiting /\ WorkerSeen = "none"
    BY <1>2, <2>1, HolderServed DEF Owning, Ownership, WorkerSeen
  <2>3. Waiting' = Waiting /\ Serving' = Serving
    BY <1>1, <2>1 DEF Waiting, Serving
  <2>4. WorkerSeen' \in {"well", "harmed"} /\ UNCHANGED <<verdict, DesertedJobs>>
    BY <2>1 DEF WorkerSeen, DesertedJobs, Deserted, Members
  <2>5. Service!Start(j)
    BY <2>2, <2>3, <2>4
       DEF Service!Start, Service!Turn, Waiting, Serving, DesertedJobs, WorkerSeen
  <2> QED
    BY <2>5, ServiceView DEF Service!Next
<1>5. CASE WorkerAlive(j)
  <2>1. jpc[j] = "lock" /\ Holds(j) /\ handle /\ jpc' = [jpc EXCEPT ![j] = "write"]
    BY <1>5 DEF WorkerAlive, Goto
  <2>2. Serving = {} /\ j \in Waiting
    BY <2>1, HolderServed
  <2>3. Waiting' = Waiting \ {j} /\ Serving' = {j}
    BY <1>1, <2>1, <2>2 DEF Waiting, Serving
  <2>4. UNCHANGED <<verdict, DesertedJobs, WorkerSeen>> /\ WorkerSeen # "none"
    BY <1>5, <2>1
       DEF WorkerAlive, clientVars, DesertedJobs, Deserted, Members, WorkerSeen, Harmed
  <2>5. Service!Serve(j)
    BY <2>2, <2>3, <2>4
       DEF Service!Serve, Service!Turn, Waiting, Serving, DesertedJobs, WorkerSeen
  <2> QED
    BY <2>5, ServiceView DEF Service!Next
<1>6. CASE SpawnRefused(j) \/ SpawnFailed(j)
  <2>1. jpc[j] \in {"lock", "spawn"} /\ Finish(j, "model_missing")
        /\ UNCHANGED <<gone, handle>>
    BY <1>6 DEF SpawnRefused, SpawnFailed, clientVars
  <2>2. Holds(j) /\ ~handle
    BY <1>2, <1>6 DEF SpawnRefused, SpawnFailed, Owning, Ownership
  <2>3. Serving = {} /\ j \in Waiting /\ WorkerSeen = "none" /\ WorkerSeen' = "none"
    BY <2>1, <2>2, HolderServed DEF WorkerSeen
  <2>4. Service!NoWorker(j)
    BY <2>1, <2>3, FinishTells
       DEF Service!NoWorker, Service!Turn, Waiting, Serving, WorkerSeen
  <2> QED
    BY <2>4, ServiceView DEF Service!Next
<1>7. CASE WorkerGone(j)
  <2>1. jpc[j] = "lock" /\ Holds(j) /\ handle /\ wk.proc = "dead" /\ ~handle'
        /\ UNCHANGED gone
    BY <1>7 DEF WorkerGone, DropWorker, clientVars
  <2>2. Serving = {} /\ j \in Waiting
    BY <2>1, HolderServed
  <2>3. WorkerSeen = "harmed" /\ WorkerSeen' = "none"
    BY <2>1 DEF WorkerSeen, Harmed
  <2>4. CASE j \in BatchJobs
    <3>1. jpc' = [jpc EXCEPT ![j] = "start"] /\ UNCHANGED verdict
      BY <1>7, <2>4 DEF WorkerGone, Goto
    <3>2. UNCHANGED <<Waiting, Serving, DesertedJobs>>
      BY <1>1, <2>1, <3>1 DEF Waiting, Serving, DesertedJobs, Deserted, Members
    <3>3. Service!Retry(j)
      BY <2>2, <2>3, <2>4, <3>1, <3>2
         DEF Service!Retry, Service!Turn, Waiting, Serving, DesertedJobs, WorkerSeen
    <3> QED
      BY <3>3, ServiceView DEF Service!Next
  <2>5. CASE j \notin BatchJobs
    <3>1. Finish(j, "worker_exited") /\ j \in StreamJobs
      BY <1>7, <2>5 DEF WorkerGone, Jobs
    <3>2. Service!StreamRefused(j)
      BY <2>1, <2>2, <2>3, <3>1, FinishTells
         DEF Service!StreamRefused, Service!Turn, Waiting, Serving, WorkerSeen
    <3> QED
      BY <3>2, ServiceView DEF Service!Next
  <2> QED
    BY <2>4, <2>5
<1>8. CASE WriteFailed(j) \/ ReadOversize(j) \/ ReadEof(j) \/ MisreadTooLarge(j)
  <2>1. jpc[j] \in {"write", "read"} /\ Finish(j, "pipe_error") /\ ~handle'
        /\ UNCHANGED gone
    BY <1>8
       DEF WriteFailed, ReadOversize, ReadEof, MisreadTooLarge, Misreading, DropWorker,
           clientVars
  <2>2. Serving = {j}
    BY <1>2, <2>1, HolderServed DEF Owning
  <2>3. Harmed
    <3>1. CASE ReadOversize(j)
      <4>1. Head(wk.stdout) \in ToSet(wk.stdout) /\ Head(wk.stdout).kind = "oversize"
        BY <1>1, <3>1, HeadAndTailItems DEF ReadOversize
      <4> QED
        BY <4>1 DEF Harmed
    <3>2. CASE WriteFailed(j) \/ ReadEof(j) \/ MisreadTooLarge(j)
      BY <3>2 DEF WriteFailed, ReadEof, MisreadTooLarge, Misreading, Harmed
    <3> QED
      BY <1>8, <3>1, <3>2
  <2>4. WorkerSeen = "harmed" /\ WorkerSeen' = "none"
    BY <2>1, <2>3 DEF Ownership, WorkerSeen
  <2>5. Service!Fail(j)
    BY <2>1, <2>2, <2>4, FinishTells DEF Service!Fail, Serving, WorkerSeen
  <2> QED
    BY <2>5, ServiceView DEF Service!Next
<1>9. CASE MisreadReply(j)
  <2>1. jpc[j] = "read" /\ wk.torn /\ Finish(j, "garbled") /\ UNCHANGED <<gone, handle, wk>>
    BY <1>9 DEF MisreadReply, Misreading, clientVars
  <2>2. Serving = {j}
    BY <1>2, <2>1, HolderServed DEF Owning
  <2>3. WorkerSeen = "harmed" /\ UNCHANGED WorkerSeen
    BY <2>1 DEF Ownership, WorkerSeen, Harmed
  <2>4. Service!Garbled(j)
    BY <2>1, <2>2, <2>3, FinishTells DEF Service!Garbled, Serving, WorkerSeen
  <2> QED
    BY <2>4, ServiceView DEF Service!Next
<1>10. CASE StreamCancel(j) \/ MisreadPart(j)
  <2>1. UNCHANGED <<jpc, verdict, gone, handle>>
    BY <1>10 DEF StreamCancel, MisreadPart, clientVars
  <2>2. handle /\ Harmed => Harmed'
    BY <1>10, SignalSent, HarmStays
  <2> QED
    BY <2>1, <2>2, OthersServed
<1>11. CASE ReadReply(j)
  <2>1. /\ jpc[j] = "read" /\ wk.stdout # <<>> /\ UNCHANGED <<gone, handle>>
        /\ Head(wk.stdout).kind \in Replies
        /\ wk' = [wk EXCEPT !.stdout = Tail(wk.stdout)]
    BY <1>11 DEF ReadReply, clientVars
  <2>2. PICK v \in Replies : Finish(j, v) /\ (v = "cancelled" => cancelled # {})
    BY <1>11, Verdict DEF ReadReply
  <2>3. Serving = {j}
    BY <1>2, <2>1, HolderServed DEF Owning
  <2>4. Service!Tell(j, v)
    BY <2>1, <2>2, FinishTells
  <2>5. UNCHANGED WorkerSeen
    <3>1. wk'.proc = wk.proc /\ wk'.torn = wk.torn /\ wk'.stdout = Tail(wk.stdout)
      BY <1>1, <2>1 DEF Processes
    <3>2. ToSet(wk.stdout) = {Head(wk.stdout)} \union ToSet(wk'.stdout)
      BY <1>1, <2>1, <3>1, HeadAndTailItems
    <3>3. Head(wk.stdout).kind # "oversize"
      BY <2>1 DEF Replies
    <3>4. Harmed' <=> Harmed
      BY <3>1, <3>2, <3>3 DEF Harmed
    <3> QED
      BY <2>1, <3>4 DEF WorkerSeen
  <2>6. CASE v \in {"ok", "failed"}
    <3>1. Service!Answer(j)
      BY <2>3, <2>4, <2>5, <2>6 DEF Service!Answer, Serving, WorkerSeen
    <3> QED
      BY <3>1, ServiceView DEF Service!Next
  <2>7. CASE v = "cancelled"
    <3>1. PICK i \in signalled : Deserted(i)
      BY <2>2, <2>7 DEF Signals
    <3>2. i \in DesertedJobs
      BY <3>1 DEF DesertedJobs, TypeOK
    <3>3. Service!Cancelled(j)
      BY <2>3, <2>4, <2>5, <2>7, <3>2
         DEF Service!Cancelled, Serving, DesertedJobs, WorkerSeen
    <3> QED
      BY <3>3, ServiceView DEF Service!Next
  <2> QED
    BY <2>2, <2>6, <2>7 DEF Replies
<1> QED
  BY <1>3, <1>4, <1>5, <1>6, <1>7, <1>8, <1>9, <1>10, <1>11 DEF JobStep, JobTask, Misread

\* The eviction task takes a worker that no job has.
LEMMA EvictServed ==
    ASSUME SupervisorInv, EvictTick \/ EvictionTask
    PROVE  [Service!Next]_(Service!vars)
<1> USE DEF SupervisorInv
<1>1. UNCHANGED <<jpc, verdict, gone>>
  BY DEF EvictTick, EvictionTask, EvictSkip, EvictTake, EvictDone, clientVars
<1>2. CASE EvictTick \/ EvictSkip
  BY <1>1, <1>2, OthersServed DEF EvictTick, EvictSkip, Harmed
<1>3. CASE EvictTake
  <2>1. Holds(Evictor) /\ handle /\ ~handle'
    BY <1>3 DEF EvictTake
  <2>2. Serving = {}
    BY <2>1, OneOwner, NotJobs DEF Serving, Owning
  <2>3. WorkerSeen # "none" /\ WorkerSeen' = "none"
    BY <2>1 DEF WorkerSeen
  <2>4. UNCHANGED <<Waiting, Serving, verdict, DesertedJobs>>
    BY <1>1 DEF Waiting, Serving, DesertedJobs, Deserted, Members
  <2>5. Service!Evict
    BY <2>2, <2>3, <2>4 DEF Service!Evict, Waiting, Serving, DesertedJobs, WorkerSeen
  <2> QED
    BY <2>5 DEF Service!Next
<1>4. CASE EvictDone
  <2>1. ~handle /\ handle' = handle
    BY <1>4 DEF EvictDone, Ownership
  <2> QED
    BY <1>1, <2>1, OthersServed
<1> QED
  BY <1>2, <1>3, <1>4 DEF EvictionTask

\* Every step is a step of WorkerService or none.
LEMMA NextServed ==
    SupervisorInv /\ [Next]_vars => [Service!Next]_(Service!vars)
<1> SUFFICES ASSUME SupervisorInv, [Next]_vars PROVE [Service!Next]_(Service!vars)
  OBVIOUS
<1> USE DEF SupervisorInv
<1>2. CASE \E j \in Jobs : JobStep(j)
  BY <1>2, JobTaskServed
<1>3. CASE \E j \in Jobs : Submit(j)
  BY <1>3, SubmitServed
<1>4. CASE \E c \in Clients : Disconnect(c)
  BY <1>4, DisconnectServed
<1>5. CASE WorkerTask \/ InstallHandler \/ HandleSignal \/ Crash
  <2>1. UNCHANGED <<jpc, verdict, gone, handle>>
    BY <1>5
       DEF WorkerTask, Worker, Load, LoadFails, ReadRequest, StdinClosed, Begin, FinishBatch,
           FinishStream, StreamTail, InstallHandler, HandleSignal, Crash, clientVars
  <2> QED
    BY <1>5, <2>1, HarmStays, OthersServed
<1>6. CASE \E j \in BatchJobs : WatcherKills(j)
  <2>1. UNCHANGED <<jpc, verdict, gone, handle>>
    BY <1>6 DEF WatcherKills
  <2> QED
    BY <1>6, <2>1, SignalSent, HarmStays, OthersServed
<1>7. CASE EvictTick \/ EvictionTask
  BY <1>7, EvictServed
<1>8. CASE UNCHANGED <<jpc, verdict, gone, handle, wk>>
  BY <1>8, OthersServed DEF Harmed
<1> QED
  BY <1>2, <1>3, <1>4, <1>5, <1>6, <1>7, <1>8
     DEF Next, JobStep, vars, clientVars, Watchers, WatcherCounts

\* dispatch_batch, stream_relay and worker.rs together implement the service that
\* the dispatcher and the streams rely on, for any number of jobs and crashes: one
\* job at a time, every verdict only in the circumstances that explain it, and no
\* worker left in place that failed a job.
THEOREM ServiceIsKept == Spec => JobsAsPromised
<1>1. Init => Service!Init
  BY InitService
<1>2. SupervisorInv /\ [Next]_vars => [Service!Next]_(Service!vars)
  BY NextServed
<1> QED
  BY <1>1, <1>2, SupervisorInvariance, PTL DEF Spec, JobsAsPromised, Service!Spec

=============================================================================
