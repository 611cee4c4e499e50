----------------------------- MODULE TtsService -----------------------------
(* What the batching front of TtsEngine promises to its callers, without     *)
(* the queue, the dispatcher task or the worker that implement it.           *)
(*                                                                           *)
(* A call to TtsEngine::generate is accepted with a batch key and a ticket   *)
(* (its place in arrival order).  Pending calls are answered in groups.  A   *)
(* group always serves the oldest pending call, holds one key only, is no    *)
(* larger than --parallel, and never overtakes an older call of its key.     *)
EXTENDS Naturals, FiniteSets

CONSTANTS
    Requests,   \* calls to TtsEngine::generate
    Keys,       \* values of BatchKey (cfg bits, steps)
    Parallel,   \* --parallel, after max(1)
    NoKey       \* the key of a call that has not been made

VARIABLES
    key,        \* key[r]: the batch key of an accepted call, else NoKey
    ticket,     \* ticket[r]: arrival number of an accepted call, else 0
    arrivals,   \* number of calls accepted so far
    answer      \* answer[r]: the TtsResult of the call, "none" until it has one

vars == <<key, ticket, arrivals, answer>>

\* TtsResult; "pipe_error" is the Failed the server makes up when the worker
\* pipe breaks, "garbled" a result made of bytes that belong to something else.
Results == {"ok", "failed", "cancelled", "model_missing", "pipe_error", "garbled"}
Answers == Results \union {"none"}

Unmade(r) == key[r] = NoKey /\ answer[r] = "none"
Pending == {r \in Requests : key[r] # NoKey /\ answer[r] = "none"}
Oldest(S) == {r \in S : \A q \in S : ticket[r] <= ticket[q]}

Init ==
    /\ key = [r \in Requests |-> NoKey]
    /\ ticket = [r \in Requests |-> 0]
    /\ arrivals = 0
    /\ answer = [r \in Requests |-> "none"]

Accept(r, k) ==
    /\ Unmade(r)
    /\ key' = [key EXCEPT ![r] = k]
    /\ ticket' = [ticket EXCEPT ![r] = arrivals + 1]
    /\ arrivals' = arrivals + 1
    /\ UNCHANGED answer

\* A group that may be served together now.
Servable(S) ==
    /\ Cardinality(S) \in 1..Parallel
    /\ \E r \in S : r \in Oldest(Pending)
    /\ \A r \in S, q \in S : key[r] = key[q]
    /\ \A r \in S, q \in Pending \ S : key[q] = key[r] => ticket[r] < ticket[q]

Answer(S) ==
    /\ Servable(S)
    /\ \E result \in [S -> Results] :
          answer' = [r \in Requests |-> IF r \in S THEN result[r] ELSE answer[r]]
    /\ UNCHANGED <<key, ticket, arrivals>>

Next ==
    \/ \E r \in Requests, k \in Keys : Accept(r, k)
    \/ \E S \in SUBSET Pending : Answer(S)

Spec == Init /\ [][Next]_vars

=============================================================================
