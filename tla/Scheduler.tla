------------------------------ MODULE Scheduler ------------------------------
(***************************************************************************)
(* The gateway's scheduler (src/core/scheduler.cpp): a priority queue of   *)
(* requests and one busy flag per MPI rank.  The C++ class has no lock of  *)
(* its own; the modules that extend this one use each operation inside one *)
(* atomic step, which is what the mutex of ThreadSafeScheduler gives.      *)
(*                                                                         *)
(* std::priority_queue is a heap and is not stable, so which of several    *)
(* equally good requests reaches top() is left open.  The queue is a set:  *)
(* two queued requests always differ in their id (ids repeat only after    *)
(* 2^32 submissions).                                                      *)
(***************************************************************************)
EXTENDS Integers

CONSTANT WorldSize      \* number of MPI ranks; rank 0 is the gateway

ASSUME WorldSizeAssumption == WorldSize \in Nat \ {0}

Ranks   == 0 .. WorldSize - 1
Workers == 1 .. WorldSize - 1

VARIABLES
    queue,              \* the requests waiting in queue_
    worker_busy         \* worker_busy_, by rank

schedulerVars == <<queue, worker_busy>>

SchedulerInit ==
    /\ queue = {}
    /\ worker_busy = [rank \in Ranks |-> rank = 0]

\* Mutant: the comparison of lengths is not reversed.
MutReqCmp(a, b) ==
    \/ a.priority < b.priority
    \/ a.priority = b.priority /\ a.est_tokens < b.est_tokens

(***************************************************************************)
(* ReqCmp(a, b): b goes before a.  Higher priority first, then the shorter *)
(* estimated generation.                                                   *)
(***************************************************************************)
ReqCmp(a, b) ==
    \/ a.priority < b.priority
    \/ a.priority = b.priority /\ a.est_tokens > b.est_tokens

\* The requests top() may return: those no queued request goes before.
Top == {r \in queue : \A other \in queue : ~ReqCmp(r, other)}

FreeWorkers == {rank \in Workers : ~worker_busy[rank]}

CanSchedule == queue # {} /\ FreeWorkers # {}

\* A negative estimate throws and leaves the queue alone: no step.
Enqueue(request) ==
    /\ request.est_tokens >= 0
    /\ queue' = queue \cup {request}
    /\ UNCHANGED worker_busy

\* Mutant: the chosen worker is not marked busy.
MutScheduleNext(request, rank) ==
    /\ request \in Top
    /\ rank \in FreeWorkers
    /\ \A other \in FreeWorkers : rank <= other
    /\ queue' = queue \ {request}
    /\ UNCHANGED worker_busy

\* The lowest-numbered free rank gets a request that top() returns.
ScheduleNext(request, rank) ==
    /\ request \in Top
    /\ rank \in FreeWorkers
    /\ \A other \in FreeWorkers : rank <= other
    /\ queue' = queue \ {request}
    /\ worker_busy' = [worker_busy EXCEPT ![rank] = TRUE]

SetWorkerBusy(rank, busy) ==
    /\ rank \in Workers
    /\ worker_busy' = [worker_busy EXCEPT ![rank] = busy]
    /\ UNCHANGED queue
=============================================================================
