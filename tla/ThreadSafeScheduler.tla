------------------------- MODULE ThreadSafeScheduler -------------------------
(***************************************************************************)
(* The monitor around Scheduler (src/core/scheduler_threadsafe.cpp) and    *)
(* the threads that may use it: producers that call enqueue, dispatchers   *)
(* that loop on wait_and_schedule_next (or poll try_schedule_next) and     *)
(* give the worker back with set_worker_busy(rank, false).                 *)
(*                                                                         *)
(* A section under the mutex is one step.  Both notify_one calls come      *)
(* after the unlock, so they are steps of their own and anything may       *)
(* happen in between.  A thread blocked in cv_.wait is "asleep"; once      *)
(* notified, or woken spuriously, it is "awake" until it has the mutex     *)
(* again and evaluates its predicate.                                      *)
(***************************************************************************)
EXTENDS Scheduler, FiniteSets

CONSTANTS
    Producers, Dispatchers,     \* the threads
    Request                     \* the requests they may enqueue, each once

ASSUME ThreadsAssumption ==
    /\ IsFiniteSet(Producers)
    /\ IsFiniteSet(Dispatchers)
    /\ Producers \cap Dispatchers = {}

ASSUME RequestAssumption ==
    \A request \in Request :
        request.priority \in Int /\ request.est_tokens \in Nat

VARIABLES
    pc,             \* where each thread stands
    rank_of,        \* the rank a dispatcher works with, 0 for none
    enqueued,       \* history: the requests enqueued so far
    shutdown        \* the flag wait_and_schedule_next is given

vars == <<queue, worker_busy, pc, rank_of, enqueued, shutdown>>

Threads == Producers \cup Dispatchers

TypeOK ==
    /\ queue \in SUBSET Request
    /\ worker_busy \in [Ranks -> BOOLEAN]
    /\ pc \in [Threads -> {"out", "asleep", "awake", "working", "notify"}]
    /\ rank_of \in [Threads -> Ranks]
    /\ enqueued \in SUBSET Request
    /\ IsFiniteSet(enqueued)
    /\ queue \subseteq enqueued
    /\ shutdown \in BOOLEAN
-----------------------------------------------------------------------------
Init ==
    /\ SchedulerInit
    /\ pc = [t \in Threads |-> "out"]
    /\ rank_of = [t \in Threads |-> 0]
    /\ enqueued = {}
    /\ shutdown = FALSE

\* Mutant: no notify_one after the unlock.
MutEnqueueLocked(p, request) ==
    /\ pc[p] = "out"
    /\ request \notin enqueued
    /\ Enqueue(request)
    /\ enqueued' = enqueued \cup {request}
    /\ UNCHANGED <<pc, rank_of, shutdown>>

\* enqueue, up to the unlock.
EnqueueLocked(p, request) ==
    /\ pc[p] = "out"
    /\ request \notin enqueued
    /\ Enqueue(request)
    /\ enqueued' = enqueued \cup {request}
    /\ pc' = [pc EXCEPT ![p] = "notify"]
    /\ UNCHANGED <<rank_of, shutdown>>

\* cv_.notify_one wakes one waiter, any of them, or does nothing.
NotifyOne(t) ==
    /\ pc[t] = "notify"
    /\ \/ \E d \in Dispatchers :
            /\ pc[d] = "asleep"
            /\ pc' = [pc EXCEPT ![t] = "out", ![d] = "awake"]
       \/ /\ \A d \in Dispatchers : pc[d] # "asleep"
          /\ pc' = [pc EXCEPT ![t] = "out"]
    /\ UNCHANGED <<queue, worker_busy, rank_of, enqueued, shutdown>>

\* schedule_next under the lock succeeds: d leaves with an assignment.
Assign(d) ==
    \E request \in queue, rank \in Workers :
        /\ ScheduleNext(request, rank)
        /\ pc' = [pc EXCEPT ![d] = "working"]
        /\ rank_of' = [rank_of EXCEPT ![d] = rank]
        /\ UNCHANGED <<enqueued, shutdown>>

\* try_schedule_next finds work; when it finds none it changes nothing.
TryScheduleNext(d) == pc[d] = "out" /\ Assign(d)

(***************************************************************************)
(* wait_and_schedule_next with the mutex held, on entry or after a wakeup: *)
(* sleep, give up because of shutdown, or take a request.                  *)
(***************************************************************************)
WaitAndScheduleNext(d) ==
    /\ pc[d] \in {"out", "awake"}
    /\ \/ /\ ~shutdown
          /\ ~CanSchedule
          /\ pc' = [pc EXCEPT ![d] = "asleep"]
          /\ UNCHANGED <<queue, worker_busy, rank_of, enqueued, shutdown>>
       \/ /\ shutdown
          /\ pc[d] = "awake"
          /\ pc' = [pc EXCEPT ![d] = "out"]
          /\ UNCHANGED <<queue, worker_busy, rank_of, enqueued, shutdown>>
       \/ /\ ~shutdown
          /\ Assign(d)

SpuriousWakeup(d) ==
    /\ pc[d] = "asleep"
    /\ pc' = [pc EXCEPT ![d] = "awake"]
    /\ UNCHANGED <<queue, worker_busy, rank_of, enqueued, shutdown>>

\* Mutant: no notify_one after the unlock.
MutReleaseSilently(d) ==
    /\ pc[d] = "working"
    /\ SetWorkerBusy(rank_of[d], FALSE)
    /\ rank_of' = [rank_of EXCEPT ![d] = 0]
    /\ pc' = [pc EXCEPT ![d] = "out"]
    /\ UNCHANGED <<enqueued, shutdown>>

\* Mutant: the rank is reset to the default of AssignedRequest.
MutReleaseResetsRank(d) ==
    /\ pc[d] = "working"
    /\ SetWorkerBusy(rank_of[d], FALSE)
    /\ rank_of' = [rank_of EXCEPT ![d] = -1]
    /\ pc' = [pc EXCEPT ![d] = "notify"]
    /\ UNCHANGED <<enqueued, shutdown>>

\* set_worker_busy(rank, false), up to the unlock.
ReleaseLocked(d) ==
    /\ pc[d] = "working"
    /\ SetWorkerBusy(rank_of[d], FALSE)
    /\ rank_of' = [rank_of EXCEPT ![d] = 0]
    /\ pc' = [pc EXCEPT ![d] = "notify"]
    /\ UNCHANGED <<enqueued, shutdown>>

\* Some other thread sets the flag.  No function of the class notifies then.
SetShutdown ==
    /\ ~shutdown
    /\ shutdown' = TRUE
    /\ UNCHANGED <<queue, worker_busy, pc, rank_of, enqueued>>

Next ==
    \/ \E p \in Producers, request \in Request : EnqueueLocked(p, request)
    \/ \E t \in Threads : NotifyOne(t)
    \/ \E d \in Dispatchers :
        \/ TryScheduleNext(d)
        \/ WaitAndScheduleNext(d)
        \/ SpuriousWakeup(d)
        \/ ReleaseLocked(d)
    \/ SetShutdown

(***************************************************************************)
(* Every thread that can take a step of its own code eventually does; a    *)
(* producer need not enqueue, no wakeup is ever spurious by obligation and *)
(* the flag need not be set.                                               *)
(***************************************************************************)
Fairness ==
    /\ \A t \in Threads : WF_vars(NotifyOne(t))
    /\ \A d \in Dispatchers :
        WF_vars(WaitAndScheduleNext(d)) /\ WF_vars(ReleaseLocked(d))

Spec == Init /\ [][Next]_vars

FairSpec == Spec /\ Fairness
-----------------------------------------------------------------------------
Holders(rank) == {d \in Dispatchers : pc[d] = "working" /\ rank_of[d] = rank}

(***************************************************************************)
(* A rank is busy exactly while one dispatcher holds it, so no rank is     *)
(* ever given to two dispatchers and none is lost between the unlock of    *)
(* schedule_next and the set_worker_busy(rank, false) that ends the work.  *)
(***************************************************************************)
BusyIffHeld ==
    /\ worker_busy[0]
    /\ \A rank \in Workers :
        /\ worker_busy[rank] <=> Holders(rank) # {}
        /\ \A d, e \in Holders(rank) : d = e

\* The threads that will still look at the queue, or make another one look.
Wakeups == {t \in Threads : pc[t] \in {"notify", "awake"}}

(***************************************************************************)
(* No wakeup is lost: while some dispatcher sleeps, the requests that      *)
(* could be assigned right now are no more than the wakeups under way.  A  *)
(* notify_one sent per request and per freed worker is enough, although it *)
(* is sent after the unlock, although the thread it wakes may find its     *)
(* request taken by another, and although it may meet no sleeper.          *)
(***************************************************************************)
WakeupsCoverWork ==
    ~shutdown /\ (\E d \in Dispatchers : pc[d] = "asleep") =>
        \/ Cardinality(queue) <= Cardinality(Wakeups)
        \/ Cardinality(FreeWorkers) <= Cardinality(Wakeups)

(***************************************************************************)
(* Every queued request is eventually assigned unless shutdown comes:      *)
(* no request waits forever in front of sleeping dispatchers.              *)
(***************************************************************************)
EveryRequestAssigned ==
    \A request \in Request :
        request \in queue ~> request \notin queue \/ shutdown

(***************************************************************************)
(* What include/core/scheduler_threadsafe.hpp says of                      *)
(* wait_and_schedule_next: it waits until a request can be assigned or     *)
(* shutdown becomes true.  So after shutdown no dispatcher sleeps forever. *)
(***************************************************************************)
ShutdownEndsWaiting ==
    \A d \in Dispatchers : shutdown ~> pc[d] # "asleep"
=============================================================================
