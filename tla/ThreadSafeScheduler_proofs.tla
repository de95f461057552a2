--------------------- MODULE ThreadSafeScheduler_proofs ---------------------
(***************************************************************************)
(* Proofs about ThreadSafeScheduler, for any number of ranks, producers,   *)
(* dispatchers and requests.                                               *)
(***************************************************************************)
EXTENDS ThreadSafeScheduler, FiniteSetTheorems, TLAPS

(***************************************************************************)
(* Type correctness: every action of the monitor keeps the variables in    *)
(* their types and only enqueued requests in the queue.                    *)
(***************************************************************************)
THEOREM TypeCorrect == Spec => []TypeOK
<1>1. Init => TypeOK
  <2> SUFFICES ASSUME Init PROVE TypeOK
    OBVIOUS
  <2>1. IsFiniteSet({})
    BY FS_EmptySet
  <2>2. 0 \in Ranks
    BY WorldSizeAssumption DEF Ranks
  <2> QED
    BY <2>1, <2>2 DEF Init, SchedulerInit, TypeOK
<1>2. TypeOK /\ [Next]_vars => TypeOK'
  <2> SUFFICES ASSUME TypeOK, [Next]_vars PROVE TypeOK'
    OBVIOUS
  <2> USE DEF TypeOK, Threads
  <2>1. ASSUME NEW p \in Producers, NEW request \in Request,
               EnqueueLocked(p, request)
        PROVE  TypeOK'
    <3>1. IsFiniteSet(enqueued \cup {request})
      BY FS_AddElement
    <3> QED
      BY <2>1, <3>1 DEF EnqueueLocked, Enqueue
  <2>2. ASSUME NEW t \in Threads, NotifyOne(t)
        PROVE  TypeOK'
    BY <2>2 DEF NotifyOne
  <2>3. ASSUME NEW d \in Dispatchers, Assign(d)
        PROVE  TypeOK'
    BY <2>3, WorldSizeAssumption DEF Assign, ScheduleNext, Workers, Ranks
  <2>4. ASSUME NEW d \in Dispatchers, TryScheduleNext(d)
        PROVE  TypeOK'
    BY <2>3, <2>4 DEF TryScheduleNext
  <2>5. ASSUME NEW d \in Dispatchers, WaitAndScheduleNext(d)
        PROVE  TypeOK'
    BY <2>3, <2>5 DEF WaitAndScheduleNext
  <2>6. ASSUME NEW d \in Dispatchers, SpuriousWakeup(d)
        PROVE  TypeOK'
    BY <2>6 DEF SpuriousWakeup
  <2>7. ASSUME NEW d \in Dispatchers, ReleaseLocked(d)
        PROVE  TypeOK'
    BY <2>7, WorldSizeAssumption DEF ReleaseLocked, SetWorkerBusy, Workers, Ranks
  <2>8. ASSUME SetShutdown
        PROVE  TypeOK'
    BY <2>8 DEF SetShutdown
  <2>9. ASSUME UNCHANGED vars
        PROVE  TypeOK'
    BY <2>9 DEF vars
  <2> QED
    BY <2>1, <2>2, <2>4, <2>5, <2>6, <2>7, <2>8, <2>9 DEF Next
<1> QED
  BY <1>1, <1>2, PTL DEF Spec
-----------------------------------------------------------------------------
(***************************************************************************)
(* No worker is given to two dispatchers: busy flags and assignments agree *)
(* whatever the interleaving.                                              *)
(***************************************************************************)
THEOREM BusyIffHeldInvariant == Spec => []BusyIffHeld
<1>1. Init => BusyIffHeld
  <2> SUFFICES ASSUME Init PROVE BusyIffHeld
    OBVIOUS
  <2>1. worker_busy[0]
    <3>1. 0 \in Ranks
      BY WorldSizeAssumption DEF Ranks
    <3> QED
      BY <3>1, Zenon DEF Init, SchedulerInit
  <2>2. \A rank \in Workers : rank \in Ranks /\ rank # 0
    BY WorldSizeAssumption DEF Ranks, Workers
  <2>3. \A rank \in Workers : ~worker_busy[rank]
    BY <2>2 DEF Init, SchedulerInit
  <2>4. \A rank \in Workers : Holders(rank) = {}
    BY DEF Init, Holders, Threads
  <2> QED
    BY <2>1, <2>3, <2>4 DEF BusyIffHeld
<1>2. TypeOK /\ BusyIffHeld /\ [Next]_vars => BusyIffHeld'
  <2> SUFFICES ASSUME TypeOK, BusyIffHeld, [Next]_vars
               PROVE  BusyIffHeld'
    OBVIOUS
  <2> USE DEF BusyIffHeld, Holders, Threads
  <2>1. ASSUME NEW p \in Producers, NEW request \in Request,
               EnqueueLocked(p, request)
        PROVE  BusyIffHeld'
    BY <2>1, ThreadsAssumption DEF TypeOK, EnqueueLocked, Enqueue
  <2>2. ASSUME NEW t \in Threads, NotifyOne(t)
        PROVE  BusyIffHeld'
    BY <2>2 DEF TypeOK, NotifyOne
  <2>3. ASSUME NEW d \in Dispatchers, Assign(d), pc[d] \in {"out", "awake"}
        PROVE  BusyIffHeld'
    <3>1. PICK request \in queue, rank \in Workers :
            /\ ScheduleNext(request, rank)
            /\ pc' = [pc EXCEPT ![d] = "working"]
            /\ rank_of' = [rank_of EXCEPT ![d] = rank]
      BY <2>3 DEF Assign
    <3>2. ~worker_busy[rank] /\ worker_busy' = [worker_busy EXCEPT ![rank] = TRUE]
      BY <3>1 DEF ScheduleNext, FreeWorkers
    <3> QED
      BY <2>3, <3>1, <3>2, WorldSizeAssumption DEF TypeOK, Workers, Ranks
  <2>4. ASSUME NEW d \in Dispatchers, TryScheduleNext(d)
        PROVE  BusyIffHeld'
    BY <2>3, <2>4 DEF TryScheduleNext
  <2>5. ASSUME NEW d \in Dispatchers, WaitAndScheduleNext(d)
        PROVE  BusyIffHeld'
    <3>1. CASE Assign(d)
      BY <2>3, <2>5, <3>1 DEF WaitAndScheduleNext
    <3>2. CASE ~Assign(d)
      BY <2>5, <3>2 DEF WaitAndScheduleNext, TypeOK
    <3> QED
      BY <3>1, <3>2
  <2>6. ASSUME NEW d \in Dispatchers, SpuriousWakeup(d)
        PROVE  BusyIffHeld'
    BY <2>6 DEF SpuriousWakeup, TypeOK
  <2>7. ASSUME NEW d \in Dispatchers, ReleaseLocked(d)
        PROVE  BusyIffHeld'
    BY <2>7, WorldSizeAssumption
    DEF ReleaseLocked, SetWorkerBusy, TypeOK, Workers, Ranks
  <2>8. ASSUME SetShutdown
        PROVE  BusyIffHeld'
    BY <2>8 DEF SetShutdown
  <2>9. ASSUME UNCHANGED vars
        PROVE  BusyIffHeld'
    BY <2>9 DEF vars
  <2> QED
    BY <2>1, <2>2, <2>4, <2>5, <2>6, <2>7, <2>8, <2>9 DEF Next
<1> QED
  BY <1>1, <1>2, TypeCorrect, PTL DEF Spec
-----------------------------------------------------------------------------
(* The sets WakeupsCoverWork counts are finite. *)
LEMMA CountedSetsFinite ==
  ASSUME TypeOK
  PROVE  /\ IsFiniteSet(queue) /\ Cardinality(queue) \in Nat
         /\ IsFiniteSet(FreeWorkers) /\ Cardinality(FreeWorkers) \in Nat
         /\ IsFiniteSet(Wakeups) /\ Cardinality(Wakeups) \in Nat
<1>1. IsFiniteSet(queue)
  BY FS_Subset DEF TypeOK
<1>2. IsFiniteSet(FreeWorkers)
  <2>1. IsFiniteSet(Workers)
    BY WorldSizeAssumption, FS_Interval DEF Workers
  <2> QED
    BY <2>1, FS_Subset DEF FreeWorkers
<1>3. IsFiniteSet(Wakeups)
  <2>1. IsFiniteSet(Threads)
    BY ThreadsAssumption, FS_Union DEF Threads
  <2> QED
    BY <2>1, FS_Subset DEF Wakeups
<1> QED
  BY <1>1, <1>2, <1>3, FS_CardinalityType

(***************************************************************************)
(* No wakeup is lost, for any number of threads, ranks and requests.  The  *)
(* property is inductive: a request or a freed worker adds one wakeup, a   *)
(* dispatcher that consumes a wakeup takes one request and one worker or   *)
(* has found one of the two sets empty.                                    *)
(***************************************************************************)
THEOREM NoLostWakeup == Spec => []WakeupsCoverWork
<1> DEFINE Sleeping == \E d \in Dispatchers : pc[d] = "asleep"
           Q == Cardinality(queue)
           F == Cardinality(FreeWorkers)
           W == Cardinality(Wakeups)
<1>1. Init => WakeupsCoverWork
  BY DEF Init, WakeupsCoverWork, Threads
<1>2. TypeOK /\ WakeupsCoverWork /\ [Next]_vars => WakeupsCoverWork'
  <2> SUFFICES ASSUME TypeOK, WakeupsCoverWork, [Next]_vars,
                      ~shutdown', Sleeping'
               PROVE  Q' <= W' \/ F' <= W'
    BY DEF WakeupsCoverWork
  <2>0. /\ Q \in Nat /\ F \in Nat /\ W \in Nat
        /\ IsFiniteSet(queue) /\ IsFiniteSet(FreeWorkers) /\ IsFiniteSet(Wakeups)
    BY CountedSetsFinite
  <2>1. Sleeping /\ ~shutdown => Q <= W \/ F <= W
    BY DEF WakeupsCoverWork
  <2>2. ASSUME NEW p \in Producers, NEW request \in Request,
               EnqueueLocked(p, request)
        PROVE  Q' <= W' \/ F' <= W'
    <3>1. Q' = IF request \in queue THEN Q ELSE Q + 1
      BY <2>0, <2>2, FS_AddElement DEF EnqueueLocked, Enqueue
    <3>2. F' = F
      BY <2>2 DEF EnqueueLocked, Enqueue, FreeWorkers
    <3>3. p \notin Wakeups /\ Wakeups' = Wakeups \cup {p}
      BY <2>2 DEF EnqueueLocked, Wakeups, TypeOK, Threads
    <3>4. W' = W + 1
      BY <2>0, <3>3, FS_AddElement
    <3>5. Sleeping /\ ~shutdown
      BY <2>2, ThreadsAssumption DEF EnqueueLocked, TypeOK, Threads
    <3> QED
      BY <2>0, <2>1, <3>1, <3>2, <3>4, <3>5
  <2>3. ASSUME NEW t \in Threads, NotifyOne(t)
        PROVE  Q' <= W' \/ F' <= W'
    <3>1. PICK d \in Dispatchers :
            /\ pc[d] = "asleep"
            /\ pc' = [pc EXCEPT ![t] = "out", ![d] = "awake"]
      BY <2>3 DEF NotifyOne, TypeOK, Threads
    <3>2. /\ t \in Wakeups
          /\ d \notin Wakeups \ {t}
          /\ Wakeups' = (Wakeups \ {t}) \cup {d}
      BY <2>3, <3>1 DEF NotifyOne, Wakeups, TypeOK, Threads
    <3>3. W' = W
      <4> DEFINE Rest == Wakeups \ {t}
      <4>1. IsFiniteSet(Rest) /\ Cardinality(Rest) = W - 1
        BY <2>0, <3>2, FS_RemoveElement
      <4>2. Cardinality(Rest \cup {d}) = Cardinality(Rest) + 1
        BY <3>2, <4>1, FS_AddElement
      <4> QED
        BY <2>0, <3>2, <4>1, <4>2
    <3>4. Q' = Q /\ F' = F /\ ~shutdown
      BY <2>3 DEF NotifyOne, FreeWorkers
    <3> QED
      BY <2>0, <2>1, <3>1, <3>3, <3>4
  <2>4. ASSUME NEW d \in Dispatchers, Assign(d), pc[d] \in {"out", "awake"}
        PROVE  Q' <= W' \/ F' <= W'
    <3>1. PICK request \in queue, rank \in Workers :
            /\ ScheduleNext(request, rank)
            /\ pc' = [pc EXCEPT ![d] = "working"]
      BY <2>4 DEF Assign
    <3>2. Q' = Q - 1
      BY <2>0, <3>1, FS_RemoveElement DEF ScheduleNext
    <3>3. rank \in FreeWorkers /\ FreeWorkers' = FreeWorkers \ {rank}
      BY <3>1, WorldSizeAssumption
      DEF ScheduleNext, FreeWorkers, TypeOK, Workers, Ranks
    <3>4. F' = F - 1
      BY <2>0, <3>3, FS_RemoveElement
    <3>5. Wakeups' = Wakeups \ {d}
      BY <3>1 DEF Wakeups, TypeOK, Threads
    <3>6. W' = IF d \in Wakeups THEN W - 1 ELSE W
      BY <2>0, <3>5, FS_RemoveElement
    <3>7. Sleeping /\ ~shutdown
      BY <2>4, <3>1 DEF Assign, TypeOK, Threads
    <3> QED
      BY <2>0, <2>1, <3>2, <3>4, <3>6, <3>7
  <2>5. ASSUME NEW d \in Dispatchers, WaitAndScheduleNext(d), ~Assign(d)
        PROVE  Q' <= W' \/ F' <= W'
    <3>1. queue = {} \/ FreeWorkers = {}
      BY <2>5 DEF WaitAndScheduleNext, CanSchedule
    <3>2. Q' = Q /\ F' = F
      BY <2>5 DEF WaitAndScheduleNext, FreeWorkers
    <3>3. Q = 0 \/ F = 0
      BY <3>1, FS_EmptySet
    <3>4. Wakeups' = Wakeups \ {d}
      BY <2>5 DEF WaitAndScheduleNext, Wakeups, TypeOK, Threads
    <3>5. W' \in Nat
      BY <2>0, <3>4, FS_RemoveElement, FS_CardinalityType
    <3> QED
      BY <2>0, <3>2, <3>3, <3>5
  <2>6. ASSUME NEW d \in Dispatchers, SpuriousWakeup(d)
        PROVE  Q' <= W' \/ F' <= W'
    <3>1. Q' = Q /\ F' = F /\ Sleeping /\ ~shutdown
      BY <2>6 DEF SpuriousWakeup, FreeWorkers
    <3>2. Wakeups' = Wakeups \cup {d}
      BY <2>6 DEF SpuriousWakeup, Wakeups, TypeOK, Threads
    <3>3. W' = IF d \in Wakeups THEN W ELSE W + 1
      BY <2>0, <3>2, FS_AddElement
    <3> QED
      BY <2>0, <2>1, <3>1, <3>3
  <2>7. ASSUME NEW d \in Dispatchers, ReleaseLocked(d)
        PROVE  Q' <= W' \/ F' <= W'
    <3>1. FreeWorkers' = FreeWorkers \cup {rank_of[d]}
      BY <2>7, WorldSizeAssumption
      DEF ReleaseLocked, SetWorkerBusy, FreeWorkers, TypeOK, Workers, Ranks
    <3>2. F' = IF rank_of[d] \in FreeWorkers THEN F ELSE F + 1
      BY <2>0, <3>1, FS_AddElement
    <3>3. d \notin Wakeups /\ Wakeups' = Wakeups \cup {d}
      BY <2>7 DEF ReleaseLocked, Wakeups, TypeOK, Threads
    <3>4. W' = W + 1
      BY <2>0, <3>3, FS_AddElement
    <3>5. Q' = Q /\ Sleeping /\ ~shutdown
      BY <2>7 DEF ReleaseLocked, SetWorkerBusy, TypeOK, Threads
    <3> QED
      BY <2>0, <2>1, <3>2, <3>4, <3>5
  <2>8. ~SetShutdown
    BY DEF SetShutdown
  <2>9. ASSUME UNCHANGED vars
        PROVE  Q' <= W' \/ F' <= W'
    BY <2>1, <2>9 DEF vars, FreeWorkers, Wakeups
  <2>10. ASSUME NEW d \in Dispatchers, TryScheduleNext(d)
         PROVE  Q' <= W' \/ F' <= W'
    BY <2>4, <2>10 DEF TryScheduleNext
  <2>11. ASSUME NEW d \in Dispatchers, WaitAndScheduleNext(d)
         PROVE  Q' <= W' \/ F' <= W'
    <3>1. CASE Assign(d)
      BY <2>4, <2>11, <3>1 DEF WaitAndScheduleNext
    <3> QED
      BY <2>5, <2>11, <3>1
  <2> QED
    BY <2>2, <2>3, <2>6, <2>7, <2>8, <2>9, <2>10, <2>11 DEF Next
<1> QED
  BY <1>1, <1>2, TypeCorrect, PTL DEF Spec
=============================================================================
