----------------------- MODULE RequestPipeline_proofs -----------------------
(***************************************************************************)
(* Proofs about RequestPipeline, for any number of ranks, handler threads, *)
(* models and submissions.                                                 *)
(***************************************************************************)
EXTENDS RequestPipeline, FiniteSetTheorems, SequenceTheorems, TLAPS

(* What the fields of a request are. *)
LEMMA RequestFields ==
  ASSUME NEW r \in Request
  PROVE  r.id \in Ids /\ r.model_id \in Models /\ r.prompt \in Prompts
<1>1. PICK s \in Submissions, id \in Ids : r = Numbered(s, id)
  BY DEF Request
<1>2. s.model_id \in Models
  BY SubmissionsAssumption
<1>3. s.prompt \in Prompts
  BY DEF Prompts
<1> QED
  BY <1>1, <1>2, <1>3 DEF Numbered

(* A submission that gets an id is a request. *)
LEMMA NumberedType ==
  ASSUME NEW s \in Submissions, NEW id \in Ids
  PROVE  Numbered(s, id) \in Request
BY DEF Request

(* The counter stays within int, across its wrap too. *)
LEMMA SuccessorType ==
  ASSUME NEW id \in Ids
  PROVE  Successor(id) \in Ids
<1>1. MaxInt \in Nat /\ id \in Int /\ id <= MaxInt /\ id >= -MaxInt - 1
  BY BoundsAssumption DEF Ids
<1> QED
  BY <1>1 DEF Successor, Ids

(* Taking one element out of a sequence leaves a sequence. *)
LEMMA RemoveAtType ==
  ASSUME NEW S, NEW s \in Seq(S), NEW i \in DOMAIN s
  PROVE  RemoveAt(s, i) \in Seq(S)
<1>1. /\ i \in Int /\ i >= 1 /\ i <= Len(s) /\ Len(s) \in Nat
      /\ \A j \in 1 .. Len(s) : s[j] \in S
  OBVIOUS
<1>2. SubSeq(s, 1, i - 1) \in Seq(S)
  <2>1. \A j \in 1 .. i - 1 : s[j] \in S
    BY <1>1
  <2> QED
    BY <1>1, <2>1, SubSeqProperties
<1>3. SubSeq(s, i + 1, Len(s)) \in Seq(S)
  <2>1. \A j \in i + 1 .. Len(s) : s[j] \in S
    BY <1>1
  <2> QED
    BY <1>1, <2>1, SubSeqProperties
<1> QED
  BY <1>2, <1>3, ConcatProperties DEF RemoveAt

(* The values of the locals outside an exchange. *)
LEMMA DefaultTypes ==
  /\ 0 \in Ids /\ 1 \in Ids /\ <<>> \in Results
  /\ NoResponse \in [id : Ids, result : Results]
  /\ NoWork \in [id : Ids, model_id : Models \cup {""}, prompt : Prompts \cup {""}]
<1>1. 0 \in Ids /\ 1 \in Ids
  BY BoundsAssumption DEF Ids
<1>2. <<>> \in Results
  BY DEF Results
<1> QED
  BY <1>1, <1>2 DEF NoResponse, NoWork

(* Every frame for a worker names one. *)
LEMMA FrameReceiver ==
  ASSUME NEW frame \in RequestFrameSet
  PROVE  frame.to \in Workers
BY DEF RequestFrameSet

(* What send_request_to_worker sends is frames of the protocol ... *)
LEMMA RequestFramesType ==
  ASSUME NEW r \in Request, NEW rank \in Workers
  PROVE  RequestFrames(r, rank) \in Seq(RequestFrameSet)
<1> DEFINE frames == RequestFrames(r, rank)
<1>1. \A size \in {Size(r.model_id), Size(r.prompt)} : size \in {"fits", "oversized"}
  BY DEF Size
<1>2. /\ [to |-> rank, tag |-> "request_id", val |-> r.id] \in RequestFrameSet
      /\ [to |-> rank, tag |-> "model_length", val |-> Size(r.model_id)]
            \in RequestFrameSet
      /\ [to |-> rank, tag |-> "model_data", val |-> r.model_id]
            \in RequestFrameSet
      /\ [to |-> rank, tag |-> "prompt_length", val |-> Size(r.prompt)]
            \in RequestFrameSet
      /\ [to |-> rank, tag |-> "prompt_data", val |-> r.prompt]
            \in RequestFrameSet
  BY <1>1, RequestFields DEF RequestFrameSet
<1> QED
  BY <1>2 DEF RequestFrames

(* ... and so is what send_shutdown_to_workers sends ... *)
LEMMA ShutdownFramesType == ShutdownFrames \in Seq(RequestFrameSet)
<1>1. -1 \in Ids
  BY BoundsAssumption DEF Ids
<1>2. \A w \in Workers :
        [to |-> w, tag |-> "request_id", val |-> -1] \in RequestFrameSet
  BY <1>1 DEF RequestFrameSet
<1>3. ShutdownFrames \in [1 .. WorldSize - 1 -> RequestFrameSet]
  BY <1>2 DEF ShutdownFrames, Workers
<1> QED
  BY <1>3, WorldSizeAssumption

(* ... and what send_response_to_gateway sends. *)
LEMMA ResponseFramesType ==
  ASSUME NEW id \in Ids, NEW result \in Results
  PROVE  ResponseFrames(id, result) \in Seq(ResponseFrameSet)
<1>1. /\ [tag |-> "response_id", val |-> id] \in ResponseFrameSet
      /\ [tag |-> "response_length", val |-> "zero"] \in ResponseFrameSet
      /\ [tag |-> "response_length", val |-> "fits"] \in ResponseFrameSet
      /\ [tag |-> "response_data", val |-> result] \in ResponseFrameSet
  BY DEF ResponseFrameSet
<1>2. /\ <<[tag |-> "response_id", val |-> id]>> \in Seq(ResponseFrameSet)
      /\ <<[tag |-> "response_length", val |-> "zero"]>> \in Seq(ResponseFrameSet)
      /\ <<[tag |-> "response_length", val |-> "fits"],
           [tag |-> "response_data", val |-> result]>> \in Seq(ResponseFrameSet)
  BY <1>1
<1> QED
  BY <1>2, ConcatProperties DEF ResponseFrames
-----------------------------------------------------------------------------
(***************************************************************************)
(* Type correctness: every step of every thread and process keeps the      *)
(* variables in their types; a receive finds the kind of value that its    *)
(* tag promises.                                                           *)
(***************************************************************************)
THEOREM TypeCorrect == Spec => []TypeOK
<1>1. Init => Typed
  <2> SUFFICES ASSUME Init PROVE Typed
    OBVIOUS
  <2>2. worker_busy \in [Ranks -> BOOLEAN]
    BY DEF Init, SchedulerInit
  <2>6. DOMAIN responses = {} /\ responses \in [{} -> Results]
    BY DEF Init
  <2>7. /\ queue \in SUBSET Request
        /\ assigned \in SUBSET Assignment
        /\ issued \in SUBSET Request
        /\ http_req \in [HttpThreads -> SUBSET Request]
        /\ backends \in [Workers -> SUBSET Models]
    BY DEF Init, SchedulerInit
  <2>8. /\ outbox \in Seq(RequestFrameSet)
        /\ to_worker \in [Workers -> Seq(RequestFrameSet)]
        /\ from_worker \in [Workers -> Seq(ResponseFrameSet)]
        /\ w_out \in [Workers -> Seq(ResponseFrameSet)]
    BY DEF Init
  <2>9. /\ http_pc \in [HttpThreads -> {"idle", "enqueue", "reply"}]
        /\ d_pc \in DispatcherStates
        /\ w_pc \in [Workers -> WorkerStates]
        /\ main_pc \in {"listening", "joining", "finalize", "exited"}
        /\ shutdown \in BOOLEAN /\ aborted \in BOOLEAN /\ buffered \in BOOLEAN
        /\ synchronizing \in BOOLEAN
    BY BoundsAssumption DEF Init, DispatcherStates, WorkerStates
  <2>10. /\ next_request_id \in Ids
         /\ w_req \in [Workers -> [id : Ids, model_id : Models \cup {""},
                                   prompt : Prompts \cup {""}]]
         /\ resp \in [id : Ids, result : Results]
    BY DefaultTypes DEF Init
  <2> QED
    BY <2>2, <2>6, <2>7, <2>8, <2>9, <2>10 DEF Typed
<1>2. Typed /\ RequestReceived /\ [Next]_vars => Typed'
  <2> SUFFICES ASSUME Typed, RequestReceived, [Next]_vars PROVE Typed'
    OBVIOUS
  <2> USE DEF Typed, schedulerVars, httpVars, mainVars, dispVars, workerVars,
              netVars
  <2>1. ASSUME NEW t \in HttpThreads, HttpStep(t)
        PROVE  Typed'
    BY <2>1 DEF HttpStep, Alive, EnqueueRequest, Enqueue, Reply
  <2>2. ASSUME DispatcherStep
        PROVE  Typed'
    <3>1. Alive
      BY <2>2 DEF DispatcherStep
    <3> USE <3>1 DEF Alive, DispatcherStates
    <3>2. ASSUME CheckShutdown
          PROVE  Typed'
      BY <3>2, ShutdownFramesType DEF CheckShutdown
    <3>3. ASSUME TryScheduleNext
          PROVE  Typed'
      <4>1. PICK request \in queue, rank \in Workers :
              /\ ScheduleNext(request, rank)
              /\ assigned' = {[req |-> request, rank |-> rank]}
              /\ outbox' = RequestFrames(request, rank)
        BY <3>3 DEF TryScheduleNext
      <4>2. outbox' \in Seq(RequestFrameSet)
        BY <4>1, RequestFramesType
      <4>3. assigned' \in SUBSET Assignment
        <5>1. request \in Request
          OBVIOUS
        <5>2. [req |-> request, rank |-> rank] \in Assignment
          BY <5>1 DEF Assignment
        <5> QED
          BY <4>1, <5>2
      <4> QED
        BY <3>3, <4>1, <4>2, <4>3 DEF TryScheduleNext, ScheduleNext
    <3>4. ASSUME SleepAndRetry
          PROVE  Typed'
      BY <3>4 DEF SleepAndRetry
    <3>5. ASSUME SendFrame
          PROVE  Typed'
      <4>1. Head(outbox) \in RequestFrameSet /\ Tail(outbox) \in Seq(RequestFrameSet)
        BY <3>5, HeadTailProperties DEF SendFrame
      <4>2. to_worker' \in [Workers -> Seq(RequestFrameSet)]
        <5> DEFINE frame == Head(outbox)
        <5>1. frame.to \in Workers
          BY <4>1, FrameReceiver
        <5>2. Append(to_worker[frame.to], frame) \in Seq(RequestFrameSet)
          BY <4>1, <5>1, AppendProperties
        <5>3. to_worker' = [to_worker EXCEPT ![frame.to] =
                                Append(to_worker[frame.to], frame)]
          BY <3>5 DEF SendFrame
        <5> QED
          BY <5>1, <5>2, <5>3
      <4> QED
        BY <3>5, <4>1, <4>2 DEF SendFrame
    <3>6. ASSUME LastSendReturns
          PROVE  Typed'
      BY <3>6 DEF LastSendReturns
    <3>7. \A tag, val : ResponseFrame(tag, val) =>
            from_worker' \in [Workers -> Seq(ResponseFrameSet)]
      <4> SUFFICES ASSUME NEW tag, NEW val, ResponseFrame(tag, val)
                   PROVE  from_worker' \in [Workers -> Seq(ResponseFrameSet)]
        OBVIOUS
      <4>0. PICK a \in assigned : \E i \in DOMAIN from_worker[a.rank] :
              from_worker' = [from_worker EXCEPT ![a.rank] =
                                RemoveAt(from_worker[a.rank], i)]
        BY DEF ResponseFrame
      <4>1. PICK i \in DOMAIN from_worker[a.rank] :
              from_worker' = [from_worker EXCEPT ![a.rank] =
                                RemoveAt(from_worker[a.rank], i)]
        BY <4>0
      <4>2. a.rank \in Workers
        BY DEF Assignment
      <4>3. RemoveAt(from_worker[a.rank], i) \in Seq(ResponseFrameSet)
        BY <4>2, RemoveAtType
      <4> QED
        BY <4>1, <4>2, <4>3
    <3>8. ASSUME ReceiveResponseId
          PROVE  Typed'
      <4>1. PICK id \in Ids :
              ResponseFrame("response_id", id) /\ resp' = [id |-> id, result |-> <<>>]
        BY <3>8 DEF ReceiveResponseId
      <4>2. resp' \in [id : Ids, result : Results]
        BY <4>1, DefaultTypes
      <4>3. from_worker' \in [Workers -> Seq(ResponseFrameSet)]
        BY <3>7, <4>1
      <4> QED
        BY <3>8, <4>2, <4>3 DEF ReceiveResponseId
    <3>9. ASSUME ReceiveResponseLength
          PROVE  Typed'
      <4>1. from_worker' \in [Workers -> Seq(ResponseFrameSet)]
        BY <3>7, <3>9 DEF ReceiveResponseLength
      <4> QED
        BY <3>9, <4>1 DEF ReceiveResponseLength, AfterReceive
    <3>10. ASSUME ReceiveResponseData
           PROVE  Typed'
      <4>1. from_worker' \in [Workers -> Seq(ResponseFrameSet)]
        BY <3>7, <3>10 DEF ReceiveResponseData
      <4> QED
        BY <3>10, <4>1 DEF ReceiveResponseData, AfterReceive
    <3>11. ASSUME PutResponse
           PROVE  Typed'
      BY <3>11 DEF PutResponse
    <3>12. ASSUME Release
           PROVE  Typed'
      BY <3>12, DefaultTypes DEF Release, SetWorkerBusy
    <3>13. ASSUME Unwind
           PROVE  Typed'
      BY <3>13 DEF Unwind, SetWorkerBusy
    <3>14. ASSUME FatalError
           PROVE  Typed'
      BY <3>14 DEF FatalError
    <3> QED
      BY <2>2, <3>2, <3>3, <3>4, <3>5, <3>6, <3>8, <3>9, <3>10, <3>11, <3>12,
         <3>13, <3>14 DEF DispatcherStep
  <2>3. ASSUME NEW w \in Workers, WorkerStep(w)
        PROVE  Typed'
    <3>1. Alive
      BY <2>3 DEF WorkerStep
    <3> USE <3>1 DEF Alive, WorkerStates
    <3>2. \A tag, val : RequestFrame(w, tag, val) =>
            to_worker' \in [Workers -> Seq(RequestFrameSet)]
      <4> SUFFICES ASSUME NEW tag, NEW val, RequestFrame(w, tag, val)
                   PROVE  to_worker' \in [Workers -> Seq(RequestFrameSet)]
        OBVIOUS
      <4>1. PICK i \in DOMAIN to_worker[w] :
              to_worker' = [to_worker EXCEPT ![w] = RemoveAt(to_worker[w], i)]
        BY DEF RequestFrame
      <4>2. RemoveAt(to_worker[w], i) \in Seq(RequestFrameSet)
        BY RemoveAtType
      <4> QED
        BY <4>1, <4>2
    <3>3. ASSUME ReceiveId(w)
          PROVE  Typed'
      <4>1. to_worker' \in [Workers -> Seq(RequestFrameSet)]
        BY <3>2, <3>3 DEF ReceiveId
      <4>2. PICK id \in Ids :
              w_req' = w_req \/ w_req' = [w_req EXCEPT ![w].id = id]
        BY <3>3 DEF ReceiveId
      <4>3. CASE w_req' = w_req
        BY <3>3, <4>1, <4>3 DEF ReceiveId
      <4>4. CASE w_req' = [w_req EXCEPT ![w].id = id]
        <5>1. w_req' \in [Workers -> [id : Ids, model_id : Models \cup {""},
                                      prompt : Prompts \cup {""}]]
          BY <4>4
        <5> QED
          BY <3>3, <4>1, <5>1 DEF ReceiveId
      <4> QED
        BY <4>2, <4>3, <4>4
    <3>4. ASSUME NEW length_tag, NEW data_tag \in {"model_data", "prompt_data"},
                 ReceiveLength(w, length_tag, data_tag)
          PROVE  Typed'
      <4>1. to_worker' \in [Workers -> Seq(RequestFrameSet)]
        BY <3>2, <3>4 DEF ReceiveLength
      <4> QED
        BY <3>4, <4>1 DEF ReceiveLength
    <3>5. ASSUME ReceiveModel(w)
          PROVE  Typed'
      <4>1. to_worker' \in [Workers -> Seq(RequestFrameSet)]
        BY <3>2, <3>5 DEF ReceiveModel
      <4>2. PICK model \in Models : w_req' = [w_req EXCEPT ![w].model_id = model]
        BY <3>5 DEF ReceiveModel
      <4>3. w_req' \in [Workers -> [id : Ids, model_id : Models \cup {""},
                                      prompt : Prompts \cup {""}]]
        BY <4>2
      <4> QED
        BY <3>5, <4>1, <4>3 DEF ReceiveModel
    <3>6. ASSUME ReceivePrompt(w)
          PROVE  Typed'
      <4>1. to_worker' \in [Workers -> Seq(RequestFrameSet)]
        BY <3>2, <3>6 DEF ReceivePrompt
      <4>2. PICK prompt \in Prompts : w_req' = [w_req EXCEPT ![w].prompt = prompt]
        BY <3>6 DEF ReceivePrompt
      <4>3. w_req' \in [Workers -> [id : Ids, model_id : Models \cup {""},
                                      prompt : Prompts \cup {""}]]
        BY <4>2
      <4> QED
        BY <3>6, <4>1, <4>3 DEF ReceivePrompt
    <3>7. ASSUME NEW result \in Results, Respond(w, result), UNCHANGED backends
          PROVE  Typed'
      BY <3>7, ResponseFramesType DEF Respond
    <3>8. ASSUME w_pc[w] = "handle"
          PROVE  w_req[w].model_id \in Models /\ w_req[w].prompt \in Prompts
      BY <3>8 DEF RequestReceived
    <3>9. ASSUME RejectRequest(w) \/ BackendThrows(w)
          PROVE  Typed'
      <4>1. ErrorText(w) \in Results
        BY <3>8, <3>9 DEF ErrorText, Results, RejectRequest, BackendThrows
      <4> QED
        BY <3>7, <3>9, <4>1 DEF RejectRequest, BackendThrows
    <3>10. ASSUME LoadBackend(w)
           PROVE  Typed'
      BY <3>8, <3>10 DEF LoadBackend
    <3>11. ASSUME Generate(w)
           PROVE  Typed'
      BY <3>7, <3>8, <3>11 DEF Generate, Results
    <3>12. ASSUME SendResponseFrame(w)
           PROVE  Typed'
      <4>1. Head(w_out[w]) \in ResponseFrameSet
            /\ Tail(w_out[w]) \in Seq(ResponseFrameSet)
        BY <3>12, HeadTailProperties DEF SendResponseFrame
      <4>2. Append(from_worker[w], Head(w_out[w])) \in Seq(ResponseFrameSet)
        BY <4>1, AppendProperties
      <4> QED
        BY <3>12, <4>1, <4>2 DEF SendResponseFrame
    <3>13. ASSUME NextRequest(w)
           PROVE  Typed'
      BY <3>13, DefaultTypes DEF NextRequest
    <3>14. ASSUME WorkerExits(w)
           PROVE  Typed'
      BY <3>14 DEF WorkerExits
    <3> QED
      BY <2>3, <3>3, <3>4, <3>5, <3>6, <3>9, <3>10, <3>11, <3>12, <3>13, <3>14
      DEF WorkerStep
  <2>4. ASSUME MainStep
        PROVE  Typed'
    BY <2>4 DEF MainStep, Alive, JoinDispatcher, GatewayExits
  <2>5. ASSUME Environment
        PROVE  Typed'
    <3>1. ASSUME NEW t \in HttpThreads, FetchId(t), Alive
          PROVE  Typed'
      <4>1. PICK s \in Submissions :
              /\ http_req' = [http_req EXCEPT ![t] = {Numbered(s, next_request_id)}]
              /\ issued' = issued \cup {Numbered(s, next_request_id)}
        BY <3>1 DEF FetchId
      <4>2. Numbered(s, next_request_id) \in Request
        BY NumberedType
      <4>3. Successor(next_request_id) \in Ids
        BY SuccessorType
      <4> QED
        BY <3>1, <4>1, <4>2, <4>3 DEF FetchId, Alive
    <3>2. ASSUME Alive, MpiCallFails
          PROVE  Typed'
      BY <3>2 DEF Alive, MpiCallFails, DispatcherStates
    <3>3. ASSUME Alive, NEW w \in Workers, WorkerMpiCallFails(w)
          PROVE  Typed'
      BY <3>3 DEF Alive, WorkerMpiCallFails, WorkerStates
    <3>4. ASSUME Alive, ListenReturns
          PROVE  Typed'
      BY <3>4 DEF Alive, ListenReturns
    <3> QED
      BY <2>5, <3>1, <3>2, <3>3, <3>4 DEF Environment
  <2>6. ASSUME FreeingFails \/ Abort
        PROVE  Typed'
    BY <2>6 DEF FreeingFails, Abort
  <2>7. ASSUME UNCHANGED vars
        PROVE  Typed'
    BY <2>7 DEF vars
  <2> QED
    BY <2>1, <2>2, <2>3, <2>4, <2>5, <2>6, <2>7 DEF Next, Stopped
<1>3. Init => RequestReceived
  BY DEF Init, RequestReceived
<1>4. Typed /\ RequestReceived /\ [Next]_vars => RequestReceived'
  <2> SUFFICES ASSUME Typed, RequestReceived, [Next]_vars
               PROVE  RequestReceived'
    OBVIOUS
  <2> USE DEF RequestReceived, workerVars
  <2>1. ASSUME UNCHANGED <<w_pc, w_req>>
        PROVE  RequestReceived'
    BY <2>1
  <2>2. ASSUME NEW t \in HttpThreads, HttpStep(t)
        PROVE  UNCHANGED <<w_pc, w_req>>
    BY <2>2 DEF HttpStep, EnqueueRequest, Reply
  <2>3. ASSUME DispatcherStep
        PROVE  UNCHANGED <<w_pc, w_req>>
    BY <2>3 DEF DispatcherStep, CheckShutdown, TryScheduleNext, SleepAndRetry,
      SendFrame, LastSendReturns, ReceiveResponseId, ReceiveResponseLength,
      ReceiveResponseData, PutResponse, Release, Unwind, FatalError
  <2>4. ASSUME MainStep
        PROVE  UNCHANGED <<w_pc, w_req>>
    BY <2>4 DEF MainStep, JoinDispatcher, GatewayExits
  <2>5. ASSUME NEW w \in Workers, WorkerStep(w)
        PROVE  RequestReceived'
    <3>1. w_pc \in [Workers -> WorkerStates]
          /\ w_req \in [Workers -> [id : Ids, model_id : Models \cup {""},
                                    prompt : Prompts \cup {""}]]
      BY DEF Typed
    <3>2. \A id \in Ids : RequestFrame(w, "request_id", id) =>
            w_pc[w] = "request_id"
      BY DEF RequestFrame
    <3>3. CASE ReceiveId(w)
      BY <3>1, <3>3 DEF ReceiveId
    <3>4. CASE ReceiveLength(w, "model_length", "model_data")
      BY <3>1, <3>4 DEF ReceiveLength
    <3>5. CASE ReceiveLength(w, "prompt_length", "prompt_data")
      BY <3>1, <3>5 DEF ReceiveLength, RequestFrame
    <3>6. CASE ReceiveModel(w)
      BY <3>1, <3>6 DEF ReceiveModel
    <3>7. CASE ReceivePrompt(w)
      <4>1. PICK prompt \in Prompts :
              /\ w_pc[w] = "prompt_data"
              /\ w_req' = [w_req EXCEPT ![w].prompt = prompt]
              /\ w_pc' = [w_pc EXCEPT ![w] = "handle"]
        BY <3>7 DEF ReceivePrompt, RequestFrame
      <4>2. w_req'[w].prompt = prompt
            /\ w_req'[w].model_id = w_req[w].model_id
            /\ \A v \in Workers : v # w =>
                    w_req'[v] = w_req[v] /\ w_pc'[v] = w_pc[v]
        BY <3>1, <4>1
      <4> QED
        BY <3>1, <4>1, <4>2
    <3>8. CASE RejectRequest(w) \/ Generate(w) \/ BackendThrows(w)
      BY <3>1, <3>8 DEF RejectRequest, Generate, BackendThrows, Respond
    <3>9. CASE LoadBackend(w) \/ SendResponseFrame(w)
      BY <3>9 DEF LoadBackend, SendResponseFrame
    <3>10. CASE NextRequest(w) \/ WorkerExits(w)
      BY <3>1, <3>10 DEF NextRequest, WorkerExits
    <3> QED
      BY <2>5, <3>3, <3>4, <3>5, <3>6, <3>7, <3>8, <3>9, <3>10 DEF WorkerStep
  <2>6. ASSUME Environment
        PROVE  RequestReceived'
    <3>1. ASSUME NEW w \in Workers, WorkerMpiCallFails(w)
          PROVE  RequestReceived'
      BY <3>1 DEF WorkerMpiCallFails, Typed
    <3>2. CASE UNCHANGED <<w_pc, w_req>>
      BY <2>1, <3>2
    <3> QED
      BY <2>6, <3>1, <3>2 DEF Environment, FetchId, MpiCallFails, ListenReturns
  <2>7. ASSUME FreeingFails \/ Abort \/ UNCHANGED vars
        PROVE  UNCHANGED <<w_pc, w_req>>
    BY <2>7 DEF FreeingFails, Abort, vars
  <2> QED
    BY <2>1, <2>2, <2>3, <2>4, <2>5, <2>6, <2>7 DEF Next, Stopped
<1> QED
  BY <1>1, <1>2, <1>3, <1>4, PTL DEF Spec, TypeOK
-----------------------------------------------------------------------------
(***************************************************************************)
(* The flags of the scheduler.  BusyIffAssigned is inductive together with *)
(* this: outside an exchange the dispatcher holds nothing.                 *)
(***************************************************************************)
HandsEmpty ==
    d_pc \in {"check", "schedule", "stop", "done"} => assigned = {}

(***************************************************************************)
(* A worker is marked busy from its assignment until its response is       *)
(* stored or the exchange has failed, and at no other time: no path of     *)
(* dispatcher_loop frees a worker early, and none forgets to free it, the  *)
(* handler of a failed exchange included.                                  *)
(***************************************************************************)
THEOREM BusyIffAssignedInvariant == Spec => [](BusyIffAssigned /\ HandsEmpty)
<1>1. Init => BusyIffAssigned /\ HandsEmpty
  <2> SUFFICES ASSUME Init PROVE BusyIffAssigned /\ HandsEmpty
    OBVIOUS
  <2>1. 0 \in Ranks /\ \A w \in Workers : w \in Ranks /\ w # 0
    BY WorldSizeAssumption DEF Ranks, Workers
  <2>2. worker_busy = [rank \in Ranks |-> rank = 0] /\ assigned = {}
    BY DEF Init, SchedulerInit
  <2>3. worker_busy[0] /\ \A w \in Workers : ~worker_busy[w]
    BY <2>1, <2>2, Zenon
  <2> QED
    BY <2>2, <2>3 DEF BusyIffAssigned, HandsEmpty, Engaged
<1>2. ASSUME TypeOK, BusyIffAssigned, HandsEmpty, [Next]_vars
      PROVE  BusyIffAssigned' /\ HandsEmpty'
  <2> USE DEF BusyIffAssigned, HandsEmpty, Engaged, schedulerVars, dispVars
  <2>1. /\ assigned \in SUBSET Assignment
        /\ worker_busy \in [Ranks -> BOOLEAN]
        /\ 0 \notin Workers /\ Workers \subseteq Ranks /\ 0 \in Ranks
    <3>1. assigned \in SUBSET Assignment /\ worker_busy \in [Ranks -> BOOLEAN]
      BY <1>2, Zenon DEF TypeOK, Typed
    <3> QED
      BY <3>1, WorldSizeAssumption DEF Ranks, Workers
  <2>2. ASSUME UNCHANGED <<worker_busy, assigned, d_pc>>
        PROVE  BusyIffAssigned' /\ HandsEmpty'
    BY <1>2, <2>2
  <2>3. ASSUME NEW t \in HttpThreads, HttpStep(t)
        PROVE  UNCHANGED <<worker_busy, assigned, d_pc>>
    BY <2>3 DEF HttpStep, EnqueueRequest, Enqueue, Reply
  <2>4. ASSUME NEW w \in Workers, WorkerStep(w)
        PROVE  UNCHANGED <<worker_busy, assigned, d_pc>>
    BY <2>4 DEF WorkerStep, ReceiveId, ReceiveLength, ReceiveModel,
      ReceivePrompt, RejectRequest, LoadBackend, Generate, BackendThrows,
      Respond, SendResponseFrame, NextRequest, WorkerExits
  <2>5. ASSUME MainStep
        PROVE  UNCHANGED <<worker_busy, assigned, d_pc>>
    BY <2>5 DEF MainStep, JoinDispatcher, GatewayExits
  <2>6. ASSUME FreeingFails \/ Abort \/ UNCHANGED vars
        PROVE  UNCHANGED <<worker_busy, assigned, d_pc>>
    BY <2>6 DEF FreeingFails, Abort, vars
  <2>7. ASSUME Environment
        PROVE  BusyIffAssigned' /\ HandsEmpty'
    <3>1. CASE MpiCallFails
      BY <1>2, <3>1 DEF MpiCallFails
    <3> QED
      BY <2>2, <2>7, <3>1 DEF Environment, FetchId, WorkerMpiCallFails,
        ListenReturns
  <2>8. ASSUME DispatcherStep
        PROVE  BusyIffAssigned' /\ HandsEmpty'
    <3>1. CASE TryScheduleNext
      <4>1. PICK request \in queue, rank \in Workers :
              /\ ScheduleNext(request, rank)
              /\ assigned' = {[req |-> request, rank |-> rank]}
        BY <3>1 DEF TryScheduleNext
      <4>2. /\ worker_busy' = [worker_busy EXCEPT ![rank] = TRUE]
            /\ d_pc = "schedule" /\ d_pc' = "send"
        BY <3>1, <4>1 DEF TryScheduleNext, ScheduleNext
      <4>3. worker_busy'[0] /\ \A w \in Workers : ~worker_busy[w]
        BY <1>2, <2>1, <4>2
      <4> QED
        BY <2>1, <4>1, <4>2, <4>3
    <3>2. ASSUME Release \/ Unwind
          PROVE  BusyIffAssigned' /\ HandsEmpty'
      <4>1. PICK a \in assigned :
              worker_busy' = [worker_busy EXCEPT ![a.rank] = FALSE]
        BY <3>2 DEF Release, Unwind, SetWorkerBusy
      <4>2. a.rank \in Workers /\ assigned = {a}
        BY <1>2, <2>1 DEF Assignment
      <4>3. worker_busy'[0] /\ \A w \in Workers : ~worker_busy'[w]
        BY <1>2, <2>1, <3>2, <4>1, <4>2 DEF Release, Unwind
      <4>4. assigned' = {} \/ (assigned' = assigned /\ d_pc' = "fatal")
        BY <3>2 DEF Release, Unwind
      <4> QED
        BY <1>2, <4>3, <4>4
    <3>3. ASSUME CheckShutdown \/ SleepAndRetry \/ SendFrame \/ LastSendReturns
                 \/ ReceiveResponseId \/ PutResponse \/ FatalError
          PROVE  BusyIffAssigned' /\ HandsEmpty'
      BY <1>2, <3>3 DEF CheckShutdown, SleepAndRetry, SendFrame,
        LastSendReturns, ReceiveResponseId, ResponseFrame, PutResponse,
        FatalError
    <3>4. ASSUME ReceiveResponseLength \/ ReceiveResponseData
          PROVE  BusyIffAssigned' /\ HandsEmpty'
      BY <1>2, <3>4 DEF ReceiveResponseLength, ReceiveResponseData,
        ResponseFrame, AfterReceive
    <3> QED
      BY <2>8, <3>1, <3>2, <3>3, <3>4 DEF DispatcherStep
  <2> QED
    BY <1>2, <2>2, <2>3, <2>4, <2>5, <2>6, <2>7, <2>8 DEF Next, Stopped
<1> QED
  BY <1>1, <1>2, TypeCorrect, PTL DEF Spec
-----------------------------------------------------------------------------
(***************************************************************************)
(* Request conservation.  The inductive invariant says in addition that    *)
(* ids are given out in order and never twice (the counter does not wrap   *)
(* before MaxSubmissions, by assumption of the theorem), which handler     *)
(* holds what, that only requests are answered, and that the response      *)
(* about to be stored is the one to the request the dispatcher holds.      *)
(***************************************************************************)
IdsInOrder ==
    /\ IsFiniteSet(issued)
    /\ \A r \in issued : r.id \in 1 .. Cardinality(issued)
    /\ \A r, s \in issued : r.id = s.id => r = s
    /\ Cardinality(issued) < MaxSubmissions =>
        next_request_id = Cardinality(issued) + 1

HandlersHold ==
    /\ \A t \in HttpThreads :
        \/ http_pc[t] = "enqueue" /\ \E r \in issued : http_req[t] = {r}
        \/ http_pc[t] # "enqueue" /\ http_req[t] = {}
    /\ \A t, u \in HttpThreads :
        t # u => http_req[t] \cap http_req[u] = {}

OnlyRequestsAnswered == \A id \in DOMAIN responses : \E r \in issued : r.id = id

RightResponse == d_pc = "put" => \E a \in assigned : a.req.id = resp.id

Places == IdsInOrder /\ HandlersHold /\ OnlyRequestsAnswered /\ RightResponse

(* The requests in handlers' hands, member by member. *)
LEMMA InHandlersMember ==
  \A r : r \in InHandlers <=> \E t \in HttpThreads : r \in http_req[t]
BY DEF InHandlers

(***************************************************************************)
(* No request is lost, duplicated or answered twice, whatever the handlers *)
(* and the dispatcher do and whichever MPI call fails, as long as the      *)
(* request counter has not passed the largest int.                         *)
(***************************************************************************)
THEOREM RequestsConserved ==
  ASSUME MaxSubmissions <= MaxInt
  PROVE  Spec => [](RequestConservation /\ Places)
<1>1. Init => RequestConservation /\ Places
  <2> SUFFICES ASSUME Init PROVE RequestConservation /\ Places
    OBVIOUS
  <2>1. issued = {} /\ InHandlers = {} /\ queue = {} /\ assigned = {}
    BY InHandlersMember DEF Init, SchedulerInit
  <2>2. Serving = {} /\ Answered = {}
    BY <2>1 DEF Serving, Answered
  <2>3. IdsInOrder
    BY <2>1, FS_EmptySet DEF Init, IdsInOrder
  <2> QED
    BY <2>1, <2>2, <2>3 DEF Init, RequestConservation, Places, HandlersHold,
      OnlyRequestsAnswered, RightResponse
<1>2. ASSUME TypeOK, BusyIffAssigned, HandsEmpty, RequestConservation, Places,
             [Next]_vars
      PROVE  RequestConservation' /\ Places'
  <2> USE <1>2 DEF Places, schedulerVars, httpVars, dispVars
  <2> USE DEF RequestConservation, IdsInOrder, HandlersHold,
              OnlyRequestsAnswered, RightResponse, Serving, Answered
  <2>1. /\ \A a, b \in assigned : a = b
        /\ http_pc \in [HttpThreads -> {"idle", "enqueue", "reply"}]
        /\ http_req \in [HttpThreads -> SUBSET Request]
        /\ resp \in [id : Ids, result : Results]
    BY DEF BusyIffAssigned, TypeOK, Typed
  <2>2. ASSUME UNCHANGED <<issued, queue, http_pc, http_req, assigned,
                           next_request_id, responses>>,
               d_pc # "release", d_pc' # "release",
               d_pc' = "put" => \E a \in assigned : a.req.id = resp'.id
        PROVE  RequestConservation' /\ Places'
    <3>1. InHandlers' = InHandlers
      BY <2>2 DEF InHandlers
    <3> QED
      BY <2>2, <3>1
  <2>3. ASSUME UNCHANGED <<issued, queue, http_pc, http_req, assigned,
                           next_request_id, responses, d_pc, resp>>
        PROVE  RequestConservation' /\ Places'
    <3>1. InHandlers' = InHandlers
      BY <2>3 DEF InHandlers
    <3> QED
      BY <2>3, <3>1
  <2>4. ASSUME NEW t \in HttpThreads, FetchId(t)
        PROVE  RequestConservation' /\ Places'
    <3>1. PICK s \in Submissions :
            /\ http_req' = [http_req EXCEPT ![t] = {Numbered(s, next_request_id)}]
            /\ issued' = issued \cup {Numbered(s, next_request_id)}
      BY <2>4 DEF FetchId
    <3> DEFINE request == Numbered(s, next_request_id)
               n == Cardinality(issued)
    <3>2. /\ n \in Nat /\ n < MaxSubmissions /\ n + 1 <= MaxInt
          /\ next_request_id = n + 1 /\ request.id = n + 1
      BY <2>4, FS_CardinalityType, BoundsAssumption DEF FetchId, Numbered
    <3>3. request \notin issued /\ request.id \notin DOMAIN responses
      BY <3>2
    <3>4. IsFiniteSet(issued') /\ Cardinality(issued') = n + 1
      BY <3>1, <3>3, FS_AddElement
    <3>5. IdsInOrder'
      <4>1. next_request_id' = IF n + 1 = MaxInt THEN -MaxInt - 1 ELSE n + 2
        BY <2>4, <3>2 DEF FetchId, Successor
      <4>2. n + 1 < MaxSubmissions => next_request_id' = n + 2
        BY <3>2, <4>1, BoundsAssumption
      <4>3. \A r \in issued' : r.id \in 1 .. n + 1
        BY <3>1, <3>2
      <4>4. \A r, q \in issued' : r.id = q.id => r = q
        BY <3>1, <3>2
      <4> QED
        BY <3>2, <3>4, <4>2, <4>3, <4>4
    <3>6. HandlersHold'
      BY <2>1, <2>4, <3>1, <3>3 DEF FetchId
    <3>7. InHandlers' = InHandlers \cup {request}
      <4>1. http_req[t] = {} /\ http_req'[t] = {request}
            /\ \A u \in HttpThreads : u # t => http_req'[u] = http_req[u]
        BY <2>1, <2>4, <3>1 DEF FetchId
      <4>2. InHandlers' = UNION {http_req'[u] : u \in HttpThreads}
        BY DEF InHandlers
      <4> QED
        BY <4>1, <4>2 DEF InHandlers
    <3>8. Answered' = Answered /\ Serving' = Serving
      BY <2>4, <3>1, <3>3 DEF FetchId
    <3>9. RequestConservation'
      <4>1. request \notin InHandlers \cup queue \cup Serving \cup Answered
        BY <3>3
      <4>2. queue' = queue
        BY <2>4 DEF FetchId
      <4> HIDE DEF Serving, Answered, request
      <4> QED
        BY <3>1, <3>7, <3>8, <4>1, <4>2 DEF request
    <3>10. OnlyRequestsAnswered' /\ RightResponse'
      BY <2>4, <3>1 DEF FetchId
    <3> QED
      BY <3>5, <3>6, <3>9, <3>10
  <2>5. ASSUME NEW t \in HttpThreads, EnqueueRequest(t)
        PROVE  RequestConservation' /\ Places'
    <3>1. PICK request \in issued : http_req[t] = {request}
      BY <2>5 DEF EnqueueRequest
    <3>2. queue' = queue \cup {request}
      BY <2>5, <3>1 DEF EnqueueRequest, Enqueue
    <3>3. http_req'[t] = {} /\ \A u \in HttpThreads : u # t =>
            http_req'[u] = http_req[u] /\ request \notin http_req[u]
      BY <2>1, <2>5, <3>1 DEF EnqueueRequest
    <3>4. InHandlers' = InHandlers \ {request} /\ request \in InHandlers
      <4>1. InHandlers' = UNION {http_req'[u] : u \in HttpThreads}
        BY DEF InHandlers
      <4> QED
        BY <3>1, <3>3, <4>1 DEF InHandlers
    <3>5. HandlersHold'
      BY <2>1, <2>5, <3>1, <3>3 DEF EnqueueRequest
    <3>6. Answered' = Answered /\ Serving' = Serving
      BY <2>5 DEF EnqueueRequest
    <3> QED
      BY <2>5, <3>2, <3>4, <3>5, <3>6 DEF EnqueueRequest
  <2>6. ASSUME NEW t \in HttpThreads, Reply(t)
        PROVE  RequestConservation' /\ Places'
    <3>1. InHandlers' = InHandlers
      BY <2>6 DEF Reply, InHandlers
    <3>2. HandlersHold'
      BY <2>1, <2>6 DEF Reply
    <3> QED
      BY <2>6, <3>1, <3>2 DEF Reply
  <2>7. ASSUME TryScheduleNext
        PROVE  RequestConservation' /\ Places'
    <3>1. PICK request \in queue, rank \in Workers :
            /\ ScheduleNext(request, rank)
            /\ assigned' = {[req |-> request, rank |-> rank]}
      BY <2>7 DEF TryScheduleNext
    <3>2. assigned = {} /\ d_pc = "schedule" /\ d_pc' = "send"
      BY <2>7 DEF TryScheduleNext, HandsEmpty
    <3>3. Serving = {} /\ Serving' = {request} /\ queue' = queue \ {request}
      BY <3>1, <3>2 DEF ScheduleNext
    <3>4. InHandlers' = InHandlers
      BY <2>7 DEF TryScheduleNext, InHandlers
    <3> QED
      BY <2>7, <3>1, <3>2, <3>3, <3>4 DEF TryScheduleNext
  <2>8. ASSUME PutResponse
        PROVE  RequestConservation' /\ Places'
    <3>1. PICK a \in assigned : resp.id = a.req.id
      BY <2>8 DEF PutResponse
    <3>2. Serving = {a.req} /\ Serving' = {} /\ a.req \in issued
      BY <2>1, <2>8 DEF PutResponse
    <3>3. DOMAIN responses' = DOMAIN responses \cup {a.req.id}
      BY <2>8, <3>1 DEF PutResponse
    <3>4. Answered' = Answered \cup {a.req}
      BY <2>8, <3>2, <3>3 DEF PutResponse
    <3>5. InHandlers' = InHandlers
      BY <2>8 DEF PutResponse, InHandlers
    <3>6. RequestConservation'
      <4>1. queue' = queue /\ issued' = issued
        BY <2>8 DEF PutResponse
      <4> HIDE DEF Serving, Answered
      <4> QED
        BY <3>2, <3>4, <3>5, <4>1
    <3>7. Places'
      BY <2>8, <3>2, <3>3 DEF PutResponse
    <3> QED
      BY <3>6, <3>7
  <2>9. ASSUME Release
        PROVE  RequestConservation' /\ Places'
    <3>1. InHandlers' = InHandlers
      BY <2>9 DEF Release, SetWorkerBusy, InHandlers
    <3>2. Serving = {} /\ Serving' = {}
      BY <2>9 DEF Release
    <3> QED
      BY <2>9, <3>1, <3>2 DEF Release, SetWorkerBusy
  <2>10. ASSUME CheckShutdown \/ SleepAndRetry \/ SendFrame \/ LastSendReturns
                \/ ReceiveResponseId \/ Unwind \/ FatalError \/ MpiCallFails
         PROVE  RequestConservation' /\ Places'
    BY <2>2, <2>10 DEF CheckShutdown, SleepAndRetry, SendFrame, LastSendReturns,
      ReceiveResponseId, ResponseFrame, Unwind, SetWorkerBusy, FatalError,
      MpiCallFails
  <2>11. ASSUME ReceiveResponseLength \/ ReceiveResponseData
         PROVE  RequestConservation' /\ Places'
    <3>1. resp'.id = resp.id
      BY <2>1, <2>11 DEF ReceiveResponseLength, ReceiveResponseData
    <3>2. d_pc \in {"response_length", "response_data"}
      BY <2>11 DEF ReceiveResponseLength, ReceiveResponseData, ResponseFrame
    <3>3. d_pc' = AfterReceive(resp.id) \/ d_pc' = "response_data"
      BY <2>11 DEF ReceiveResponseLength, ReceiveResponseData
    <3>4. d_pc' # "release" /\
          (d_pc' = "put" => \E a \in assigned : a.req.id = resp'.id)
      BY <3>1, <3>3 DEF AfterReceive
    <3> QED
      BY <2>2, <2>11, <3>2, <3>4 DEF ReceiveResponseLength, ReceiveResponseData
  <2>12. ASSUME NEW w \in Workers, WorkerStep(w)
         PROVE  RequestConservation' /\ Places'
    BY <2>3, <2>12 DEF WorkerStep, ReceiveId, ReceiveLength, ReceiveModel,
      ReceivePrompt, RejectRequest, LoadBackend, Generate, BackendThrows,
      Respond, SendResponseFrame, NextRequest, WorkerExits
  <2>13. ASSUME MainStep \/ ListenReturns \/ FreeingFails \/ Abort \/ UNCHANGED vars
                \/ \E w \in Workers : WorkerMpiCallFails(w)
         PROVE  RequestConservation' /\ Places'
    BY <2>3, <2>13 DEF MainStep, JoinDispatcher, GatewayExits, ListenReturns,
      FreeingFails, Abort, vars, WorkerMpiCallFails
  <2>14. ASSUME DispatcherStep
         PROVE  RequestConservation' /\ Places'
    BY <2>7, <2>8, <2>9, <2>10, <2>11, <2>14 DEF DispatcherStep
  <2>15. ASSUME Environment
         PROVE  RequestConservation' /\ Places'
    BY <2>4, <2>10, <2>13, <2>15 DEF Environment
  <2>16. ASSUME NEW t \in HttpThreads, HttpStep(t)
         PROVE  RequestConservation' /\ Places'
    BY <2>5, <2>6, <2>16 DEF HttpStep
  <2> QED
    BY <2>12, <2>13, <2>14, <2>15, <2>16 DEF Next, Stopped
<1> QED
  BY <1>1, <1>2, TypeCorrect, BusyIffAssignedInvariant, PTL DEF Spec

(***************************************************************************)
(* Until the request counter passes the largest int, each id given to a    *)
(* client is one that GET /v1/request/<id> takes.                          *)
(***************************************************************************)
THEOREM IdsCanBeAskedForUntilWrap ==
  ASSUME MaxSubmissions <= MaxInt
  PROVE  Spec => []IssuedIdsCanBeAskedFor
<1>1. IdsInOrder => IssuedIdsCanBeAskedFor
  <2> SUFFICES ASSUME IdsInOrder, NEW r \in issued
               PROVE  r.id >= 0
    BY DEF IssuedIdsCanBeAskedFor
  <2>1. r.id \in 1 .. Cardinality(issued)
    BY DEF IdsInOrder
  <2> QED
    BY <2>1
<1> QED
  BY <1>1, RequestsConserved, PTL DEF Places
-----------------------------------------------------------------------------
(***************************************************************************)
(* No rank ever loads a model of another rank's group, nor a second model: *)
(* require_worker_group stands before every construction of a backend, and *)
(* the groups are disjoint.                                                *)
(***************************************************************************)
THEOREM BackendsStayInGroup == Spec => []BackendsInGroup
<1>1. Init => BackendsInGroup
  BY DEF Init, BackendsInGroup
<1>2. ASSUME TypeOK, BackendsInGroup, [Next]_vars
      PROVE  BackendsInGroup'
  <2>1. ASSUME UNCHANGED backends
        PROVE  BackendsInGroup'
    BY <1>2, <2>1 DEF BackendsInGroup
  <2>2. ASSUME NEW w \in Workers, LoadBackend(w)
        PROVE  BackendsInGroup'
    <3>1. w_req[w].model_id \in Models /\ w \in Group[w_req[w].model_id]
      BY <1>2, <2>2 DEF TypeOK, RequestReceived, LoadBackend, Serviceable
    <3>2. /\ backends \in [Workers -> SUBSET Models]
          /\ backends' = [backends EXCEPT ![w] =
                            backends[w] \cup {w_req[w].model_id}]
      BY <1>2, <2>2 DEF TypeOK, Typed, LoadBackend
    <3>3. \A v \in Workers : \A m \in backends'[v] : m \in Models /\ v \in Group[m]
      BY <1>2, <3>1, <3>2 DEF BackendsInGroup
    <3> QED
      BY <3>3, GroupAssumption DEF BackendsInGroup
  <2>3. ASSUME NEW w \in Workers, WorkerStep(w)
        PROVE  LoadBackend(w) \/ UNCHANGED backends
    BY <2>3 DEF WorkerStep, ReceiveId, ReceiveLength, ReceiveModel,
      ReceivePrompt, RejectRequest, Generate, BackendThrows, SendResponseFrame,
      NextRequest, WorkerExits
  <2>4. ASSUME NEW t \in HttpThreads, HttpStep(t)
        PROVE  UNCHANGED backends
    BY <2>4 DEF HttpStep, EnqueueRequest, Reply, workerVars
  <2>5. ASSUME DispatcherStep
        PROVE  UNCHANGED backends
    BY <2>5 DEF DispatcherStep, CheckShutdown, TryScheduleNext, SleepAndRetry,
      SendFrame, LastSendReturns, ReceiveResponseId, ReceiveResponseLength,
      ReceiveResponseData, PutResponse, Release, Unwind, FatalError, workerVars
  <2>6. ASSUME MainStep \/ Environment \/ FreeingFails \/ Abort \/ UNCHANGED vars
        PROVE  UNCHANGED backends
    BY <2>6 DEF MainStep, JoinDispatcher, GatewayExits, Environment, FetchId,
      MpiCallFails, WorkerMpiCallFails, ListenReturns, FreeingFails,
      Abort, vars, workerVars
  <2> QED
    BY <1>2, <2>1, <2>2, <2>3, <2>4, <2>5, <2>6 DEF Next, Stopped
<1> QED
  BY <1>1, <1>2, TypeCorrect, PTL DEF Spec
=============================================================================
