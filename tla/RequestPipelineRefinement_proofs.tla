------------------ MODULE RequestPipelineRefinement_proofs ------------------
(***************************************************************************)
(* Proof that the pipeline implements RequestLifecycle, for any number of  *)
(* ranks, handler threads and models, as long as the request counter has   *)
(* not passed the largest int.                                             *)
(*                                                                         *)
(* The step that matters is PutResponse: what is stored is an answer to    *)
(* the request in hand.  OneExchange follows that request's model, prompt  *)
(* and answer through the frames and the locals of both sides.             *)
(***************************************************************************)
EXTENDS RequestPipelineChannels_proofs

\* The frames that carry request r, and those that carry an answer to it.
RequestFramesOf(r) ==
    {frame \in RequestFrameSet :
        /\ frame.tag = "model_data" => frame.val = r.model_id
        /\ frame.tag = "prompt_data" => frame.val = r.prompt}

ResponseFramesOf(r) ==
    {frame \in ResponseFrameSet :
        /\ frame.tag = "response_length" /\ frame.val = "zero" =>
            <<>> \in AnswersTo(r)
        /\ frame.tag = "response_data" => frame.val \in AnswersTo(r)}

\* Worker w and its channels hold what belongs to request r, nothing else.
WorksOn(w, r) ==
    /\ to_worker[w] \in Seq(RequestFramesOf(r))
    /\ w_pc[w] \in {"prompt_length", "prompt_data", "handle"} =>
        w_req[w].model_id = r.model_id
    /\ w_pc[w] = "handle" => w_req[w].prompt = r.prompt
    /\ w_out[w] \in Seq(ResponseFramesOf(r))
    /\ from_worker[w] \in Seq(ResponseFramesOf(r))

\* And so does the dispatcher.
DispatchesTo(r) ==
    /\ outbox \in Seq(RequestFramesOf(r))
    /\ d_pc = "response_length" => resp.result = <<>>
    /\ d_pc = "put" => resp.result \in AnswersTo(r)

OneExchange ==
    InExchange => \A a \in assigned : WorksOn(a.rank, a.req) /\ DispatchesTo(a.req)
-----------------------------------------------------------------------------
(* The frames of a request carry it. *)
LEMMA RequestFramesCarry ==
  ASSUME NEW r \in Request, NEW rank \in Workers
  PROVE  RequestFrames(r, rank) \in Seq(RequestFramesOf(r))
<1>1. \A size \in {Size(r.model_id), Size(r.prompt)} : size \in {"fits", "oversized"}
  BY DEF Size
<1>2. /\ [to |-> rank, tag |-> "request_id", val |-> r.id] \in RequestFramesOf(r)
      /\ [to |-> rank, tag |-> "model_length", val |-> Size(r.model_id)]
            \in RequestFramesOf(r)
      /\ [to |-> rank, tag |-> "model_data", val |-> r.model_id]
            \in RequestFramesOf(r)
      /\ [to |-> rank, tag |-> "prompt_length", val |-> Size(r.prompt)]
            \in RequestFramesOf(r)
      /\ [to |-> rank, tag |-> "prompt_data", val |-> r.prompt]
            \in RequestFramesOf(r)
  BY <1>1, RequestFields DEF RequestFrameSet, RequestFramesOf
<1> QED
  BY <1>2 DEF RequestFrames

(* The frames of an answer carry that answer. *)
LEMMA ResponseFramesCarry ==
  ASSUME NEW r, NEW id \in Ids, NEW result \in Results, result \in AnswersTo(r)
  PROVE  ResponseFrames(id, result) \in Seq(ResponseFramesOf(r))
<1>1. /\ [tag |-> "response_id", val |-> id] \in ResponseFramesOf(r)
      /\ result = <<>> =>
            [tag |-> "response_length", val |-> "zero"] \in ResponseFramesOf(r)
      /\ [tag |-> "response_length", val |-> "fits"] \in ResponseFramesOf(r)
      /\ [tag |-> "response_data", val |-> result] \in ResponseFramesOf(r)
  BY DEF ResponseFrameSet, ResponseFramesOf
<1>2. <<[tag |-> "response_id", val |-> id]>> \in Seq(ResponseFramesOf(r))
  BY <1>1
<1>3. CASE result = <<>>
  <2>1. <<[tag |-> "response_length", val |-> "zero"]>> \in Seq(ResponseFramesOf(r))
    BY <1>1, <1>3
  <2> QED
    BY <1>2, <1>3, <2>1, ConcatProperties DEF ResponseFrames
<1>4. CASE result # <<>>
  <2>1. <<[tag |-> "response_length", val |-> "fits"],
          [tag |-> "response_data", val |-> result]>> \in Seq(ResponseFramesOf(r))
    BY <1>1
  <2> QED
    BY <1>2, <1>4, <2>1, ConcatProperties DEF ResponseFrames
<1> QED
  BY <1>3, <1>4

(* What a worker may answer to the request it has received. *)
LEMMA WorkerAnswers ==
  ASSUME Typed, NEW w \in Workers, NEW r \in Request, w_pc[w] = "handle",
         w_req[w].model_id = r.model_id, w_req[w].prompt = r.prompt
  PROVE  /\ ErrorText(w) \in AnswersTo(r)
         /\ Serviceable(w) =>
              {<<>>, <<"text", w_req[w].model_id, w_req[w].prompt>>}
                \subseteq AnswersTo(r)
<1>1. ErrorText(w) = <<"error", r.model_id, r.prompt>>
  BY DEF ErrorText
<1>2. Serviceable(w) => Group[r.model_id] # {} /\ r.prompt \notin LoraPrompts
  BY DEF Serviceable
<1> QED
  BY <1>1, <1>2 DEF AnswersTo
-----------------------------------------------------------------------------
(* A worker's step keeps the exchange about one request. *)
LEMMA WorkerExchange ==
  ASSUME Typed, RequestReceived, NEW w \in Workers, NEW r \in Request,
         Moves(w), WorksOn(w, r)
  PROVE  WorksOn(w, r)'
<1>0. /\ w_pc \in [Workers -> WorkerStates]
      /\ w_req \in [Workers -> [id : Ids, model_id : Models \cup {""},
                                prompt : Prompts \cup {""}]]
      /\ DOMAIN w_out = Workers /\ DOMAIN to_worker = Workers
      /\ DOMAIN from_worker = Workers
  BY DEF Typed
<1>1. \A tag, val : RequestFrame(w, tag, val) =>
        /\ w_pc[w] = tag
        /\ to_worker'[w] \in Seq(RequestFramesOf(r))
        /\ tag = "model_data" => val = r.model_id
        /\ tag = "prompt_data" => val = r.prompt
  <2> SUFFICES ASSUME NEW tag, NEW val, RequestFrame(w, tag, val)
               PROVE  /\ w_pc[w] = tag
                      /\ to_worker'[w] \in Seq(RequestFramesOf(r))
                      /\ tag = "model_data" => val = r.model_id
                      /\ tag = "prompt_data" => val = r.prompt
    OBVIOUS
  <2>1. PICK i \in DOMAIN to_worker[w] :
          /\ IsFirst(to_worker[w], i, tag)
          /\ val = to_worker[w][i].val
          /\ to_worker' = [to_worker EXCEPT ![w] = RemoveAt(to_worker[w], i)]
    BY DEF RequestFrame
  <2>2. RemoveAt(to_worker[w], i) \in Seq(RequestFramesOf(r))
    BY RemoveAtType DEF WorksOn
  <2>3. to_worker[w][i] \in RequestFramesOf(r) /\ to_worker[w][i].tag = tag
    BY <2>1 DEF WorksOn, IsFirst
  <2>4. w_pc[w] = tag
    BY DEF RequestFrame
  <2>5. to_worker'[w] \in Seq(RequestFramesOf(r))
    BY <1>0, <2>1, <2>2
  <2> QED
    BY <2>1, <2>3, <2>4, <2>5 DEF RequestFramesOf
<1>2. CASE ReceiveId(w)
  BY <1>0, <1>1, <1>2 DEF ReceiveId, WorksOn
<1>3. CASE ReceiveLength(w, "model_length", "model_data")
  BY <1>0, <1>1, <1>3 DEF ReceiveLength, WorksOn
<1>4. CASE ReceiveModel(w)
  <2>1. PICK model : /\ RequestFrame(w, "model_data", model)
                     /\ w_req' = [w_req EXCEPT ![w].model_id = model]
                     /\ w_pc' = [w_pc EXCEPT ![w] = "prompt_length"]
                     /\ UNCHANGED <<w_out, from_worker>>
    BY <1>4 DEF ReceiveModel
  <2>2. w_req'[w].model_id = r.model_id /\ w_pc'[w] = "prompt_length"
        /\ to_worker'[w] \in Seq(RequestFramesOf(r))
    BY <1>0, <1>1, <2>1
  <2> QED
    BY <2>1, <2>2 DEF WorksOn
<1>5. CASE ReceiveLength(w, "prompt_length", "prompt_data")
  BY <1>0, <1>1, <1>5 DEF ReceiveLength, WorksOn
<1>6. CASE ReceivePrompt(w)
  <2>1. PICK prompt : /\ RequestFrame(w, "prompt_data", prompt)
                      /\ w_req' = [w_req EXCEPT ![w].prompt = prompt]
                      /\ w_pc' = [w_pc EXCEPT ![w] = "handle"]
                      /\ UNCHANGED <<w_out, from_worker>>
    BY <1>6 DEF ReceivePrompt
  <2>2. /\ w_req'[w].prompt = r.prompt
        /\ w_req'[w].model_id = w_req[w].model_id
        /\ to_worker'[w] \in Seq(RequestFramesOf(r))
    BY <1>0, <1>1, <2>1
  <2>3. w_req[w].model_id = r.model_id
    BY <1>1, <2>1 DEF WorksOn
  <2> QED
    BY <2>1, <2>2, <2>3 DEF WorksOn
<1>7. ASSUME NEW result \in AnswersTo(r) \cap Results, w_pc[w] = "handle",
             Respond(w, result)
      PROVE  WorksOn(w, r)'
  <2>1. ResponseFrames(w_req[w].id, result) \in Seq(ResponseFramesOf(r))
    BY <1>0, ResponseFramesCarry
  <2>2. /\ w_out'[w] \in Seq(ResponseFramesOf(r)) /\ w_pc'[w] = "respond"
        /\ UNCHANGED <<to_worker, from_worker>>
    BY <1>0, <1>7, <2>1 DEF Respond, netVars
  <2> QED
    BY <2>2 DEF WorksOn
<1>8. CASE RejectRequest(w) \/ Generate(w) \/ BackendThrows(w)
  <2>1. /\ w_pc[w] = "handle" /\ w_req[w].model_id = r.model_id
        /\ w_req[w].prompt = r.prompt
    BY <1>8 DEF RejectRequest, Generate, BackendThrows, WorksOn
  <2>2. PICK result \in {ErrorText(w), <<>>,
                         <<"text", w_req[w].model_id, w_req[w].prompt>>} :
          /\ Respond(w, result)
          /\ result = ErrorText(w) \/ Serviceable(w)
    BY <1>8 DEF RejectRequest, Generate, BackendThrows
  <2>3. result \in AnswersTo(r)
    BY <2>1, <2>2, WorkerAnswers
  <2>4. result \in Results
    BY <2>1, <2>2 DEF RequestReceived, Results, ErrorText
  <2> QED
    BY <1>7, <2>1, <2>2, <2>3, <2>4
<1>9. CASE LoadBackend(w) \/ WorkerMpiCallFails(w) \/ WorkerExits(w)
  BY <1>0, <1>9 DEF LoadBackend, WorkerMpiCallFails, WorkerExits, WorksOn, netVars
<1>10. CASE NextRequest(w)
  BY <1>0, <1>10 DEF NextRequest, WorksOn, netVars
<1>11. CASE SendResponseFrame(w)
  <2>1. /\ w_out[w] \in Seq(ResponseFramesOf(r)) /\ w_out[w] # <<>>
        /\ from_worker[w] \in Seq(ResponseFramesOf(r))
    BY <1>11 DEF SendResponseFrame, WorksOn
  <2>2. Head(w_out[w]) \in ResponseFramesOf(r)
        /\ Tail(w_out[w]) \in Seq(ResponseFramesOf(r))
    BY <2>1, HeadTailProperties
  <2>3. Append(from_worker[w], Head(w_out[w])) \in Seq(ResponseFramesOf(r))
    BY <2>1, <2>2, AppendProperties
  <2>4. /\ w_out'[w] = Tail(w_out[w])
        /\ from_worker'[w] = Append(from_worker[w], Head(w_out[w]))
        /\ UNCHANGED <<to_worker, w_pc, w_req>>
    BY <1>0, <1>11 DEF SendResponseFrame
  <2> QED
    BY <2>2, <2>3, <2>4 DEF WorksOn
<1> QED
  BY <1>2, <1>3, <1>4, <1>5, <1>6, <1>8, <1>9, <1>10, <1>11 DEF Moves, Receives
-----------------------------------------------------------------------------
(* What both sides hold stays what belongs to the request in hand.         *)
LEMMA ExchangeKept ==
  ASSUME TypeOK, BusyIffAssigned, InStep, OneExchange, [Next]_vars
  PROVE  OneExchange'
<1>0. /\ Typed /\ RequestReceived
      /\ \A a \in assigned : a.req \in Request /\ a.rank \in Workers
      /\ \A a, b \in assigned : a = b
  BY DEF TypeOK, Typed, Assignment, BusyIffAssigned
<1>1. ASSUME ~InExchange'
      PROVE  OneExchange'
  BY <1>1 DEF OneExchange
<1>2. ASSUME InExchange,
             UNCHANGED <<assigned, outbox, resp, to_worker, from_worker, w_pc,
                         w_req, w_out>>,
             d_pc' \notin {"response_length", "put"} \/ d_pc' = d_pc
      PROVE  OneExchange'
  BY <1>2 DEF OneExchange, WorksOn, DispatchesTo
<1>3. ASSUME UNCHANGED <<d_pc, assigned, outbox, resp, to_worker, from_worker,
                         w_pc, w_req, w_out>>
      PROVE  OneExchange'
  BY <1>3 DEF OneExchange, InExchange, WorksOn, DispatchesTo
<1>4. ASSUME NEW v \in Workers, WorkerStep(v) \/ WorkerMpiCallFails(v)
      PROVE  OneExchange'
  <2>1. Moves(v)
    BY <1>4 DEF Moves, Receives, WorkerStep
  <2>2. /\ UNCHANGED <<d_pc, outbox, assigned>>
        /\ \A w \in Workers : w # v =>
             UNCHANGED <<to_worker[w], from_worker[w], w_out[w], w_pc[w]>>
    BY <1>0, <2>1, OthersStay
  <2>3. resp' = resp
    BY <1>4 DEF WorkerStep, ReceiveId, ReceiveLength, ReceiveModel,
      ReceivePrompt, RejectRequest, LoadBackend, Generate, BackendThrows,
      Respond, SendResponseFrame, NextRequest, WorkerExits,
      WorkerMpiCallFails, dispVars
  <2>4. \A w \in Workers : w # v => w_req'[w] = w_req[w]
    BY <1>0, <1>4 DEF Typed, WorkerStep, ReceiveId, ReceiveLength, ReceiveModel,
      ReceivePrompt, RejectRequest, LoadBackend, Generate, BackendThrows,
      Respond, SendResponseFrame, NextRequest, WorkerExits, WorkerMpiCallFails
  <2>5. ASSUME InExchange, NEW a \in assigned
        PROVE  WorksOn(a.rank, a.req)' /\ DispatchesTo(a.req)'
    <3>1. WorksOn(a.rank, a.req) /\ DispatchesTo(a.req)
      BY <2>5 DEF OneExchange
    <3>2. CASE a.rank = v
      BY <1>0, <2>1, <2>2, <2>3, <3>1, <3>2, WorkerExchange DEF DispatchesTo
    <3>3. CASE a.rank # v
      BY <1>0, <2>2, <2>3, <2>4, <3>1, <3>3 DEF WorksOn, DispatchesTo
    <3> QED
      BY <3>2, <3>3
  <2> QED
    BY <2>2, <2>5 DEF OneExchange, InExchange
<1>5. ASSUME TryScheduleNext
      PROVE  OneExchange'
  <2>1. PICK request \in queue, rank \in Workers :
          /\ assigned' = {[req |-> request, rank |-> rank]}
          /\ outbox' = RequestFrames(request, rank)
    BY <1>5 DEF TryScheduleNext
  <2>2. /\ d_pc = "schedule" /\ d_pc' = "send"
        /\ UNCHANGED <<to_worker, from_worker, w_pc, w_req, w_out>>
    BY <1>5 DEF TryScheduleNext, workerVars, netVars
  <2>3. Quiet(rank)
    BY <2>2 DEF InStep, IdleInStep, BetweenExchanges
  <2>4. WorksOn(rank, request)'
    BY <2>2, <2>3 DEF WorksOn, Quiet
  <2>5. DispatchesTo(request)'
    <3>1. request \in Request
      BY <1>0 DEF Typed
    <3> QED
      BY <2>1, <2>2, <3>1, RequestFramesCarry DEF DispatchesTo
  <2> QED
    BY <2>1, <2>4, <2>5 DEF OneExchange
<1>6. ASSUME SendFrame
      PROVE  OneExchange'
  <2>1. /\ outbox # <<>> /\ outbox' = Tail(outbox)
        /\ to_worker' = [to_worker EXCEPT ![Head(outbox).to] =
                              Append(to_worker[Head(outbox).to], Head(outbox))]
        /\ UNCHANGED <<d_pc, assigned, resp, from_worker, w_pc, w_req, w_out>>
    BY <1>6 DEF SendFrame, workerVars
  <2>2. ASSUME InExchange, NEW a \in assigned
        PROVE  WorksOn(a.rank, a.req)' /\ DispatchesTo(a.req)'
    <3>1. WorksOn(a.rank, a.req) /\ DispatchesTo(a.req)
      BY <2>2 DEF OneExchange
    <3>2. /\ Head(outbox) \in RequestFramesOf(a.req)
          /\ Tail(outbox) \in Seq(RequestFramesOf(a.req))
      BY <2>1, <3>1, HeadTailProperties DEF DispatchesTo
    <3>3. Append(to_worker[a.rank], Head(outbox)) \in Seq(RequestFramesOf(a.req))
      BY <3>1, <3>2, AppendProperties DEF WorksOn
    <3>4. to_worker'[a.rank] \in Seq(RequestFramesOf(a.req))
      <4>1. DOMAIN to_worker = Workers
        BY <1>0 DEF Typed
      <4>2. CASE Head(outbox).to = a.rank
        BY <1>0, <2>1, <3>3, <4>1, <4>2
      <4>3. CASE Head(outbox).to # a.rank
        BY <1>0, <2>1, <3>1, <4>1, <4>3 DEF WorksOn
      <4> QED
        BY <4>2, <4>3
    <3> QED
      BY <2>1, <3>1, <3>2, <3>4 DEF WorksOn, DispatchesTo
  <2> QED
    BY <2>1, <2>2 DEF OneExchange, InExchange
<1>7. ASSUME ReceiveResponseId \/ ReceiveResponseLength \/ ReceiveResponseData
      PROVE  OneExchange'
  <2>1. /\ UNCHANGED <<assigned, outbox, to_worker, w_pc, w_req, w_out>>
        /\ InExchange
    BY <1>7 DEF ReceiveResponseId, ReceiveResponseLength, ReceiveResponseData,
      ResponseFrame, InExchange, workerVars
  <2>2. PICK tag, val :
          /\ ResponseFrame(tag, val)
          /\ \/ /\ d_pc' = "response_length" /\ resp'.result = <<>>
             \/ /\ tag = "response_length" /\ val = "zero" /\ resp' = resp
                /\ d_pc' \in {"put", "unwind"}
             \/ d_pc' = "response_data"
             \/ /\ tag = "response_data" /\ resp'.result = val
                /\ d_pc' \in {"put", "unwind"}
    <3>1. CASE ReceiveResponseId
      BY <3>1 DEF ReceiveResponseId
    <3>2. CASE ReceiveResponseLength
      BY <3>2 DEF ReceiveResponseLength, AfterReceive
    <3>3. CASE ReceiveResponseData
      <4>1. PICK result \in Results :
              /\ ResponseFrame("response_data", result)
              /\ resp' = [resp EXCEPT !.result = result]
              /\ d_pc' = AfterReceive(resp.id)
        BY <3>3 DEF ReceiveResponseData
      <4>2. resp'.result = result
        BY <1>0, <4>1 DEF Typed
      <4> QED
        BY <4>1, <4>2 DEF AfterReceive
    <3> QED
      BY <1>7, <3>1, <3>2, <3>3
  <2>3. PICK a \in assigned : \E i \in DOMAIN from_worker[a.rank] :
          /\ IsFirst(from_worker[a.rank], i, tag)
          /\ val = from_worker[a.rank][i].val
          /\ from_worker' = [from_worker EXCEPT ![a.rank] =
                                RemoveAt(from_worker[a.rank], i)]
    BY <2>2 DEF ResponseFrame
  <2>4. PICK i \in DOMAIN from_worker[a.rank] :
          /\ IsFirst(from_worker[a.rank], i, tag)
          /\ val = from_worker[a.rank][i].val
          /\ from_worker' = [from_worker EXCEPT ![a.rank] =
                                RemoveAt(from_worker[a.rank], i)]
    BY <2>3
  <2>5. WorksOn(a.rank, a.req) /\ DispatchesTo(a.req) /\ d_pc = tag
    BY <2>1, <2>2 DEF OneExchange, ResponseFrame
  <2>6. from_worker[a.rank][i] \in ResponseFramesOf(a.req)
        /\ from_worker[a.rank][i].tag = tag
    BY <2>4, <2>5 DEF WorksOn, IsFirst
  <2>7. from_worker'[a.rank] \in Seq(ResponseFramesOf(a.req))
    <3>1. RemoveAt(from_worker[a.rank], i) \in Seq(ResponseFramesOf(a.req))
      BY <2>5, RemoveAtType DEF WorksOn
    <3>2. DOMAIN from_worker = Workers /\ a.rank \in Workers
      BY <1>0 DEF Typed
    <3> QED
      BY <2>4, <3>1, <3>2
  <2>8. d_pc' = "put" => resp'.result \in AnswersTo(a.req)
    <3>1. ASSUME tag = "response_length", val = "zero", resp' = resp
          PROVE  resp'.result \in AnswersTo(a.req)
      BY <2>4, <2>5, <2>6, <3>1 DEF ResponseFramesOf, DispatchesTo
    <3>2. ASSUME tag = "response_data", resp'.result = val
          PROVE  resp'.result \in AnswersTo(a.req)
      BY <2>4, <2>6, <3>2 DEF ResponseFramesOf
    <3> QED
      BY <2>2, <3>1, <3>2
  <2>9. d_pc' = "response_length" => resp'.result = <<>>
    BY <2>2
  <2>10. WorksOn(a.rank, a.req)' /\ DispatchesTo(a.req)'
    BY <2>1, <2>5, <2>7, <2>8, <2>9 DEF WorksOn, DispatchesTo
  <2> QED
    BY <1>0, <2>1, <2>10 DEF OneExchange
<1>8. ASSUME DispatcherStep
      PROVE  OneExchange'
  <2>1. CASE CheckShutdown \/ SleepAndRetry \/ Release \/ Unwind \/ FatalError
    BY <1>1, <2>1 DEF CheckShutdown, SleepAndRetry, Release, Unwind, FatalError,
      InExchange
  <2>2. CASE LastSendReturns \/ PutResponse
    <3>1. UNCHANGED <<assigned, outbox, resp, to_worker, from_worker, w_pc,
                      w_req, w_out>>
      BY <2>2 DEF LastSendReturns, PutResponse, workerVars, netVars
    <3>2. \/ d_pc' = "done"
          \/ InExchange /\ d_pc' \in {"response_id", "release"}
      BY <2>2 DEF LastSendReturns, PutResponse, InExchange
    <3>3. d_pc' = "done" => ~InExchange'
      BY DEF InExchange
    <3> QED
      BY <1>1, <1>2, <3>1, <3>2, <3>3
  <2> QED
    BY <1>5, <1>6, <1>7, <1>8, <2>1, <2>2 DEF DispatcherStep
<1>9. ASSUME NEW t \in HttpThreads, HttpStep(t) \/ FetchId(t)
      PROVE  OneExchange'
  BY <1>3, <1>9 DEF HttpStep, EnqueueRequest, Reply, FetchId, dispVars,
    workerVars, netVars
<1>10. ASSUME MainStep \/ ListenReturns \/ FreeingFails \/ Abort \/ UNCHANGED vars
       PROVE  OneExchange'
  BY <1>3, <1>10 DEF MainStep, JoinDispatcher, GatewayExits, ListenReturns,
    FreeingFails, Abort, vars, dispVars, workerVars, netVars
<1>11. ASSUME MpiCallFails
       PROVE  OneExchange'
  BY <1>1, <1>11 DEF MpiCallFails, InExchange
<1>12. ASSUME Environment
       PROVE  OneExchange'
  BY <1>4, <1>9, <1>10, <1>11, <1>12 DEF Environment
<1> QED
  BY <1>4, <1>8, <1>9, <1>10, <1>12 DEF Next, Stopped

(* The exchange is about one request, at every moment of it. *)
THEOREM OneExchangeInvariant == Spec => []OneExchange
<1>1. Init => OneExchange
  BY DEF Init, OneExchange, InExchange
<1> QED
  BY <1>1, ExchangeKept, TypeCorrect, BusyIffAssignedInvariant,
    ChannelsStayInStep, PTL DEF Spec
-----------------------------------------------------------------------------
(* A handler's request has an id that no request in use has. *)
LEMMA SubmitStep ==
  ASSUME Typed, RequestConservation, Places, NEW t \in HttpThreads,
         EnqueueRequest(t)
  PROVE  Lifecycle!Next
<1>1. PICK r \in issued : http_req[t] = {r}
  BY DEF EnqueueRequest, Places, HandlersHold
<1>2. /\ queue' = queue \cup {r} /\ r \in Request
      /\ Serving' = Serving /\ responses' = responses
  BY <1>1 DEF EnqueueRequest, Enqueue, Typed, Serving, dispVars
<1>3. r \in InHandlers
  BY <1>1, InHandlersMember
<1>4. r.id \notin {q.id : q \in queue \cup Serving} \cup DOMAIN responses
  <2>1. ASSUME NEW q \in queue \cup Serving, q.id = r.id
        PROVE  FALSE
    <3>1. q \in issued
      BY <2>1 DEF RequestConservation
    <3>2. q = r
      BY <1>1, <2>1, <3>1 DEF Places, IdsInOrder
    <3> QED
      BY <1>3, <2>1, <3>2 DEF RequestConservation
  <2>2. ASSUME r.id \in DOMAIN responses
        PROVE  FALSE
    <3>1. r \in Answered
      BY <1>1, <2>2 DEF Answered
    <3> QED
      BY <1>3, <3>1 DEF RequestConservation
  <2> QED
    BY <2>1, <2>2
<1>5. Lifecycle!Submit(r)
  BY <1>2, <1>4 DEF Lifecycle!Submit, Lifecycle!IdsInUse
<1> QED
  BY <1>2, <1>5 DEF Lifecycle!Next

(* schedule_next takes a request that no queued one is to be served before. *)
LEMMA ServeStep ==
  ASSUME Typed, HandsEmpty, TryScheduleNext
  PROVE  Lifecycle!Next
<1>1. PICK r \in queue, rank \in Workers :
        ScheduleNext(r, rank) /\ assigned' = {[req |-> r, rank |-> rank]}
  BY DEF TryScheduleNext
<1>2. /\ d_pc = "schedule" /\ d_pc' = "send" /\ assigned = {}
      /\ responses' = responses
  BY DEF TryScheduleNext, HandsEmpty
<1>3. Serving = {} /\ Serving' = {r}
  BY <1>1, <1>2 DEF Serving
<1>4. queue' = queue \ {r} /\ \A s \in queue : ~ReqCmp(r, s)
  BY <1>1 DEF ScheduleNext, Top
<1>5. \A s \in queue : ~Lifecycle!Before(s, r)
  <2>1. \A b, c : b > c <=> c < b
    OBVIOUS
  <2> QED
    BY <1>4, <2>1 DEF ReqCmp, Lifecycle!Before
<1>6. Lifecycle!Serve(r)
  BY <1>1, <1>2, <1>3, <1>4, <1>5 DEF Lifecycle!Serve
<1>7. r \in Request
  BY DEF Typed
<1> QED
  BY <1>6, <1>7 DEF Lifecycle!Next

(* What is stored is an answer to the request in hand. *)
LEMMA AnswerStep ==
  ASSUME Typed, BusyIffAssigned, RightResponse, OneExchange, PutResponse
  PROVE  Lifecycle!Next
<1>1. /\ d_pc = "put" /\ d_pc' = "release"
      /\ UNCHANGED <<queue, assigned>>
      /\ responses' = [id \in DOMAIN responses \cup {resp.id} |->
                          IF id = resp.id THEN resp.result ELSE responses[id]]
  BY DEF PutResponse, schedulerVars
<1>2. PICK a \in assigned : a.req.id = resp.id
  BY <1>1 DEF RightResponse
<1> DEFINE r == a.req
<1>3. r \in Request
  BY DEF Typed, Assignment
<1>4. resp.result \in AnswersTo(r)
  BY <1>1 DEF OneExchange, InExchange, DispatchesTo
<1>5. Serving = {r} /\ Serving' = {}
  BY <1>1 DEF Serving, BusyIffAssigned
<1>6. resp.result \in [q \in Request |-> AnswersTo(q)][r]
  BY <1>3, <1>4
<1>7. Lifecycle!Answer(r)
  BY <1>1, <1>2, <1>5, <1>6 DEF Lifecycle!Answer
<1> QED
  BY <1>3, <1>7 DEF Lifecycle!Next

(* All other steps are invisible to clients. *)
LEMMA InvisibleStep ==
  ASSUME BusyIffAssigned,
         UNCHANGED <<queue, responses>>,
         \/ UNCHANGED <<d_pc, assigned>>
         \/ /\ assigned' = assigned
            /\ d_pc # "release" /\ d_pc' # "release"
         \/ d_pc = "release" /\ assigned' = {}
  PROVE  UNCHANGED Lifecycle!vars
<1>1. Serving' = Serving
  BY DEF Serving
<1> QED
  BY <1>1 DEF Lifecycle!vars

(***************************************************************************)
(* The pipeline implements RequestLifecycle until the request counter      *)
(* passes the largest int: through all the threads and frames, requests    *)
(* are served one at a time, the best first, each at most once, and the    *)
(* answer stored under an id is the answer to the request with that id,    *)
(* never changed afterwards.                                               *)
(***************************************************************************)
THEOREM PipelineImplementsLifecycle ==
  ASSUME MaxSubmissions <= MaxInt
  PROVE  Spec => ImplementsLifecycle
<1>1. Init => Lifecycle!Init
  BY DEF Init, SchedulerInit, Serving, Lifecycle!Init
<1>2. ASSUME TypeOK, BusyIffAssigned, HandsEmpty, RequestConservation, Places,
             OneExchange, [Next]_vars
      PROVE  [Lifecycle!Next]_(Lifecycle!vars)
  <2>0. Typed /\ RightResponse
    BY <1>2 DEF TypeOK, Places
  <2>1. ASSUME NEW t \in HttpThreads, HttpStep(t)
        PROVE  [Lifecycle!Next]_(Lifecycle!vars)
    <3>1. CASE Reply(t)
      <4>1. UNCHANGED <<queue, responses, d_pc, assigned>>
        BY <3>1 DEF Reply, schedulerVars, dispVars
      <4> QED
        BY <1>2, <4>1, InvisibleStep
    <3> QED
      BY <1>2, <2>0, <2>1, <3>1, SubmitStep DEF HttpStep
  <2>2. ASSUME DispatcherStep
        PROVE  [Lifecycle!Next]_(Lifecycle!vars)
    <3>1. CASE CheckShutdown \/ SleepAndRetry \/ SendFrame \/ LastSendReturns
               \/ ReceiveResponseId \/ ReceiveResponseLength
               \/ ReceiveResponseData \/ Unwind \/ FatalError
      <4>1. /\ UNCHANGED <<queue, responses, assigned>>
            /\ d_pc # "release" /\ d_pc' # "release"
        BY <3>1 DEF CheckShutdown, SleepAndRetry, SendFrame, LastSendReturns,
          ReceiveResponseId, ReceiveResponseLength, ReceiveResponseData,
          ResponseFrame, AfterReceive, Unwind, FatalError, SetWorkerBusy,
          schedulerVars
      <4> QED
        BY <1>2, <4>1, InvisibleStep
    <3>2. CASE Release
      <4>1. /\ UNCHANGED <<queue, responses>>
            /\ d_pc = "release" /\ assigned' = {}
        BY <3>2 DEF Release, SetWorkerBusy
      <4> QED
        BY <1>2, <4>1, InvisibleStep
    <3>3. CASE TryScheduleNext
      BY <1>2, <2>0, <3>3, ServeStep
    <3>4. CASE PutResponse
      BY <1>2, <2>0, <3>4, AnswerStep
    <3> QED
      BY <2>2, <3>1, <3>2, <3>3, <3>4 DEF DispatcherStep
  <2>3. ASSUME NEW w \in Workers, WorkerStep(w) \/ WorkerMpiCallFails(w)
        PROVE  [Lifecycle!Next]_(Lifecycle!vars)
    <3>1. UNCHANGED <<queue, responses, d_pc, assigned>>
      BY <2>3 DEF WorkerStep, ReceiveId, ReceiveLength, ReceiveModel,
        ReceivePrompt, RejectRequest, LoadBackend, Generate, BackendThrows,
        Respond, SendResponseFrame, NextRequest, WorkerExits,
        WorkerMpiCallFails, schedulerVars, dispVars
    <3> QED
      BY <1>2, <3>1, InvisibleStep
  <2>4. ASSUME \/ MainStep \/ ListenReturns \/ FreeingFails \/ Abort \/ UNCHANGED vars
               \/ \E t \in HttpThreads : FetchId(t)
        PROVE  [Lifecycle!Next]_(Lifecycle!vars)
    <3>1. UNCHANGED <<queue, responses, d_pc, assigned>>
      BY <2>4 DEF MainStep, JoinDispatcher, GatewayExits, ListenReturns,
        FreeingFails, Abort, FetchId, vars, schedulerVars, dispVars
    <3> QED
      BY <1>2, <3>1, InvisibleStep
  <2>5. ASSUME MpiCallFails
        PROVE  [Lifecycle!Next]_(Lifecycle!vars)
    <3>1. /\ UNCHANGED <<queue, responses, assigned>>
          /\ d_pc # "release" /\ d_pc' # "release"
      BY <2>5 DEF MpiCallFails, schedulerVars
    <3> QED
      BY <1>2, <3>1, InvisibleStep
  <2>6. ASSUME Environment
        PROVE  [Lifecycle!Next]_(Lifecycle!vars)
    BY <2>3, <2>4, <2>5, <2>6 DEF Environment
  <2> QED
    BY <1>2, <2>1, <2>2, <2>3, <2>4, <2>6 DEF Next, Stopped
<1> QED
  BY <1>1, <1>2, TypeCorrect, BusyIffAssignedInvariant, RequestsConserved,
    OneExchangeInvariant, PTL DEF Spec, ImplementsLifecycle, Lifecycle!Spec
=============================================================================
