--------------------------- MODULE RequestPipeline ---------------------------
(***************************************************************************)
(* A request's way through the running system: HTTP handlers of the        *)
(* gateway (src/core/api_http.cpp), its dispatcher and main threads        *)
(* (src/core/main.cpp), the MPI channels to and from each worker, the      *)
(* worker loops (src/core/worker.cpp) and the ResponseStore.               *)
(*                                                                         *)
(* Threads and processes interleave at every lock, atomic and MPI call.    *)
(* An MPI message is a frame with a tag; a channel keeps its frames in the *)
(* order they were sent and a receive takes the first one with its tag.    *)
(* An MPI library may let MPI_Send return at once, or only when the frame  *)
(* was received: the variable buffered, which never changes.  And freeing  *)
(* a group's communicator may wait for the members of the group, or not:   *)
(* the variable synchronizing, which never changes either.                 *)
(***************************************************************************)
EXTENDS Scheduler, FiniteSets, Sequences, SequencesExt

CONSTANTS
    HttpThreads,        \* the HTTP server's handler threads
    Models,             \* model names a client may send
    Group,              \* [Models -> SUBSET Workers], {}: not in the topology
    Submissions,        \* what a client may post, see SubmissionsAssumption
    LoraPrompts,        \* the prompts that begin with ":load_lora"
    Oversized,          \* strings longer than the worker accepts, 16 MiB
    MaxInt,             \* the largest int: request ids wrap after it
    MaxSubmissions,     \* bound: requests posted in one behaviour
    Buffering,          \* kinds of MPI library: {TRUE, FALSE} or fewer
    Synchronizing,      \* kinds of library, as to freeing a communicator
    MpiErrors           \* an MPI call may fail

Prompts == {s.prompt : s \in Submissions}

ASSUME GroupAssumption ==
    /\ Group \in [Models -> SUBSET Workers]
    /\ \A m, n \in Models : m # n => Group[m] \cap Group[n] = {}

ASSUME SubmissionsAssumption ==
    \A s \in Submissions :
        /\ s.model_id \in Models
        /\ s.priority \in Nat
        /\ s.est_tokens \in 1 .. 8192

ASSUME BoundsAssumption ==
    /\ MaxInt \in Nat \ {0}
    /\ MaxSubmissions \in Nat
    /\ Buffering \in SUBSET BOOLEAN
    /\ Synchronizing \in SUBSET BOOLEAN
    /\ MpiErrors \in BOOLEAN

Ids == -MaxInt - 1 .. MaxInt

Numbered(s, id) ==
    [id |-> id, model_id |-> s.model_id, prompt |-> s.prompt,
     priority |-> s.priority, est_tokens |-> s.est_tokens]

Request == {Numbered(s, id) : s \in Submissions, id \in Ids}

\* The texts a worker sends back: generated, an error, or the empty string.
Results ==
    {<<>>} \cup ({"text", "error"} \X Models \X Prompts)

Assignment == [req : Request, rank : Workers]

VARIABLES
    next_request_id,    \* the atomic counter of main
    http_pc,            \* where each handler thread stands
    http_req,           \* the request it builds, as a set of at most one
    shutdown,           \* the atomic flag of main
    main_pc,            \* "listening", "joining", "finalize", "exited"
    d_pc,               \* where the dispatcher stands
    assigned,           \* its AssignedRequest, as a set of at most one
    outbox,             \* the frames it still has to send
    resp,               \* the response it is receiving
    to_worker,          \* frames under way to each worker
    from_worker,        \* frames under way from each worker
    buffered,           \* MPI_Send returns before the frame is received
    synchronizing,      \* freeing a communicator waits for its members
    w_pc,               \* where each worker stands
    w_req,              \* what it has received of its request
    w_out,              \* the response frames it still has to send
    backends,           \* the models whose backend it has loaded
    responses,          \* ResponseStore: a function on the answered ids
    aborted,            \* MPI_Abort has ended every process
    issued              \* history: the requests that were given an id

httpVars   == <<next_request_id, http_pc, http_req, issued>>
mainVars   == <<shutdown, main_pc>>
dispVars   == <<d_pc, assigned, outbox, resp>>
workerVars == <<w_pc, w_req, w_out, backends>>
netVars    == <<to_worker, from_worker>>

vars == <<schedulerVars, httpVars, mainVars, dispVars, workerVars, netVars,
          buffered, synchronizing, responses, aborted>>
-----------------------------------------------------------------------------
NoResponse == [id |-> 0, result |-> <<>>]
NoWork     == [id |-> 0, model_id |-> "", prompt |-> ""]

Init ==
    /\ SchedulerInit
    /\ next_request_id = 1
    /\ http_pc = [t \in HttpThreads |-> "idle"]
    /\ http_req = [t \in HttpThreads |-> {}]
    /\ shutdown = FALSE
    /\ main_pc = "listening"
    /\ d_pc = "check"
    /\ assigned = {}
    /\ outbox = <<>>
    /\ resp = NoResponse
    /\ to_worker = [w \in Workers |-> <<>>]
    /\ from_worker = [w \in Workers |-> <<>>]
    /\ buffered \in Buffering
    /\ synchronizing \in Synchronizing
    /\ w_pc = [w \in Workers |-> "request_id"]
    /\ w_req = [w \in Workers |-> NoWork]
    /\ w_out = [w \in Workers |-> <<>>]
    /\ backends = [w \in Workers |-> {}]
    /\ responses = [id \in {} |-> <<>>]
    /\ aborted = FALSE
    /\ issued = {}
-----------------------------------------------------------------------------
(***************************************************************************)
(* HTTP handlers: POST /v1/chat/completions and POST /admin/lora/load      *)
(* after validation.  The id is fetched before the request is enqueued, so *)
(* requests enter the queue in any order of their ids.                     *)
(***************************************************************************)
\* Mutant: the counter is wider than the id.
MutSuccessor(id) == id + 1

\* fetch_add wraps at the width of int.
Successor(id) == IF id = MaxInt THEN -MaxInt - 1 ELSE id + 1

\* Mutant: a plain counter, the increment is lost.
MutFetchId(t) ==
    /\ main_pc = "listening"
    /\ http_pc[t] = "idle"
    /\ Cardinality(issued) < MaxSubmissions
    /\ \E s \in Submissions :
        LET request == Numbered(s, next_request_id)
        IN  /\ http_req' = [http_req EXCEPT ![t] = {request}]
            /\ issued' = issued \cup {request}
    /\ next_request_id' \in {next_request_id, Successor(next_request_id)}
    /\ http_pc' = [http_pc EXCEPT ![t] = "enqueue"]
    /\ UNCHANGED <<schedulerVars, mainVars, dispVars, workerVars, netVars,
                   responses>>

FetchId(t) ==
    /\ main_pc = "listening"
    /\ http_pc[t] = "idle"
    /\ Cardinality(issued) < MaxSubmissions
    /\ \E s \in Submissions :
        LET request == Numbered(s, next_request_id)
        IN  /\ http_req' = [http_req EXCEPT ![t] = {request}]
            /\ issued' = issued \cup {request}
    /\ next_request_id' = Successor(next_request_id)
    /\ http_pc' = [http_pc EXCEPT ![t] = "enqueue"]
    /\ UNCHANGED <<schedulerVars, mainVars, dispVars, workerVars, netVars,
                   responses>>

EnqueueRequest(t) ==
    /\ http_pc[t] = "enqueue"
    /\ \E request \in http_req[t] : Enqueue(request)
    /\ http_pc' = [http_pc EXCEPT ![t] = "reply"]
    /\ http_req' = [http_req EXCEPT ![t] = {}]
    /\ UNCHANGED <<next_request_id, issued, mainVars, dispVars, workerVars,
                   netVars, responses>>

\* 202 with the request id goes to the client.
Reply(t) ==
    /\ http_pc[t] = "reply"
    /\ http_pc' = [http_pc EXCEPT ![t] = "idle"]
    /\ UNCHANGED <<schedulerVars, next_request_id, http_req, issued, mainVars,
                   dispVars, workerVars, netVars, responses>>
-----------------------------------------------------------------------------
(***************************************************************************)
(* MPI messages.  A length frame carries the size class of the string it   *)
(* announces; no data frame follows the length 0.                          *)
(***************************************************************************)
Size(string) == IF string \in Oversized THEN "oversized" ELSE "fits"

\* Mutant: both lengths are sent before the strings.
MutRequestFrames(r, rank) ==
    <<[to |-> rank, tag |-> "request_id",    val |-> r.id],
      [to |-> rank, tag |-> "model_length",  val |-> Size(r.model_id)],
      [to |-> rank, tag |-> "prompt_length", val |-> Size(r.prompt)],
      [to |-> rank, tag |-> "model_data",    val |-> r.model_id],
      [to |-> rank, tag |-> "prompt_data",   val |-> r.prompt]>>

RequestFrames(r, rank) ==
    <<[to |-> rank, tag |-> "request_id",    val |-> r.id],
      [to |-> rank, tag |-> "model_length",  val |-> Size(r.model_id)],
      [to |-> rank, tag |-> "model_data",    val |-> r.model_id],
      [to |-> rank, tag |-> "prompt_length", val |-> Size(r.prompt)],
      [to |-> rank, tag |-> "prompt_data",   val |-> r.prompt]>>

ShutdownFrames ==
    [rank \in Workers |-> [to |-> rank, tag |-> "request_id", val |-> -1]]

\* Mutant: a data frame follows the length 0 too.
MutResponseFrames(id, result) ==
    <<[tag |-> "response_id", val |-> id],
      [tag |-> "response_length",
       val |-> IF result = <<>> THEN "zero" ELSE "fits"],
      [tag |-> "response_data", val |-> result]>>

ResponseFrames(id, result) ==
    <<[tag |-> "response_id", val |-> id]>> \o
    IF result = <<>>
    THEN <<[tag |-> "response_length", val |-> "zero"]>>
    ELSE <<[tag |-> "response_length", val |-> "fits"],
           [tag |-> "response_data",   val |-> result]>>

\* The position a receive with this tag matches.
IsFirst(channel, i, tag) ==
    /\ i \in DOMAIN channel
    /\ channel[i].tag = tag
    /\ \A j \in 1 .. i - 1 : channel[j].tag # tag

\* MPI_Send of everything sent so far has returned.
SendsReturned(channels) ==
    buffered \/ \A w \in DOMAIN channels : channels[w] = <<>>
-----------------------------------------------------------------------------
(* dispatcher_loop, up to and including the MPI exchange. *)

CheckShutdown ==
    /\ d_pc = "check"
    /\ IF shutdown
       THEN d_pc' = "stop" /\ outbox' = ShutdownFrames
       ELSE d_pc' = "schedule" /\ UNCHANGED outbox
    /\ UNCHANGED <<schedulerVars, httpVars, mainVars, assigned, resp,
                   workerVars, netVars, responses>>

TryScheduleNext ==
    /\ d_pc = "schedule"
    /\ \E request \in queue, rank \in Workers :
        /\ ScheduleNext(request, rank)
        /\ assigned' = {[req |-> request, rank |-> rank]}
        /\ outbox' = RequestFrames(request, rank)
    /\ d_pc' = "send"
    /\ UNCHANGED <<httpVars, mainVars, resp, workerVars, netVars, responses>>

\* Nothing to assign: sleep 5 ms and look again.
SleepAndRetry ==
    /\ d_pc = "schedule"
    /\ ~CanSchedule
    /\ d_pc' = "check"
    /\ UNCHANGED <<schedulerVars, httpVars, mainVars, assigned, outbox, resp,
                   workerVars, netVars, responses>>

\* One MPI_Send of send_request_to_worker or send_shutdown_to_workers.
SendFrame ==
    /\ d_pc \in {"send", "stop"}
    /\ outbox # <<>>
    /\ SendsReturned(to_worker)
    /\ LET frame == Head(outbox)
       IN  to_worker' = [to_worker EXCEPT ![frame.to] = Append(@, frame)]
    /\ outbox' = Tail(outbox)
    /\ UNCHANGED <<schedulerVars, httpVars, mainVars, d_pc, assigned, resp,
                   workerVars, from_worker, responses>>

LastSendReturns ==
    /\ d_pc \in {"send", "stop"}
    /\ outbox = <<>>
    /\ SendsReturned(to_worker)
    /\ d_pc' = IF d_pc = "send" THEN "response_id" ELSE "done"
    /\ UNCHANGED <<schedulerVars, httpVars, mainVars, assigned, outbox, resp,
                   workerVars, netVars, responses>>

\* A frame with this tag and value arrives from the assigned worker.
ResponseFrame(tag, val) ==
    /\ d_pc = tag
    /\ \E a \in assigned : \E i \in DOMAIN from_worker[a.rank] :
        /\ IsFirst(from_worker[a.rank], i, tag)
        /\ val = from_worker[a.rank][i].val
        /\ from_worker' = [from_worker EXCEPT ![a.rank] = RemoveAt(@, i)]

\* The id is compared only after the whole response was received.
AfterReceive(response_id) ==
    IF \E a \in assigned : a.req.id = response_id THEN "put" ELSE "unwind"

ReceiveResponseId ==
    \E id \in Ids :
        /\ ResponseFrame("response_id", id)
        /\ resp' = [id |-> id, result |-> <<>>]
        /\ d_pc' = "response_length"
        /\ UNCHANGED <<schedulerVars, httpVars, mainVars, assigned, outbox,
                       workerVars, to_worker, responses>>

ReceiveResponseLength ==
    \E length \in {"zero", "fits"} :
        /\ ResponseFrame("response_length", length)
        /\ d_pc' = IF length = "zero"
                   THEN AfterReceive(resp.id) ELSE "response_data"
        /\ UNCHANGED <<schedulerVars, httpVars, mainVars, assigned, outbox,
                       resp, workerVars, to_worker, responses>>

ReceiveResponseData ==
    \E result \in Results :
        /\ ResponseFrame("response_data", result)
        /\ resp' = [resp EXCEPT !.result = result]
        /\ d_pc' = AfterReceive(resp.id)
        /\ UNCHANGED <<schedulerVars, httpVars, mainVars, assigned, outbox,
                       workerVars, to_worker, responses>>

PutResponse ==
    /\ d_pc = "put"
    /\ responses' = [id \in DOMAIN responses \cup {resp.id} |->
                        IF id = resp.id THEN resp.result ELSE responses[id]]
    /\ d_pc' = "release"
    /\ UNCHANGED <<schedulerVars, httpVars, mainVars, assigned, outbox, resp,
                   workerVars, netVars>>

\* The iteration ends: its locals go, the worker may be chosen again.
Release ==
    /\ d_pc = "release"
    /\ \E a \in assigned : SetWorkerBusy(a.rank, FALSE)
    /\ assigned' = {}
    /\ resp' = NoResponse
    /\ d_pc' = "check"
    /\ UNCHANGED <<httpVars, mainVars, outbox, workerVars, netVars, responses>>
-----------------------------------------------------------------------------
(***************************************************************************)
(* Failure of the dispatcher.  An MPI call that returns an error throws.   *)
(* The inner handler frees the worker, the outer one sets the flag and     *)
(* calls MPI_Abort.                                                        *)
(***************************************************************************)
MpiCallFails ==
    /\ MpiErrors
    /\ d_pc \in {"send", "response_id", "response_length", "response_data",
                 "stop"}
    /\ d_pc' = IF d_pc = "stop" THEN "fatal" ELSE "unwind"
    /\ UNCHANGED <<schedulerVars, httpVars, mainVars, assigned, outbox, resp,
                   workerVars, netVars, responses>>

\* Mutant: the inner handler only passes the exception on.
MutUnwind ==
    /\ d_pc = "unwind"
    /\ d_pc' = "fatal"
    /\ UNCHANGED <<schedulerVars, httpVars, mainVars, assigned, outbox, resp,
                   workerVars, netVars, responses>>

Unwind ==
    /\ d_pc = "unwind"
    /\ \E a \in assigned : SetWorkerBusy(a.rank, FALSE)
    /\ d_pc' = "fatal"
    /\ UNCHANGED <<httpVars, mainVars, assigned, outbox, resp, workerVars,
                   netVars, responses>>

\* Mutant: the dispatcher thread just returns.
MutFatalError ==
    /\ d_pc = "fatal"
    /\ shutdown' = TRUE
    /\ d_pc' = "done"
    /\ UNCHANGED <<schedulerVars, httpVars, main_pc, assigned, outbox, resp,
                   workerVars, netVars, responses>>

FatalError ==
    /\ d_pc = "fatal"
    /\ shutdown' = TRUE
    /\ d_pc' = "abort"
    /\ UNCHANGED <<schedulerVars, httpVars, main_pc, assigned, outbox, resp,
                   workerVars, netVars, responses>>
-----------------------------------------------------------------------------
(***************************************************************************)
(* worker_loop.  A receive waits for its own tag; between two requests all *)
(* response frames have been sent.                                         *)
(***************************************************************************)
RequestFrame(w, tag, val) ==
    /\ w_pc[w] = tag
    /\ \E i \in DOMAIN to_worker[w] :
        /\ IsFirst(to_worker[w], i, tag)
        /\ val = to_worker[w][i].val
        /\ to_worker' = [to_worker EXCEPT ![w] = RemoveAt(@, i)]

\* A negative id is the shutdown message and ends the loop.
ReceiveId(w) ==
    \E id \in Ids :
        /\ RequestFrame(w, "request_id", id)
        /\ IF id < 0
           THEN w_pc' = [w_pc EXCEPT ![w] = "finalize"] /\ UNCHANGED w_req
           ELSE /\ w_pc' = [w_pc EXCEPT ![w] = "model_length"]
                /\ w_req' = [w_req EXCEPT ![w].id = id]
        /\ UNCHANGED <<schedulerVars, httpVars, mainVars, dispVars, w_out,
                       backends, from_worker, responses>>

\* More than 16 MiB throws outside the handler that turns errors into text.
ReceiveLength(w, length_tag, data_tag) ==
    \E size \in {"fits", "oversized"} :
        /\ RequestFrame(w, length_tag, size)
        /\ w_pc' = [w_pc EXCEPT ![w] =
                        IF size = "fits" THEN data_tag ELSE "failed"]
        /\ UNCHANGED <<schedulerVars, httpVars, mainVars, dispVars, w_req,
                       w_out, backends, from_worker, responses>>

ReceiveModel(w) ==
    \E model \in Models :
        /\ RequestFrame(w, "model_data", model)
        /\ w_req' = [w_req EXCEPT ![w].model_id = model]
        /\ w_pc' = [w_pc EXCEPT ![w] = "prompt_length"]
        /\ UNCHANGED <<schedulerVars, httpVars, mainVars, dispVars, w_out,
                       backends, from_worker, responses>>

ReceivePrompt(w) ==
    \E prompt \in Prompts :
        /\ RequestFrame(w, "prompt_data", prompt)
        /\ w_req' = [w_req EXCEPT ![w].prompt = prompt]
        /\ w_pc' = [w_pc EXCEPT ![w] = "handle"]
        /\ UNCHANGED <<schedulerVars, httpVars, mainVars, dispVars, w_out,
                       backends, from_worker, responses>>

Respond(w, result) ==
    /\ w_pc' = [w_pc EXCEPT ![w] = "respond"]
    /\ w_out' = [w_out EXCEPT ![w] = ResponseFrames(w_req[w].id, result)]
    /\ UNCHANGED <<schedulerVars, httpVars, mainVars, dispVars, w_req, netVars,
                   responses>>

ErrorText(w) == <<"error", w_req[w].model_id, w_req[w].prompt>>

\* Mutant: the model is looked up, but not the rank in its group.
MutServiceable(w) ==
    Group[w_req[w].model_id] # {} /\ w_req[w].prompt \notin LoraPrompts

\* require_worker_group lets the request through, and it loads no adapter.
Serviceable(w) ==
    w \in Group[w_req[w].model_id] /\ w_req[w].prompt \notin LoraPrompts

RejectRequest(w) ==
    /\ w_pc[w] = "handle"
    /\ ~Serviceable(w)
    /\ Respond(w, ErrorText(w))
    /\ UNCHANGED backends

\* The backend of a model is constructed for its first request ...
LoadBackend(w) ==
    /\ w_pc[w] = "handle"
    /\ Serviceable(w)
    /\ w_req[w].model_id \notin backends[w]
    /\ backends' = [backends EXCEPT ![w] = @ \cup {w_req[w].model_id}]
    /\ UNCHANGED <<schedulerVars, httpVars, mainVars, dispVars, w_pc, w_req,
                   w_out, netVars, responses>>

\* ... and generates text, which may be empty.
Generate(w) ==
    /\ w_pc[w] = "handle"
    /\ Serviceable(w)
    /\ w_req[w].model_id \in backends[w]
    /\ \E result \in {<<>>, <<"text", w_req[w].model_id, w_req[w].prompt>>} :
        Respond(w, result)
    /\ UNCHANGED backends

\* Construction or generation throws; a backend under construction is lost.
BackendThrows(w) ==
    /\ w_pc[w] = "handle"
    /\ Serviceable(w)
    /\ Respond(w, ErrorText(w))
    /\ UNCHANGED backends

\* One MPI_Send of send_response_to_gateway.
SendResponseFrame(w) ==
    /\ w_pc[w] = "respond"
    /\ w_out[w] # <<>>
    /\ SendsReturned([v \in {w} |-> from_worker[v]])
    /\ from_worker' = [from_worker EXCEPT ![w] = Append(@, Head(w_out[w]))]
    /\ w_out' = [w_out EXCEPT ![w] = Tail(@)]
    /\ UNCHANGED <<schedulerVars, httpVars, mainVars, dispVars, w_pc, w_req,
                   backends, to_worker, responses>>

NextRequest(w) ==
    /\ w_pc[w] = "respond"
    /\ w_out[w] = <<>>
    /\ SendsReturned([v \in {w} |-> from_worker[v]])
    /\ w_pc' = [w_pc EXCEPT ![w] = "request_id"]
    /\ w_req' = [w_req EXCEPT ![w] = NoWork]
    /\ UNCHANGED <<schedulerVars, httpVars, mainVars, dispVars, w_out,
                   backends, netVars, responses>>

WorkerMpiCallFails(w) ==
    /\ MpiErrors
    /\ w_pc[w] \in {"request_id", "model_length", "model_data",
                    "prompt_length", "prompt_data", "respond"}
    /\ w_pc' = [w_pc EXCEPT ![w] = "failed"]
    /\ UNCHANGED <<schedulerVars, httpVars, mainVars, dispVars, w_req, w_out,
                   backends, netVars, responses>>
-----------------------------------------------------------------------------
(* The gateway's main thread, and the end of the processes. *)

\* listen returns after the last handler has, and the flag is set.
ListenReturns ==
    /\ main_pc = "listening"
    /\ \A t \in HttpThreads : http_pc[t] = "idle"
    /\ main_pc' = "joining"
    /\ shutdown' = TRUE
    /\ UNCHANGED <<schedulerVars, httpVars, dispVars, workerVars, netVars,
                   responses>>

JoinDispatcher ==
    /\ main_pc = "joining"
    /\ d_pc = "done"
    /\ main_pc' = "finalize"
    /\ UNCHANGED <<schedulerVars, httpVars, shutdown, dispVars, workerVars,
                   netVars, responses>>

\* MPI_Finalize returns when every rank has called it.
Finalizing ==
    /\ main_pc \in {"finalize", "exited"}
    /\ \A w \in Workers : w_pc[w] \in {"finalize", "exited"}

GatewayExits ==
    /\ main_pc = "finalize"
    /\ Finalizing
    /\ main_pc' = "exited"
    /\ UNCHANGED <<schedulerVars, httpVars, shutdown, dispVars, workerVars,
                   netVars, responses>>

WorkerExits(w) ==
    /\ w_pc[w] = "finalize"
    /\ Finalizing
    /\ w_pc' = [w_pc EXCEPT ![w] = "exited"]
    /\ UNCHANGED <<schedulerVars, httpVars, mainVars, dispVars, w_req, w_out,
                   backends, netVars, responses>>

(***************************************************************************)
(* An exception of a worker's loop unwinds main's try block first: the     *)
(* destructor of the topology frees the group's communicators, which may   *)
(* wait until every member frees its own, unwinding too or at its end.     *)
(***************************************************************************)
Peers(w) == UNION {Group[m] : m \in {n \in Models : w \in Group[n]}}

FreeReturns(w) ==
    synchronizing => \A v \in Peers(w) : w_pc[v] \in {"failed", "finalize"}

\* MPI_Abort, by the dispatcher or by a worker whose exception reached main.
DispatcherAborts == d_pc = "abort"

WorkerAborts(w) == w_pc[w] = "failed" /\ FreeReturns(w)

\* A member of a group fails to free its communicator: finalize is noexcept,
\* so its process is terminated and MPI ends the others.
FreeingFails ==
    /\ ~aborted
    /\ MpiErrors
    /\ \E w \in Workers :
        w_pc[w] \in {"failed", "finalize"} /\ Peers(w) # {}
    /\ aborted' = TRUE
    /\ UNCHANGED <<schedulerVars, httpVars, mainVars, dispVars, workerVars,
                   netVars, buffered, synchronizing, responses>>

Abort ==
    /\ ~aborted
    /\ DispatcherAborts \/ \E w \in Workers : WorkerAborts(w)
    /\ aborted' = TRUE
    /\ UNCHANGED <<schedulerVars, httpVars, mainVars, dispVars, workerVars,
                   netVars, buffered, synchronizing, responses>>
-----------------------------------------------------------------------------
(* Steps of a system that MPI_Abort has not ended, by thread or process. *)

Alive == ~aborted /\ UNCHANGED <<aborted, buffered, synchronizing>>

HttpStep(t) == Alive /\ (EnqueueRequest(t) \/ Reply(t))

DispatcherStep ==
    /\ Alive
    /\ \/ CheckShutdown \/ TryScheduleNext \/ SleepAndRetry
       \/ SendFrame \/ LastSendReturns
       \/ ReceiveResponseId \/ ReceiveResponseLength \/ ReceiveResponseData
       \/ PutResponse \/ Release
       \/ Unwind \/ FatalError

WorkerStep(w) ==
    /\ Alive
    /\ \/ ReceiveId(w)
       \/ ReceiveLength(w, "model_length", "model_data") \/ ReceiveModel(w)
       \/ ReceiveLength(w, "prompt_length", "prompt_data") \/ ReceivePrompt(w)
       \/ RejectRequest(w) \/ LoadBackend(w) \/ Generate(w)
       \/ BackendThrows(w)
       \/ SendResponseFrame(w) \/ NextRequest(w) \/ WorkerExits(w)

MainStep == Alive /\ (JoinDispatcher \/ GatewayExits)

\* What clients, the network and the operating system may do.
Environment ==
    /\ Alive
    /\ \/ \E t \in HttpThreads : FetchId(t)
       \/ MpiCallFails
       \/ \E w \in Workers : WorkerMpiCallFails(w)
       \/ ListenReturns

\* Every process has ended; the system stops here.
Ended ==
    \/ aborted
    \/ main_pc = "exited" /\ \A w \in Workers : w_pc[w] = "exited"

Stopped == Ended /\ UNCHANGED vars

Next ==
    \/ \E t \in HttpThreads : HttpStep(t)
    \/ DispatcherStep
    \/ \E w \in Workers : WorkerStep(w)
    \/ MainStep
    \/ Environment
    \/ FreeingFails
    \/ Abort
    \/ Stopped

Spec == Init /\ [][Next]_vars

(***************************************************************************)
(* Each thread and each process keeps running: no step that can be taken   *)
(* is put off for ever.  Nothing makes a client post, listen return, an    *)
(* MPI call fail or a communicator refuse to be freed.                     *)
(***************************************************************************)
Fairness ==
    /\ \A t \in HttpThreads : WF_vars(HttpStep(t))
    /\ WF_vars(DispatcherStep)
    /\ \A w \in Workers : WF_vars(WorkerStep(w))
    /\ WF_vars(MainStep)
    /\ WF_vars(Abort)

FairSpec == Spec /\ Fairness
-----------------------------------------------------------------------------
DispatcherStates ==
    {"check", "schedule", "send", "response_id", "response_length",
     "response_data", "put", "release", "stop", "done",
     "unwind", "fatal", "abort"}

WorkerStates ==
    {"request_id", "model_length", "model_data", "prompt_length",
     "prompt_data", "handle", "respond", "failed", "finalize", "exited"}

RequestFrameSet ==
    [to : Workers, tag : {"request_id"}, val : Ids] \cup
    [to : Workers, tag : {"model_length", "prompt_length"},
     val : {"fits", "oversized"}] \cup
    [to : Workers, tag : {"model_data"}, val : Models] \cup
    [to : Workers, tag : {"prompt_data"}, val : Prompts]

ResponseFrameSet ==
    [tag : {"response_id"}, val : Ids] \cup
    [tag : {"response_length"}, val : {"zero", "fits"}] \cup
    [tag : {"response_data"}, val : Results]

\* Each worker has received what it is going to use.
RequestReceived ==
    \A w \in Workers :
        /\ w_pc[w] \in {"prompt_length", "prompt_data", "handle", "respond"} =>
            w_req[w].model_id \in Models
        /\ w_pc[w] \in {"handle", "respond"} => w_req[w].prompt \in Prompts

Typed ==
    /\ queue \in SUBSET Request
    /\ worker_busy \in [Ranks -> BOOLEAN]
    /\ next_request_id \in Ids
    /\ http_pc \in [HttpThreads -> {"idle", "enqueue", "reply"}]
    /\ http_req \in [HttpThreads -> SUBSET Request]
    /\ shutdown \in BOOLEAN
    /\ main_pc \in {"listening", "joining", "finalize", "exited"}
    /\ d_pc \in DispatcherStates
    /\ assigned \in SUBSET Assignment
    /\ outbox \in Seq(RequestFrameSet)
    /\ resp \in [id : Ids, result : Results]
    /\ to_worker \in [Workers -> Seq(RequestFrameSet)]
    /\ from_worker \in [Workers -> Seq(ResponseFrameSet)]
    /\ buffered \in BOOLEAN
    /\ synchronizing \in BOOLEAN
    /\ w_pc \in [Workers -> WorkerStates]
    /\ w_req \in [Workers -> [id : Ids, model_id : Models \cup {""},
                              prompt : Prompts \cup {""}]]
    /\ w_out \in [Workers -> Seq(ResponseFrameSet)]
    /\ backends \in [Workers -> SUBSET Models]
    /\ DOMAIN responses \in SUBSET Ids
    /\ responses \in [DOMAIN responses -> Results]
    /\ aborted \in BOOLEAN
    /\ issued \in SUBSET Request

TypeOK == Typed /\ RequestReceived
-----------------------------------------------------------------------------
(* Where a request can be. *)

InHandlers == UNION {http_req[t] : t \in HttpThreads}

\* Handed to the dispatcher and not yet answered.
Serving ==
    IF d_pc = "release" THEN {} ELSE {a.req : a \in assigned}

Answered == {r \in issued : r.id \in DOMAIN responses}

(***************************************************************************)
(* No request is lost or duplicated on its way: every request that has an  *)
(* id is in exactly one place, a handler, the queue, the dispatcher's      *)
(* hands, or the response store - also when handlers and dispatcher race,  *)
(* when an exchange fails, and when the gateway shuts down.                *)
(***************************************************************************)
RequestConservation ==
    /\ issued = InHandlers \cup queue \cup Serving \cup Answered
    /\ InHandlers \cap queue = {}
    /\ (InHandlers \cup queue) \cap (Serving \cup Answered) = {}
    /\ Serving \cap Answered = {}

\* The workers the dispatcher has taken and not given back.
Engaged ==
    IF d_pc \in {"fatal", "abort"} THEN {} ELSE {a.rank : a \in assigned}

(***************************************************************************)
(* The scheduler's flags agree with the dispatcher: a worker is busy from  *)
(* its assignment until the response is stored or the exchange has failed, *)
(* and at no other time.  So it is freed on every path, the failing ones   *)
(* too, and never while it works on the request of an exchange that goes   *)
(* on; the gateway itself is never free.                                   *)
(***************************************************************************)
BusyIffAssigned ==
    /\ worker_busy[0]
    /\ \A a, b \in assigned : a = b
    /\ \A w \in Workers : worker_busy[w] <=> w \in Engaged

(***************************************************************************)
(* The two sides of the protocol stay in step: whenever the dispatcher is  *)
(* about to choose a worker, no frame of an earlier exchange is under way, *)
(* and each worker is at the top of its loop, or has nothing more to send, *)
(* or has failed.  So the next request id a worker receives begins a       *)
(* request, and the next response read belongs to it.                      *)
(***************************************************************************)
ChannelsQuiet ==
    d_pc \in {"check", "schedule"} \/ main_pc = "exited" =>
        \A w \in Workers :
            /\ to_worker[w] = <<>>
            /\ from_worker[w] = <<>>
            /\ w_out[w] = <<>>
            /\ w_pc[w] \in {"request_id", "respond", "failed"}
               \/ main_pc = "exited"

(***************************************************************************)
(* A worker only ever loads models of its own group, and so at most one:   *)
(* a misplaced request costs an error text and no GPU memory.              *)
(***************************************************************************)
BackendsInGroup ==
    \A w \in Workers : \A m, n \in backends[w] : w \in Group[m] /\ m = n

\* What a client may read for a request: an error text when no worker can
\* serve it, otherwise also the generated text of its own prompt.
AnswersTo(r) ==
    LET error == <<"error", r.model_id, r.prompt>>
        text  == <<"text", r.model_id, r.prompt>>
    IN  IF Group[r.model_id] = {} \/ r.prompt \in LoraPrompts
        THEN {error}
        ELSE {error, text, <<>>}

(***************************************************************************)
(* The pipeline implements RequestLifecycle: through all the threads and   *)
(* frames, requests are served one at a time, best first, each at most     *)
(* once, and the answer stored under an id is the answer to the request    *)
(* with that id, never changed afterwards.                                 *)
(***************************************************************************)
Lifecycle == INSTANCE RequestLifecycle WITH
    Answers <- [r \in Request |-> AnswersTo(r)],
    pending <- queue,
    serving <- Serving,
    answers <- responses

ImplementsLifecycle == Lifecycle!Spec

\* A worker's exception is held up by a member of its group that is still at
\* work, and does not reach MPI_Abort.
Stranded(w) == w_pc[w] = "failed" /\ ~FreeReturns(w)

\* The system never gets over it: some worker is held up for ever.
StrandedForEver == [](\E w \in Workers : Stranded(w))

(***************************************************************************)
(* Every request that was given an id is eventually answered, unless the   *)
(* gateway is shut down or aborted, or a failed worker is held up for ever *)
(* in the destructor of its topology: a handler, the dispatcher and a      *)
(* worker never wait for each other in a circle, and polling misses no     *)
(* request.  (A negative id would be a shutdown message: this is about the *)
(* time before the counter wraps, MaxSubmissions <= MaxInt.)               *)
(***************************************************************************)
EveryRequestAnswered ==
    \A id \in 1 .. MaxInt :
        (\E r \in issued : r.id = id) ~>
            (id \in DOMAIN responses \/ shutdown \/ aborted
                \/ StrandedForEver)

(***************************************************************************)
(* Shutdown ends the system: the dispatcher leaves its loop, every worker  *)
(* gets its shutdown message, main joins, and all ranks meet in            *)
(* MPI_Finalize - or a failure has aborted them all.  Nothing but a failed *)
(* worker that its group holds up for ever prevents it.                    *)
(***************************************************************************)
ShutdownEndsSystem == shutdown ~> (Ended \/ StrandedForEver)
-----------------------------------------------------------------------------
(* What the documentation says and this code does not do. *)

(***************************************************************************)
(* README.md: concurrent requests are distributed across the workers.  So  *)
(* when as many requests wait as there are workers, each worker gets one.  *)
(***************************************************************************)
LoadIsDistributed ==
    \A w \in Workers :
        Cardinality(queue) >= Cardinality(Workers) ~>
            (worker_busy[w] \/ shutdown \/ aborted)

(***************************************************************************)
(* api_http.cpp: a request id is a non-negative integer, the only kind     *)
(* GET /v1/request/<id> takes.  So each id given to a client can be asked  *)
(* for.                                                                    *)
(***************************************************************************)
IssuedIdsCanBeAskedFor == \A r \in issued : r.id >= 0
=============================================================================
