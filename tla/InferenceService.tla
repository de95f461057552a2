--------------------------- MODULE InferenceService ---------------------------
(***************************************************************************)
(* The data path from a command line and a JSON body to a status: the      *)
(* configuration is parsed, the handlers validate and queue, the worker's  *)
(* backend generates, the ResponseStore answers GET.  RequestPipeline has  *)
(* the threads, processes and messages in between; here a request that was *)
(* queued is taken in any order, by the one worker of its model.           *)
(***************************************************************************)
EXTENDS LlamaBackend, HttpApi, FiniteSets

CONSTANTS
    IntOf,          \* see AppConfig
    CommandLines,   \* the command lines the processes may be started with
    ChatBodies,     \* the JSON bodies a client may post
    LoraBodies,
    NameBytes,      \* the models the worker's group may have, with the
                    \* lengths of their names; names of one length are one
    MaxPosts        \* bound: the last id that is given

INSTANCE AppConfig

\* What from_chars reads of an argument is an integer.
ASSUME CommandLineAssumption ==
    /\ CommandLines \subseteq Seq(DOMAIN IntOf)
    /\ \A arg \in DOMAIN IntOf : IntOf[arg] \in Int \cup {Thrown}

ASSUME BodiesAssumption ==
    /\ \A body \in ChatBodies :
        /\ body.model \in JsonField(Nat)
        /\ body.prompt \in JsonField(Nat)
        /\ body.messages \in
            JsonField(Seq([role : JsonField(Nat), content : JsonField(Nat)]))
        /\ body.max_tokens \in JsonField(Int)
    /\ \A body \in LoraBodies :
        /\ body.model \in JsonField(Nat)
        /\ body.priority \in JsonField(Int)

VARIABLES
    outcome,            \* what became of the command line
    model,              \* the model of the worker's group
    next_request_id,    \* the counter of the HTTP server
    queue,              \* requests accepted, with their ids
    serving,            \* the request the worker has, as a set
    responses           \* ResponseStore

serviceVars == <<outcome, model, next_request_id, queue, serving, responses>>
vars == <<backendVars, serviceVars>>
-----------------------------------------------------------------------------
\* get_backend_for_model: two models have files of their own.
BackendConfig(parsed, name) ==
    [parsed EXCEPT !.model_path =
        CASE name = "code" -> "code_model.gguf"
          [] name = "chat" -> "chat_model.gguf"
          [] OTHER -> @]

\* A process that cannot parse its command line ends.
Init ==
    /\ \E argv \in CommandLines, name \in DOMAIN NameBytes :
        LET parsed == ParseAppConfig(argv)
        IN  /\ outcome = parsed.outcome
            /\ model = name
            /\ cfg = BackendConfig(parsed.cfg, name)
    /\ BackendInit
    /\ next_request_id = 1
    /\ queue = {}
    /\ serving = {}
    /\ responses = [id \in {} |-> "text"]

\* Bodies that are not accepted are answered with status 400 and leave no
\* trace.
Accepted ==
    ({ChatRequest(body) : body \in ChatBodies} \cup
     {LoraRequest(body) : body \in LoraBodies}) \ {Thrown}

Post ==
    /\ outcome = "accepted"
    /\ next_request_id <= MaxPosts
    /\ \E request \in Accepted :
        queue' = queue \cup {[id |-> next_request_id, req |-> request]}
    /\ next_request_id' = NextId(next_request_id)
    /\ UNCHANGED <<outcome, model, serving, responses, backendVars>>

\* The dispatcher sends a request to a worker of its model's group.  For
\* another model there is no worker here, and the request stays in the queue.
ForThisGroup(req) == req.model = NameBytes[model]

\* receive_string_from_gateway looks at the lengths of the name and the prompt.
TooLong(req) == req.model > MaxMessageBytes \/ req.bytes > MaxMessageBytes

\* Whether a prompt begins with ":load_lora": those of LoraRequest do, and a
\* client may write it into any that has room for it.
MayBeLora(req) == req.lora \/ req.bytes >= 10

\* A prompt for the backend, with any number of tokens its bytes may make.
Take ==
    /\ outcome = "accepted"
    /\ \E r \in queue :
        /\ ForThisGroup(r.req) /\ ~TooLong(r.req) /\ ~r.req.lora
        /\ \E t \in Texts : t.bytes = r.req.bytes /\ Request(t)
        /\ queue' = queue \ {r}
        /\ serving' = {r}
    /\ UNCHANGED <<outcome, model, next_request_id, responses>>

\* A prompt that begins with ":load_lora" is answered with an error.
TakeLora ==
    /\ outcome = "accepted"
    /\ b_pc = "idle"
    /\ \E r \in queue :
        /\ ForThisGroup(r.req) /\ ~TooLong(r.req) /\ MayBeLora(r.req)
        /\ queue' = queue \ {r}
        /\ responses' = Put(responses, r.id, "error")
    /\ UNCHANGED <<outcome, model, next_request_id, serving, backendVars>>

\* What is too long throws where nobody turns it into an answer: the worker's
\* backends are destroyed, and its process aborts all.
TakeOversized ==
    /\ outcome = "accepted"
    /\ Destroy
    /\ \E r \in queue :
        /\ ForThisGroup(r.req) /\ TooLong(r.req)
        /\ queue' = queue \ {r}
        /\ serving' = {r}
    /\ UNCHANGED <<outcome, model, next_request_id, responses>>

Step == Generate /\ UNCHANGED serviceVars

\* What the worker sends back.
Result ==
    IF b_pc = "failed" THEN "error"
    ELSE IF CutInCharacter THEN "broken" ELSE "text"


\* The text, or what the backend threw, becomes the response.
Store ==
    /\ \E r \in serving : responses' = Put(responses, r.id, Result)
    /\ TakeResult
    /\ serving' = {}
    /\ UNCHANGED <<outcome, model, next_request_id, queue>>

\* The worker leaves its loop; what is queued is dropped.
Stop == outcome = "accepted" /\ Destroy /\ UNCHANGED serviceVars

Serve == Take \/ TakeLora \/ TakeOversized \/ Step \/ Store

Next == Post \/ Serve \/ Stop

\* The worker's process runs; clients and shutdown may do nothing.
Spec == Init /\ [][Next]_vars /\ WF_vars(Serve)
-----------------------------------------------------------------------------
(* Properties, besides those of LlamaBackend. *)

\* What the scheduler reckons with is in range, whatever a JSON integer was
\* cut to, as RequestPipeline assumes; and no prompt of a chat, however it is
\* made up of messages, takes a worker down: the handlers' limit is within
\* the worker's.  A request that does has a model's or an adapter's name over
\* it, of which the handlers have no limit.
\* (the handlers' checks against receive_string_from_gateway)
AcceptedAreServable ==
    /\ \A r \in queue \cup serving :
        r.req.est_tokens \in 1 .. MaximumMaxTokens /\ r.req.priority \in Nat
    /\ b_pc = "gone" => \A r \in serving :
        r.req.lora \/ r.req.model > MaxMessageBytes

\* Where the processes start, no worker's constructor refuses their
\* configuration, whichever file the model's name stands for.
\* (validate_config against validate_backend_config)
ConfigIsUsable == outcome = "accepted" => ValidBackendConfig(cfg)

\* An answer that was stored stays as it is: no later request is given its
\* id, and none is answered twice, whichever way it ends.
\* (ResponseStore::put, which would replace it)
AnswersStay ==
    [][\A id \in DOMAIN responses :
        id \in DOMAIN responses' /\ responses'[id] = responses[id]]_vars


\* What was generated can be retrieved.  (GET /v1/request/{id}; what ends
\* inside a character cannot)
AnswersCanBeRead ==
    \A id \in DOMAIN responses : GetStatus(responses, id) = 200

\* A chat that is accepted asked for a number of tokens that "must be in
\* [1, 8192]", or for none.  (validate_sampling_params, which is handed what
\* json::get<int>() made of it)
AcceptedAsPosted ==
    \A r \in queue : ~r.req.lora =>
        r.req.asked \in {Absent} \cup 1 .. MaximumMaxTokens
=============================================================================
