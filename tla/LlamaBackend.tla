----------------------------- MODULE LlamaBackend -----------------------------
(***************************************************************************)
(* A worker's backend, src/core/llama_backend.cpp: the object with its     *)
(* model and context, and one call of generate after the other on it.      *)
(*                                                                         *)
(* A text is its size in bytes with the number of tokens llama.cpp makes   *)
(* of it.  A token is known by the bytes it prints as, or it ends the      *)
(* generation.  Any call into llama.cpp may fail; an exception leaves the  *)
(* scopes it passes, and the guards constructed there free what they hold. *)
(***************************************************************************)
EXTENDS Integers, SequencesExt

CONSTANTS
    Texts,          \* [bytes, tokens] of the prompts a worker may be handed
    PieceSizes,     \* bytes a token may print as
    Splits,         \* the sizes whose last bytes begin a character only
    PieceBuffer,    \* size of the first piece buffer, 256
    MaxTokens,      \* the max_tokens worker_loop always asks for, 128
    MaxLost         \* bound: models lost in one behaviour

Eog == -1

ASSUME BackendAssumption ==
    /\ \A t \in Texts : t.bytes \in Nat /\ t.tokens \in Nat
    /\ PieceSizes \subseteq Nat
    /\ Splits \subseteq PieceSizes
    /\ PieceBuffer \in Nat
    /\ MaxTokens \in Nat
    /\ MaxLost \in Nat

VARIABLES
    cfg,            \* the configuration of the worker's process
    object,         \* the worker holds a LlamaBackend
    models,         \* llama.cpp models in memory
    contexts,       \* llama.cpp contexts in memory
    memory,         \* positions the context's memory holds
    batches,        \* llama_batch objects in memory
    samplers,       \* sampler chains in memory
    b_pc,           \* where the worker stands in a call
    text,           \* the prompt it was handed
    prompt,         \* its number of tokens
    budget,         \* max_new_tokens
    next_token,     \* the token sampled last
    output,         \* the tokens generated
    printed,        \* how many of them are in the answer
    piece_buffer,   \* size of the buffer detokenize prints a token into
    answer,         \* the size of the text returned
    lost            \* bound: contexts that could not be created

resources   == <<object, models, contexts, memory, batches, samplers, lost>>
printVars   == <<printed, piece_buffer, answer>>
callVars    == <<text, prompt, budget, next_token, output, printVars>>
backendVars == <<cfg, resources, b_pc, callVars>>

NoText == [bytes |-> 0, tokens |-> 0]

BackendInit ==
    /\ object = FALSE
    /\ models = 0 /\ contexts = 0 /\ memory = 0 /\ lost = 0
    /\ batches = 0 /\ samplers = 0
    /\ b_pc = "idle"
    /\ text = NoText
    /\ prompt = 0 /\ budget = 0 /\ next_token = Eog
    /\ output = <<>>
    /\ printed = 0 /\ piece_buffer = 0 /\ answer = 0
-----------------------------------------------------------------------------
(* llama.cpp, as this file uses it. *)

\* The number of tokens, or minus that number when they do not fit.
LlamaTokenize(t, capacity) ==
    IF t.tokens <= capacity THEN t.tokens ELSE -t.tokens

LlamaTokenToPiece(token, capacity) ==
    IF token <= capacity THEN token ELSE -token

\* A decode needs a free position for each token of its batch.
Decode(n) ==
    /\ memory + n <= cfg.n_ctx
    /\ memory' = memory + n

\* A decode that fails may leave part of its batch in the memory.
DecodeFails(n) ==
    memory' \in {m \in memory .. memory + n : m <= cfg.n_ctx}
-----------------------------------------------------------------------------
(* tokenize, and what the configuration and the parameters must satisfy. *)

\* A second try with the size that was asked for.
Tokenize(t) ==
    LET count == LlamaTokenize(t, t.bytes + 8)
    IN  IF t.bytes = 0 THEN 0
        ELSE IF count >= 0 THEN count ELSE LlamaTokenize(t, -count)

ValidBackendConfig(c) ==
    c.model_path # "" /\ c.n_ctx > 0 /\ c.n_gpu_layers >= -1

\* What worker_loop asks for; the fractions in tenths.
GenParams ==
    [max_tokens |-> MaxTokens, temperature |-> 7, top_k |-> 40, top_p |-> 9,
     repeat_penalty |-> 10]

ValidGenerationParams(params) ==
    /\ params.max_tokens >= 0
    /\ params.temperature >= 0
    /\ params.top_k >= 0
    /\ 0 <= params.top_p /\ params.top_p <= 10
    /\ params.repeat_penalty > 0
-----------------------------------------------------------------------------
(* The object: get_backend_for_model, constructor, destructor. *)

\* A request with this prompt reaches the worker.
Request(t) ==
    /\ b_pc = "idle"
    /\ text' = t
    /\ b_pc' = IF object THEN "tokenize" ELSE "load"
    /\ UNCHANGED <<cfg, resources, prompt, budget, next_token, output, printVars>>

LoadModel ==
    /\ b_pc = "load"
    /\ \/ /\ ValidBackendConfig(cfg)
          /\ models' = models + 1
          /\ b_pc' = "context"
       \/ b_pc' = "failed" /\ UNCHANGED models
    /\ UNCHANGED <<cfg, object, contexts, memory, batches, samplers, lost,
                   callVars>>

\* When the context cannot be created the constructor throws, so that the
\* destructor never runs and nobody frees the model.
CreateContext ==
    /\ b_pc = "context"
    /\ \/ /\ contexts' = contexts + 1
          /\ object' = TRUE
          /\ memory' = 0
          /\ b_pc' = "tokenize"
          /\ UNCHANGED lost
       \/ /\ lost < MaxLost
          /\ lost' = lost + 1
          /\ b_pc' = "failed"
          /\ UNCHANGED <<object, contexts, memory>>
    /\ UNCHANGED <<cfg, models, batches, samplers, callVars>>

\* The worker leaves its loop: the map of backends is destroyed.
Destroy ==
    /\ b_pc = "idle"
    /\ IF object
       THEN contexts' = contexts - 1 /\ models' = models - 1
       ELSE UNCHANGED <<contexts, models>>
    /\ object' = FALSE
    /\ b_pc' = "gone"
    /\ UNCHANGED <<cfg, memory, batches, samplers, lost, callVars>>
-----------------------------------------------------------------------------
(***************************************************************************)
(* generate: tokenize, generate_tokens, detokenize.  The guards of the     *)
(* prompt batch and of the sampler live until generate_tokens returns or   *)
(* throws.                                                                 *)
(***************************************************************************)
Fail == b_pc' = "failed"

TokenizePrompt ==
    /\ b_pc = "tokenize"
    /\ \/ /\ Tokenize(text) >= 0
          /\ prompt' = Tokenize(text)
          /\ b_pc' = "check"
       \/ Fail /\ UNCHANGED prompt
    /\ UNCHANGED <<cfg, resources, text, budget, next_token, output, printVars>>

\* Mutant: what the prompt takes is not deducted.
MutMaxNewTokens == IF MaxTokens < cfg.n_ctx THEN MaxTokens ELSE cfg.n_ctx

\* min(max_tokens, what the prompt leaves of the context)
MaxNewTokens ==
    IF MaxTokens < cfg.n_ctx - prompt THEN MaxTokens ELSE cfg.n_ctx - prompt

\* Mutant: the context is cleared when it is created, and only then.
MutStartBatch == memory' = memory /\ batches' = batches + 1

\* The context is shared by all requests: its memory is cleared first.
StartBatch == memory' = 0 /\ batches' = batches + 1

\* The locals of detokenize start afresh with those of generate_tokens.
CheckPrompt ==
    /\ b_pc = "check"
    /\ IF prompt \in 1 .. cfg.n_ctx /\ ValidGenerationParams(GenParams)
       THEN /\ budget' = MaxNewTokens
            /\ output' = <<>>
            /\ IF MaxNewTokens = 0
               THEN b_pc' = "print" /\ UNCHANGED <<memory, batches>>
               ELSE b_pc' = "prompt" /\ StartBatch
       ELSE Fail /\ UNCHANGED <<budget, output, memory, batches>>
    /\ printed' = 0 /\ piece_buffer' = PieceBuffer /\ answer' = 0
    /\ UNCHANGED <<cfg, object, models, contexts, samplers, lost, text, prompt,
                   next_token>>

\* Mutant: a sampler that was never made is freed.
MutLeaveScope == batches' = batches - 1 /\ samplers' = samplers - 1

\* Leaving generate_tokens destroys its two guards.
LeaveScope == batches' = batches - 1 /\ samplers' = 0

DecodePrompt ==
    /\ b_pc = "prompt"
    /\ \/ Decode(prompt) /\ b_pc' = "chain" /\ UNCHANGED <<batches, samplers>>
       \/ DecodeFails(prompt) /\ Fail /\ LeaveScope
    /\ UNCHANGED <<cfg, object, models, contexts, lost, callVars>>

\* The chain's filters do not matter here, only that it exists.
MakeSampler ==
    /\ b_pc = "chain"
    /\ \/ samplers' = samplers + 1 /\ b_pc' = "sample" /\ UNCHANGED batches
       \/ Fail /\ LeaveScope
    /\ UNCHANGED <<cfg, object, models, contexts, memory, lost, callVars>>

Sample ==
    /\ b_pc = "sample"
    /\ next_token' \in PieceSizes \cup {Eog}
    /\ b_pc' = "accept"
    /\ UNCHANGED <<cfg, resources, text, prompt, budget, output, printVars>>

\* One iteration of the loop, up to the decode of its token.  The last
\* token is not decoded: nothing is sampled after it.
AcceptToken ==
    /\ b_pc = "accept"
    /\ output' = IF next_token = Eog THEN output ELSE Append(output, next_token)
    /\ IF next_token = Eog \/ Len(output') >= budget
       THEN b_pc' = "print" /\ LeaveScope
       ELSE b_pc' = "decode" /\ UNCHANGED <<batches, samplers>>
    /\ UNCHANGED <<cfg, object, models, contexts, memory, lost, text, prompt,
                   budget, next_token, printVars>>

\* Mutant: a decode that fails returns early, past the guards.
MutDecodeToken ==
    /\ b_pc = "decode"
    /\ \/ Decode(1) /\ b_pc' = "sample"
       \/ DecodeFails(1) /\ Fail
    /\ UNCHANGED <<cfg, object, models, contexts, batches, samplers, lost,
                   callVars>>

DecodeToken ==
    /\ b_pc = "decode"
    /\ \/ Decode(1) /\ b_pc' = "sample" /\ UNCHANGED <<batches, samplers>>
       \/ DecodeFails(1) /\ Fail /\ LeaveScope
    /\ UNCHANGED <<cfg, object, models, contexts, lost, callVars>>

\* Mutant: a piece that does not fit the buffer is left out.
MutPrintPiece(token) ==
    LET size == LlamaTokenToPiece(token, piece_buffer)
    IN  IF size >= 0
        THEN answer' = answer + size /\ UNCHANGED piece_buffer
        ELSE piece_buffer' = -size /\ UNCHANGED answer

\* A piece that does not fit is printed again into a buffer that does; the
\* buffer never shrinks.
PrintPiece(token) ==
    LET size == LlamaTokenToPiece(token, piece_buffer)
    IN  IF size >= 0
        THEN answer' = answer + size /\ UNCHANGED piece_buffer
        ELSE /\ piece_buffer' = -size
             /\ answer' = answer + LlamaTokenToPiece(token, -size)

DetokenizeToken ==
    /\ b_pc = "print"
    /\ printed < Len(output)
    /\ \/ /\ PrintPiece(output[printed + 1])
          /\ printed' = printed + 1
          /\ UNCHANGED b_pc
       \/ Fail /\ UNCHANGED printVars
    /\ UNCHANGED <<cfg, resources, text, prompt, budget, next_token, output>>

ReturnText ==
    /\ b_pc = "print"
    /\ printed = Len(output)
    /\ b_pc' = "answered"
    /\ UNCHANGED <<cfg, resources, callVars>>

Generate ==
    \/ LoadModel \/ CreateContext
    \/ TokenizePrompt \/ CheckPrompt \/ DecodePrompt \/ MakeSampler
    \/ Sample \/ AcceptToken \/ DecodeToken
    \/ DetokenizeToken \/ ReturnText
-----------------------------------------------------------------------------
\* The text ends inside a character: tokens are bytes, and the budget may
\* end it after any of them.
CutInCharacter == output # <<>> /\ Last(output) \in Splits

\* worker_loop takes the text or the error, and waits for the next request.
TakeResult ==
    /\ b_pc \in {"answered", "failed"}
    /\ b_pc' = "idle"
    /\ UNCHANGED <<cfg, resources, callVars>>

BackendNext ==
    \/ \E t \in Texts : Request(t)
    \/ Generate
    \/ TakeResult
    \/ Destroy
-----------------------------------------------------------------------------
(* What must hold between the calls and inside one. *)

\* The types of the backend's variables.
BackendTypeOK ==
    /\ object \in BOOLEAN
    /\ models \in Nat /\ contexts \in Nat /\ memory \in Nat /\ lost \in Nat
    /\ batches \in Nat /\ samplers \in Nat
    /\ prompt \in Nat /\ budget \in Nat
    /\ piece_buffer \in Nat /\ answer \in Nat
    /\ b_pc \in {"idle", "load", "context", "tokenize", "check", "prompt",
                 "chain", "sample", "accept", "decode", "print",
                 "answered", "failed", "gone"}
    /\ text \in Texts \cup {NoText}
    /\ next_token \in PieceSizes \cup {Eog}
    /\ output \in Seq(PieceSizes)
    /\ printed \in 0 .. Len(output)

\* The context's memory holds this request's prompt and the tokens generated
\* for it, and nothing of an earlier request, one that failed halfway
\* included.  (clear in generate_tokens)
NothingStale ==
    /\ b_pc \in {"sample", "accept"} => memory = prompt + Len(output)
    /\ b_pc = "decode" => memory = prompt + Len(output) - 1

\* No decode is ever refused for want of a position: the budget together
\* with the token that is not decoded keeps every call inside the context.
RoomToDecode ==
    /\ b_pc = "prompt" => memory + prompt <= cfg.n_ctx
    /\ b_pc = "decode" => memory + 1 <= cfg.n_ctx

\* Every way out of a call, by return or by exception, has freed its batch
\* and its sampler, no context outlives its object, and no model is lost but
\* by a constructor that fails halfway.  (guards and destructor)
ScopesRelease ==
    b_pc \in {"idle", "answered", "failed", "gone"} =>
        /\ batches = 0 /\ samplers = 0
        /\ contexts = IF object THEN 1 ELSE 0
        /\ models = contexts + lost

\* The bytes these tokens print as.
SizeOf(tokens) == FoldLeft(LAMBDA sum, size : sum + size, 0, tokens)

\* An answer ends where the model ended it or is as long as it may be, and
\* no piece is missing or cut, the large ones included.  (detokenize)
AnswerIsWhole ==
    b_pc = "answered" =>
        /\ next_token = Eog \/ Len(output) = MaxNewTokens
        /\ answer = SizeOf(output)
=============================================================================
