-------------------------- MODULE MCRequestPipeline --------------------------
(* Instances of RequestPipeline for TLC. *)
EXTENDS RequestPipeline, TLC

CONSTANTS t1, t2

\* "chat" on rank 1, "code" on rank 2, "draft" nowhere.
MCModels == {"chat", "code", "draft"}

MCGroup ==
    [m \in MCModels |->
        CASE m = "chat" -> {1} [] m = "code" -> {2} [] OTHER -> {}]

\* "chat" on both workers, the others nowhere: the workers are a group, and a
\* failed one may wait for the other.
MCPairGroup == [m \in MCModels |-> IF m = "chat" THEN {1, 2} ELSE {}]

Chat(model, prompt, max_tokens) ==
    [model_id |-> model, prompt |-> prompt, priority |-> 1,
     est_tokens |-> max_tokens]

Lora(model, adapter) ==
    [model_id |-> model, prompt |-> adapter, priority |-> 10, est_tokens |-> 1]

MCLoraPrompts == {":load_lora a", ":load_lora huge"}
MCOversized   == {":load_lora huge"}

\* A short and a long job on rank 1's model, jobs rank 1 cannot do, and an
\* adapter name beyond the worker's limit.
MCSubmissions ==
    {Chat("chat", "hi", 8), Chat("chat", "tell", 2), Chat("code", "fix", 8),
     Chat("draft", "hi", 8), Lora("chat", ":load_lora a"),
     Lora("chat", ":load_lora huge")}

\* They differ in priority, in length and in the group that can serve them.
MCFewSubmissions ==
    {Chat("chat", "hi", 8), Chat("code", "fix", 2), Lora("chat", ":load_lora a")}

\* One is served, one makes the worker fail.
MCLiveSubmissions == {Chat("chat", "hi", 8), Lora("chat", ":load_lora huge")}

MCSymmetry == Permutations({t1, t2})
=============================================================================
