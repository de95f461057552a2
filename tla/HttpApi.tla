------------------------------- MODULE HttpApi -------------------------------
(***************************************************************************)
(* What the HTTP handlers accept, src/core/api_http.cpp.  A JSON body is a *)
(* record with one entry for each field the handler looks at.  A field is  *)
(* Absent, of the WrongType, or holds a value: an integer, a number in     *)
(* tenths, or for a string its length in bytes.                            *)
(***************************************************************************)
EXTENDS Integers, SequencesExt

CONSTANTS
    Absent, WrongType,  \* a field that is not there, or not what it must be
    Thrown,             \* an exception: the answer is status 400
    MaxInt,             \* the largest int; a JSON integer may be larger
    MaxPromptBytes,     \* kMaxPromptBytes, 1 MiB
    MaxMessageBytes,    \* kMaximumMessageBytes of worker.cpp, 16 MiB
    DefaultMaxTokens,   \* kDefaultMaxTokens, 128
    MaximumMaxTokens    \* kMaximumMaxTokens, 8192

ASSUME LimitsAssumption ==
    /\ MaxInt \in Nat
    /\ MaxPromptBytes \in Nat
    /\ MaxMessageBytes \in Nat /\ MaxPromptBytes <= MaxMessageBytes
    /\ MaximumMaxTokens \in Nat
    /\ DefaultMaxTokens \in 1 .. MaximumMaxTokens

\* What a field of a body may be.
JsonField(values) == {Absent, WrongType} \cup values

\* json::get<int>() converts, it does not check.
AsInt(integer) == ((integer + MaxInt + 1) % (2 * MaxInt + 2)) - MaxInt - 1

\* fetch_add on the request counter.
NextId(id) == IF id = MaxInt THEN -MaxInt - 1 ELSE id + 1

RequireNonEmptyString(field, fallback) ==
    IF field = Absent THEN fallback
    ELSE IF field \in {WrongType, 0} THEN Thrown ELSE field

OptionalInt(field, default) ==
    IF field = Absent THEN default
    ELSE IF field = WrongType THEN Thrown ELSE AsInt(field)

OptionalFloat(field, default) ==
    IF field = Absent THEN default
    ELSE IF field = WrongType THEN Thrown ELSE field

\* "role: content\n" is appended unless the prompt would get too long.
AddMessage(size, message) ==
    LET role    == RequireNonEmptyString(message.role, 4)
        content == RequireNonEmptyString(message.content, Thrown)
    IN  IF Thrown \in {size, role, content} THEN Thrown
        ELSE IF size + role + content + 3 > MaxPromptBytes THEN Thrown
        ELSE size + role + content + 3

BuildPromptFromMessages(messages) ==
    IF messages \in {WrongType, <<>>} THEN Thrown
    ELSE FoldLeft(AddMessage, 0, messages)

\* The messages, if there are any, hide the prompt.
ParsePrompt(body) ==
    IF body.messages = Absent
    THEN RequireNonEmptyString(body.prompt, Thrown)
    ELSE BuildPromptFromMessages(body.messages)

\* Mutant: only messages are measured, as they are joined.
MutPromptFits(prompt) == TRUE

PromptFits(prompt) == prompt <= MaxPromptBytes

ValidSamplingParams(max_tokens, temperature, top_p) ==
    /\ 0 < max_tokens /\ max_tokens <= MaximumMaxTokens
    /\ 0 <= temperature /\ temperature <= 50
    /\ 0 < top_p /\ top_p <= 10

\* POST /v1/chat/completions.  The sampling parameters are checked and then
\* dropped; max_tokens stays as the length the scheduler reckons with.  A
\* name and a prompt are their lengths; asked records what the client wrote.
ChatRequest(body) ==
    LET model       == RequireNonEmptyString(body.model, 7)
        prompt      == ParsePrompt(body)
        max_tokens  == OptionalInt(body.max_tokens, DefaultMaxTokens)
        temperature == OptionalFloat(body.temperature, 7)
        top_p       == OptionalFloat(body.top_p, 9)
    IN  IF \/ Thrown \in {model, prompt, max_tokens, temperature, top_p}
           \/ ~PromptFits(prompt)
           \/ ~ValidSamplingParams(max_tokens, temperature, top_p)
        THEN Thrown
        ELSE [lora |-> FALSE, model |-> model, bytes |-> prompt,
              priority |-> 1, est_tokens |-> max_tokens,
              asked |-> body.max_tokens]

\* POST /admin/lora/load.  The adapter's name may be of any length.
LoraRequest(body) ==
    LET model    == RequireNonEmptyString(body.model, 7)
        adapter  == RequireNonEmptyString(body.adapter, 7)
        priority == OptionalInt(body.priority, 10)
    IN  IF Thrown \in {model, adapter, priority} \/ priority < 0
        THEN Thrown
        ELSE [lora |-> TRUE, model |-> model, bytes |-> 11 + adapter,
              priority |-> priority, est_tokens |-> 1,
              asked |-> body.priority]

\* The digits in a path may exceed an int.
ParseRequestId(digits) == IF digits > MaxInt THEN Thrown ELSE digits

\* Mutant: a new answer takes the place of all others.
MutPut(responses, id, response) == [i \in {id} |-> response]

\* ResponseStore::put replaces, ResponseStore::get finds or does not.
Put(responses, id, response) ==
    [i \in DOMAIN responses \cup {id} |->
        IF i = id THEN response ELSE responses[i]]

\* json::dump, with the default error handler, throws unless its strings are
\* UTF-8.  The handler's catch turns that into an error of the client's.
Dump(response) == IF response = "broken" THEN Thrown ELSE response

\* GET /v1/request/{digits}
GetStatus(responses, digits) ==
    LET id == ParseRequestId(digits)
    IN  IF id = Thrown THEN 400
        ELSE IF id \notin DOMAIN responses THEN 404
        ELSE IF Dump(responses[id]) = Thrown THEN 400 ELSE 200
=============================================================================
