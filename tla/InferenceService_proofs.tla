----------------------- MODULE InferenceService_proofs -----------------------
(***************************************************************************)
(* What is accepted from a command line and from a body, for every         *)
(* sequence of arguments and of messages; the backend's invariants, for    *)
(* every configuration, prompt, token and failure; and what becomes of a   *)
(* request from the id it is given to its answer.                          *)
(***************************************************************************)
EXTENDS InferenceService, FoldLemmas, SequenceTheorems

(* The command line. *)

\* A configuration on its way through the command line: a model is named and
\* the numbers are numbers.
Paths == DOMAIN IntOf \cup {"model.gguf", ""}

Configs ==
    [model_path : Paths \ {""}, n_ctx : Int, n_gpu_layers : Int, seed : Int,
     topology_path : Paths]

ParseStates ==
    [cfg : Configs, option : IntOptions \cup TextOptions \cup {""},
     outcome : {"parsing", "thrown", "exit"}]

Start == [cfg |-> DefaultConfig, option |-> "", outcome |-> "parsing"]

LEMMA ParseArgumentStays ==
    ASSUME NEW state \in ParseStates, NEW arg \in DOMAIN IntOf
    PROVE  ParseArgument(state, arg) \in ParseStates
<1>0. arg \in Paths /\ IntOf[arg] \in Int \cup {Thrown}
    BY CommandLineAssumption DEF Paths
<1>. USE DEF ParseStates
<1>1. CASE state.outcome = "parsing" /\ state.option # ""
    <2>. DEFINE value == ArgumentOf(state.option, arg)
    <2>1. ASSUME value # Thrown, NEW name \in {"n_ctx", "n_gpu_layers", "seed"},
                 state.option \in IntOptions
          PROVE  [state.cfg EXCEPT ![name] = value] \in Configs
        <3>1. value \in Int
            BY <1>0, <2>1 DEF ArgumentOf
        <3>. QED
            BY <3>1 DEF Configs
    <2>2. ASSUME value # Thrown, state.option = "--model"
          PROVE  [state.cfg EXCEPT !.model_path = value] \in Configs
        <3>1. value \in Paths \ {""}
            BY <1>0, <2>2 DEF ArgumentOf, IntOptions
        <3>. QED
            BY <3>1 DEF Configs
    <2>3. ASSUME value # Thrown, state.option = "--topology"
          PROVE  [state.cfg EXCEPT !.topology_path = value] \in Configs
        <3>1. value \in Paths
            BY <1>0, <2>3 DEF ArgumentOf, IntOptions
        <3>. QED
            BY <3>1 DEF Configs
    <2>4. ASSUME value # Thrown
          PROVE  [state.cfg EXCEPT ![Field(state.option)] = value] \in Configs
        <3>1. CASE state.option = "--model"
            BY <2>2, <2>4, <3>1 DEF Field
        <3>2. CASE state.option = "--topology"
            BY <2>3, <2>4, <3>2 DEF Field
        <3>3. CASE state.option \in IntOptions
            <4>1. Field(state.option) \in {"n_ctx", "n_gpu_layers", "seed"}
                BY <3>3 DEF Field, IntOptions
            <4>. QED
                BY <2>1, <2>4, <3>3, <4>1
        <3>. QED
            BY <1>1, <3>1, <3>2, <3>3 DEF TextOptions
    <2>. QED
        BY <1>1, <2>4 DEF ParseArgument
<1>2. CASE state.outcome # "parsing" \/ state.option = ""
    BY <1>2 DEF ParseArgument
<1>. QED
    BY <1>1, <1>2

\* parse_app_config over all arguments.
LEMMA ParsedStates ==
    ASSUME NEW argv \in Seq(DOMAIN IntOf)
    PROVE  FoldLeft(ParseArgument, Start, argv) \in ParseStates
<1>. DEFINE n == Len(argv)
            F == [p \in (1 .. n) \X ParseStates |->
                    ParseArgument(p[2], argv[p[1]])]
            Is(c) == c = [s \in SUBSET (DOMAIN argv) |->
                        IF s = {} THEN Start
                        ELSE ParseArgument(c[s \ {Max(s)}], argv[Max(s)])]
<1>1. n \in Nat /\ DOMAIN argv = 1 .. n /\ \A i \in 1 .. n : argv[i] \in DOMAIN IntOf
    OBVIOUS
<1>. HIDE DEF n
<1>2. Start \in ParseStates
    <2>1. DefaultConfig \in Configs
        BY DEF DefaultConfig, Configs, Paths
    <2>. QED
        BY <2>1 DEF Start, ParseStates
<1>3. \A i \in 1 .. n, state \in ParseStates :
        ParseArgument(state, argv[i]) \in ParseStates
    BY <1>1, ParseArgumentStays
<1>4. \A s \in SUBSET (1 .. n) : s # {} =>
        Max(s) \in 1 .. n /\ s \ {Max(s)} \in SUBSET (1 .. n)
    BY <1>1, MaxOf
<1>5. \A i \in 1 .. n, state \in ParseStates :
        F[<<i, state>>] = ParseArgument(state, argv[i])
    OBVIOUS
<1>6. F \in [(1 .. n) \X ParseStates -> ParseStates]
    BY <1>3
<1>. HIDE DEF F
<1>7. PICK it : /\ IsIteration(it, n, F, Start)
                /\ \A s \in SUBSET (1 .. n) : it[s] \in ParseStates
    BY <1>1, <1>2, <1>6, IterationIn
<1>8. \A s \in SUBSET (1 .. n) :
        it[s] = IF s = {} THEN Start ELSE F[<<Max(s), it[s \ {Max(s)}]>>]
    BY <1>7 DEF IsIteration
<1>9. Is(it)
    <2>1. it = [s \in SUBSET (1 .. n) |-> it[s]]
        BY <1>7 DEF IsIteration
    <2>2. \A s \in SUBSET (1 .. n) : 
            it[s] = IF s = {} THEN Start
                    ELSE ParseArgument(it[s \ {Max(s)}], argv[Max(s)])
        BY <1>4, <1>5, <1>7, <1>8
    <2>. QED
        BY <1>1, <2>1, <2>2
<1>. DEFINE c == CHOOSE c : Is(c)
<1>10. Is(c)
    BY <1>9
<1>11. FoldLeft(ParseArgument, Start, argv) = c[DOMAIN argv]
    BY DEF FoldLeft, MapThenFoldSet
<1>12. \A s \in SUBSET (1 .. n) : c[s] \in ParseStates
    <2>. HIDE DEF c
    <2>0. \A s \in SUBSET (1 .. n) : 
            c[s] = IF s = {} THEN Start
                    ELSE ParseArgument(c[s \ {Max(s)}], argv[Max(s)])
        BY <1>1, <1>10
    <2>. HIDE DEF Is
    <2>1. c[{}] \in ParseStates
        BY <1>2, <2>0
    <2>2. \A s \in SUBSET (1 .. n) :
            s # {} /\ c[s \ {Max(s)}] \in ParseStates => c[s] \in ParseStates
        BY <1>3, <1>4, <2>0
    <2>. QED
        BY <1>1, <2>1, <2>2, IterationStays
<1>. QED
    BY <1>1, <1>11, <1>12

\* parse_app_config leaves a configuration, and what it accepts is valid.
LEMMA ParsedConfig ==
    ASSUME NEW argv \in CommandLines
    PROVE  /\ ParseAppConfig(argv).cfg \in Configs
           /\ ParseAppConfig(argv).outcome = "accepted" =>
                ValidConfig(ParseAppConfig(argv).cfg)
<1>1. FoldLeft(ParseArgument, Start, argv) \in ParseStates
    BY ParsedStates, CommandLineAssumption
<1>2. ParseAppConfig(argv).cfg = FoldLeft(ParseArgument, Start, argv).cfg
    BY DEF ParseAppConfig, Start
<1>3. ParseAppConfig(argv).outcome = "accepted" =>
        ValidConfig(ParseAppConfig(argv).cfg)
    BY DEF ParseAppConfig
<1>. QED
    BY <1>1, <1>2, <1>3 DEF ParseStates
-----------------------------------------------------------------------------
(* The bodies. *)

Sizes == {Thrown} \cup 0 .. MaxPromptBytes

Messages == [role : JsonField(Nat), content : JsonField(Nat)]

\* A string that was not refused has a length above zero.
LEMMA NonEmptyString ==
    ASSUME NEW field \in JsonField(Nat), NEW fallback,
           RequireNonEmptyString(field, fallback) # Thrown
    PROVE  \/ RequireNonEmptyString(field, fallback) = fallback
           \/ RequireNonEmptyString(field, fallback) \in Nat \ {0}
BY DEF RequireNonEmptyString, JsonField

LEMMA AddMessageSizes ==
    ASSUME NEW size \in Sizes, NEW message \in Messages
    PROVE  AddMessage(size, message) \in {Thrown} \cup 1 .. MaxPromptBytes
<1>. DEFINE role    == RequireNonEmptyString(message.role, 4)
            content == RequireNonEmptyString(message.content, Thrown)
<1>. SUFFICES ASSUME Thrown \notin {size, role, content},
                     ~ (size + role + content + 3 > MaxPromptBytes)
              PROVE  size + role + content + 3 \in 1 .. MaxPromptBytes
    BY DEF AddMessage
<1>1. message.role \in JsonField(Nat) /\ message.content \in JsonField(Nat)
    BY DEF Messages
<1>2. role \in Nat
    BY <1>1, NonEmptyString
<1>3. content \in Nat
    BY <1>1, NonEmptyString
<1>4. size \in Nat
    BY LimitsAssumption DEF Sizes
<1>. HIDE DEF role, content
<1>5. \A a, b, d \in Nat : a + b + d + 3 >= 1 /\ a + b + d + 3 \in Int
    OBVIOUS
<1>. QED
    BY <1>2, <1>3, <1>4, <1>5, LimitsAssumption

\* A prompt made of messages is neither empty nor too long.
LEMMA PromptFromMessages ==
    ASSUME NEW messages \in JsonField(Seq(Messages)),
           BuildPromptFromMessages(messages) # Thrown
    PROVE  messages # Absent =>
            BuildPromptFromMessages(messages) \in 1 .. MaxPromptBytes
<1>. SUFFICES ASSUME messages # Absent
              PROVE  BuildPromptFromMessages(messages) \in 1 .. MaxPromptBytes
    OBVIOUS
<1>0. /\ messages \in Seq(Messages) /\ messages # <<>>
      /\ BuildPromptFromMessages(messages) = FoldLeft(AddMessage, 0, messages)
    BY DEF BuildPromptFromMessages, JsonField
<1>. DEFINE n == Len(messages)
            F == [p \in (1 .. n) \X Sizes |-> AddMessage(p[2], messages[p[1]])]
            Is(c) == c = [s \in SUBSET (DOMAIN messages) |->
                            IF s = {} THEN 0
                            ELSE AddMessage(c[s \ {Max(s)}], messages[Max(s)])]
<1>1. /\ n \in Nat \ {0} /\ DOMAIN messages = 1 .. n
      /\ \A i \in 1 .. n : messages[i] \in Messages
    <2>. HIDE DEF Messages
    <2>. QED
        BY <1>0
<1>. HIDE DEF n
<1>2. 0 \in Sizes
    BY LimitsAssumption DEF Sizes
<1>3. \A i \in 1 .. n, size \in Sizes :
        /\ AddMessage(size, messages[i]) \in Sizes
        /\ AddMessage(size, messages[i]) \in {Thrown} \cup 1 .. MaxPromptBytes
    <2>1. \A size \in {Thrown} \cup 1 .. MaxPromptBytes : size \in Sizes
        BY DEF Sizes
    <2>. QED
        BY <1>1, <2>1, AddMessageSizes
<1>4. \A s \in SUBSET (1 .. n) : s # {} =>
        Max(s) \in 1 .. n /\ s \ {Max(s)} \in SUBSET (1 .. n)
    BY <1>1, MaxOf
<1>5. \A i \in 1 .. n, size \in Sizes :
        F[<<i, size>>] = AddMessage(size, messages[i])
    OBVIOUS
<1>6. F \in [(1 .. n) \X Sizes -> Sizes]
    BY <1>3
<1>. HIDE DEF F
<1>7. PICK it : /\ IsIteration(it, n, F, 0)
                /\ \A s \in SUBSET (1 .. n) : it[s] \in Sizes
    <2>1. n \in Nat
        BY <1>1
    <2>. QED
        BY <1>2, <1>6, <2>1, IterationIn
<1>8. Is(it)
    <2>1. it = [s \in SUBSET (1 .. n) |-> it[s]]
        BY <1>7 DEF IsIteration
    <2>2. \A s \in SUBSET (1 .. n) :
            it[s] = IF s = {} THEN 0 ELSE F[<<Max(s), it[s \ {Max(s)}]>>]
        BY <1>7 DEF IsIteration
    <2>3. \A s \in SUBSET (1 .. n) :
            it[s] = IF s = {} THEN 0
                    ELSE AddMessage(it[s \ {Max(s)}], messages[Max(s)])
        BY <1>4, <1>5, <1>7, <2>2
    <2>. QED
        BY <1>1, <2>1, <2>3
<1>. DEFINE c == CHOOSE c : Is(c)
<1>9. Is(c)
    BY <1>8
<1>10. FoldLeft(AddMessage, 0, messages) = c[DOMAIN messages]
    BY DEF FoldLeft, MapThenFoldSet
<1>. HIDE DEF c
<1>11. \A s \in SUBSET (1 .. n) :
        c[s] = IF s = {} THEN 0
               ELSE AddMessage(c[s \ {Max(s)}], messages[Max(s)])
    BY <1>1, <1>9
<1>. HIDE DEF Is
<1>12. \A s \in SUBSET (1 .. n) : c[s] \in Sizes
    <2>1. c[{}] \in Sizes
        BY <1>2, <1>11
    <2>2. \A s \in SUBSET (1 .. n) :
            s # {} /\ c[s \ {Max(s)}] \in Sizes => c[s] \in Sizes
        BY <1>3, <1>4, <1>11
    <2>3. n \in Nat
        BY <1>1
    <2>. QED
        BY <2>1, <2>2, <2>3, IterationStays
<1>13. c[1 .. n] \in {Thrown} \cup 1 .. MaxPromptBytes
    <2>. DEFINE all == 1 .. n
    <2>1. all # {} /\ all \in SUBSET (1 .. n)
        BY <1>1
    <2>. HIDE DEF all
    <2>2. c[all] = AddMessage(c[all \ {Max(all)}], messages[Max(all)])
        BY <1>11, <2>1
    <2>3. Max(all) \in 1 .. n /\ c[all \ {Max(all)}] \in Sizes
        BY <1>4, <1>12, <2>1
    <2>4. c[all] \in {Thrown} \cup 1 .. MaxPromptBytes
        BY <1>3, <2>2, <2>3
    <2>. QED
        BY <2>4 DEF all
<1>. QED
    BY <1>0, <1>1, <1>10, <1>13

Servable(request) ==
    /\ request.est_tokens \in 1 .. MaximumMaxTokens
    /\ request.priority \in Nat
    /\ TooLong(request) => request.lora \/ request.model > MaxMessageBytes

LEMMA IntStays == \A field \in Int : AsInt(field) \in Int
BY LimitsAssumption DEF AsInt

LEMMA IntOrDefault ==
    ASSUME NEW field \in JsonField(Int), NEW default \in Int,
           OptionalInt(field, default) # Thrown
    PROVE  OptionalInt(field, default) \in Int
BY IntStays DEF OptionalInt, JsonField

LEMMA ChatIsServable ==
    ASSUME NEW body \in ChatBodies, ChatRequest(body) # Thrown
    PROVE  Servable(ChatRequest(body))
<1>. DEFINE prompt_      == ParsePrompt(body)
            max_tokens  == OptionalInt(body.max_tokens, DefaultMaxTokens)
<1>0. /\ body.prompt \in JsonField(Nat)
      /\ body.messages \in JsonField(Seq(Messages))
      /\ body.max_tokens \in JsonField(Int)
    BY BodiesAssumption DEF Messages
<1>1. /\ Thrown \notin {prompt_, max_tokens}
      /\ prompt_ <= MaxPromptBytes
      /\ 0 < max_tokens /\ max_tokens <= MaximumMaxTokens
      /\ ChatRequest(body).bytes = prompt_
      /\ ChatRequest(body).priority = 1
      /\ ChatRequest(body).est_tokens = max_tokens
    BY DEF ChatRequest, ValidSamplingParams, PromptFits
<1>2. max_tokens \in Int
    BY <1>0, <1>1, IntOrDefault, LimitsAssumption
<1>3. prompt_ \in 1 .. MaxPromptBytes
    <2>1. CASE body.messages = Absent
        <3>1. prompt_ = RequireNonEmptyString(body.prompt, Thrown)
            BY <2>1 DEF ParsePrompt
        <3>2. prompt_ \in Nat \ {0}
            BY <1>0, <1>1, <3>1, NonEmptyString
        <3>. HIDE DEF prompt_
        <3>. QED
            BY <1>1, <3>2, LimitsAssumption
    <2>2. CASE body.messages # Absent
        BY <1>0, <1>1, <2>2, PromptFromMessages DEF ParsePrompt
    <2>. QED
        BY <2>1, <2>2
<1>. HIDE DEF prompt_, max_tokens
<1>. QED
    BY <1>1, <1>2, <1>3, LimitsAssumption DEF Servable, TooLong

LEMMA LoraIsServable ==
    ASSUME NEW body \in LoraBodies, LoraRequest(body) # Thrown
    PROVE  Servable(LoraRequest(body))
<1>. DEFINE adapter  == RequireNonEmptyString(body.adapter, 7)
            priority == OptionalInt(body.priority, 10)
<1>1. /\ priority # Thrown /\ ~ (priority < 0)
      /\ LoraRequest(body).lora /\ LoraRequest(body).est_tokens = 1
      /\ LoraRequest(body).priority = priority
    BY DEF LoraRequest
<1>2. priority \in Int
    BY <1>1, IntOrDefault, BodiesAssumption
<1>. HIDE DEF adapter, priority
<1>. QED
    BY <1>1, <1>2, LimitsAssumption DEF Servable

LEMMA AcceptedIsServable == \A request \in Accepted : Servable(request)
BY ChatIsServable, LoraIsServable DEF Accepted
-----------------------------------------------------------------------------
(* The size of a text. *)

IsSum(c, tokens) ==
    c = [s \in SUBSET (DOMAIN tokens) |->
            IF s = {} THEN 0 ELSE c[s \ {Max(s)}] + tokens[Max(s)]]

\* The sum of a sequence is that of an iteration.
LEMMA SumsExist ==
    ASSUME NEW tokens \in Seq(Nat)
    PROVE  \E c : /\ IsSum(c, tokens)
                  /\ \A s \in SUBSET (DOMAIN tokens) : c[s] \in Nat
                  /\ SizeOf(tokens) = c[DOMAIN tokens]
<1>. DEFINE n == Len(tokens)
            F == [p \in (1 .. n) \X Nat |-> p[2] + tokens[p[1]]]
<1>1. n \in Nat /\ DOMAIN tokens = 1 .. n /\ \A i \in 1 .. n : tokens[i] \in Nat
    OBVIOUS
<1>. HIDE DEF n
<1>2. F \in [(1 .. n) \X Nat -> Nat]
    BY <1>1
<1>3. \A i \in 1 .. n, m \in Nat : F[<<i, m>>] = m + tokens[i]
    OBVIOUS
<1>. HIDE DEF F
<1>4. PICK it : /\ IsIteration(it, n, F, 0)
                /\ \A s \in SUBSET (1 .. n) : it[s] \in Nat
    BY <1>1, <1>2, IterationIn
<1>5. \A s \in SUBSET (1 .. n) : s # {} =>
        Max(s) \in 1 .. n /\ s \ {Max(s)} \in SUBSET (1 .. n)
    BY <1>1, MaxOf
<1>6. \A s \in SUBSET (1 .. n) :
        it[s] = IF s = {} THEN 0 ELSE it[s \ {Max(s)}] + tokens[Max(s)]
    BY <1>3, <1>4, <1>5 DEF IsIteration
<1>7. it = [s \in SUBSET (1 .. n) |-> it[s]]
    BY <1>4 DEF IsIteration
<1>8. IsSum(it, tokens)
    BY <1>1, <1>6, <1>7 DEF IsSum
<1>. DEFINE c == CHOOSE c : IsSum(c, tokens)
<1>9. IsSum(c, tokens)
    BY <1>8
<1>10. SizeOf(tokens) = c[DOMAIN tokens]
    BY DEF SizeOf, FoldLeft, MapThenFoldSet, IsSum
<1>. HIDE DEF c
<1>11. \A s \in SUBSET (1 .. n) :
        c[s] = IF s = {} THEN 0 ELSE c[s \ {Max(s)}] + tokens[Max(s)]
    BY <1>1, <1>9 DEF IsSum
<1>12. \A s \in SUBSET (1 .. n) : c[s] \in Nat
    <2>0. c[{}] = 0
        BY <1>11
    <2>1. c[{}] \in Nat
        BY <2>0
    <2>2. \A s \in SUBSET (1 .. n) :
            s # {} /\ c[s \ {Max(s)}] \in Nat => c[s] \in Nat
        <3>. SUFFICES ASSUME NEW s \in SUBSET (1 .. n), s # {},
                             c[s \ {Max(s)}] \in Nat
                      PROVE  c[s] \in Nat
            OBVIOUS
        <3>1. c[s] = c[s \ {Max(s)}] + tokens[Max(s)]
            BY <1>11
        <3>2. tokens[Max(s)] \in Nat
            BY <1>1, <1>5
        <3>. QED
            BY <3>1, <3>2
    <2>. QED
        BY <1>1, <2>1, <2>2, IterationStays
<1>. QED
    BY <1>1, <1>9, <1>10, <1>12

LEMMA SizeOfNone == SizeOf(<<>>) = 0
<1>1. <<>> \in Seq(Nat) /\ DOMAIN <<>> = {}
    OBVIOUS
<1>2. PICK c : IsSum(c, <<>>) /\ SizeOf(<<>>) = c[DOMAIN <<>>]
    BY <1>1, SumsExist
<1>. QED
    BY <1>1, <1>2 DEF IsSum

\* One token more.
LEMMA SizeOfAppend ==
    ASSUME NEW tokens \in Seq(Nat), NEW token \in Nat
    PROVE  SizeOf(Append(tokens, token)) = SizeOf(tokens) + token
<1>. DEFINE more == Append(tokens, token)
            n == Len(tokens)
<1>1. /\ n \in Nat /\ n + 1 \in Nat \ {0}
      /\ more \in Seq(Nat) /\ DOMAIN more = 1 .. (n + 1)
      /\ DOMAIN tokens = 1 .. n
      /\ \A i \in 1 .. n : more[i] = tokens[i]
      /\ more[n + 1] = token
    OBVIOUS
<1>. HIDE DEF more, n
<1>2. PICK c : /\ IsSum(c, more)
               /\ SizeOf(more) = c[DOMAIN more]
    BY <1>1, SumsExist
<1>3. PICK d : /\ IsSum(d, tokens)
               /\ SizeOf(tokens) = d[DOMAIN tokens]
    BY SumsExist
<1>4. \A s \in SUBSET (1 .. n) : s \in SUBSET (1 .. (n + 1))
    BY <1>1
<1>5. \A s \in SUBSET (1 .. n) : s # {} => Max(s) \in 1 .. n
    BY <1>1, MaxOf
<1>6. \A s \in SUBSET (1 .. (n + 1)) :
        c[s] = IF s = {} THEN 0 ELSE c[s \ {Max(s)}] + more[Max(s)]
    BY <1>1, <1>2 DEF IsSum
<1>7. \A s \in SUBSET (1 .. n) :
        d[s] = IF s = {} THEN 0 ELSE d[s \ {Max(s)}] + tokens[Max(s)]
    BY <1>1, <1>3 DEF IsSum
<1>8. \A s \in SUBSET (1 .. n) : c[s] = d[s]
    <2>. DEFINE same == [s \in SUBSET (1 .. n) |-> IF c[s] = d[s] THEN 0 ELSE 1]
    <2>1. \A s \in SUBSET (1 .. n) : same[s] \in {0} <=> c[s] = d[s]
        OBVIOUS
    <2>2. \A s \in SUBSET (1 .. n) : s \ {Max(s)} \in SUBSET (1 .. n)
        OBVIOUS
    <2>. HIDE DEF same
    <2>3. same[{}] \in {0}
        BY <1>6, <1>7, <2>1
    <2>4. \A s \in SUBSET (1 .. n) :
            s # {} /\ c[s \ {Max(s)}] = d[s \ {Max(s)}] => c[s] = d[s]
        BY <1>1, <1>4, <1>5, <1>6, <1>7
    <2>5. \A s \in SUBSET (1 .. n) :
            s # {} /\ same[s \ {Max(s)}] \in {0} => same[s] \in {0}
        BY <2>1, <2>2, <2>4
    <2>6. \A s \in SUBSET (1 .. n) : same[s] \in {0}
        BY <1>1, <2>3, <2>5, IterationStays
    <2>. QED
        BY <2>1, <2>6
<1>9. Max(1 .. (n + 1)) = n + 1 /\ (1 .. (n + 1)) \ {n + 1} = 1 .. n
    <2>1. \A m \in Nat \ {0} : Max(1 .. m) = m /\ (1 .. m) \ {m} = 1 .. m - 1
        BY MaxOfInterval
    <2>2. n + 1 - 1 = n
        BY <1>1
    <2>. QED
        BY <1>1, <2>1, <2>2
<1>10. c[1 .. (n + 1)] = c[1 .. n] + token
    <2>1. 1 \in 1 .. (n + 1) /\ 1 .. (n + 1) \in SUBSET (1 .. (n + 1))
        BY <1>1
    <2>. QED
        BY <1>1, <1>6, <1>9, <2>1
<1>11. c[1 .. n] = d[1 .. n]
    BY <1>8
<1>. QED
    BY <1>1, <1>2, <1>3, <1>10, <1>11 DEF more
-----------------------------------------------------------------------------
(***************************************************************************)
(* The backend.  Inv says, for each place a call can stand at, what is in  *)
(* memory and who will free it, and what the context holds: this is what   *)
(* the properties need to survive a step.                                  *)
(***************************************************************************)
InLoop  == {"sample", "accept", "decode"}
InScope == {"prompt", "chain"} \cup InLoop

\* A backend runs only where the command line was accepted.
ConfigOK ==
    /\ cfg.n_ctx \in Int
    /\ outcome = "accepted" => cfg.n_ctx > 0
    /\ b_pc # "idle" => outcome = "accepted"

\* Each model belongs to a context, is about to get one, or is lost.
Owned ==
    /\ contexts = IF object THEN 1 ELSE 0
    /\ models = contexts + lost + IF b_pc = "context" THEN 1 ELSE 0
    /\ b_pc \in {"load", "context"} => ~object

\* The guards hold a batch and a sampler where they are in scope.
Guarded ==
    /\ batches = IF b_pc \in InScope THEN 1 ELSE 0
    /\ samplers = IF b_pc \in InLoop THEN 1 ELSE 0

\* The context holds the prompt and what was generated, and has room left.
Positions ==
    /\ b_pc \in InScope =>
        /\ prompt \in 1 .. cfg.n_ctx
        /\ budget = MaxNewTokens
        /\ Len(output) < budget
    /\ b_pc \in {"prompt", "chain"} => output = <<>>
    /\ b_pc = "prompt" => memory = 0
    /\ b_pc = "chain" => memory = prompt

Inv ==
    /\ BackendTypeOK
    /\ ConfigOK
    /\ Owned
    /\ Guarded
    /\ Positions
    /\ NothingStale
-----------------------------------------------------------------------------
\* Initially nothing is in memory.
LEMMA InitEstablishesInv == Init => Inv
<1>. SUFFICES ASSUME Init PROVE Inv
    OBVIOUS
<1>1. PICK argv \in CommandLines, name \in DOMAIN NameBytes :
        /\ outcome = ParseAppConfig(argv).outcome
        /\ cfg = BackendConfig(ParseAppConfig(argv).cfg, name)
    BY DEF Init
<1>. DEFINE parsed == ParseAppConfig(argv)
<1>2. parsed.cfg \in Configs
    BY ParsedConfig
<1>3. outcome = "accepted" => parsed.cfg.n_ctx > 0
    BY <1>1, ParsedConfig DEF ValidConfig
<1>. HIDE DEF parsed
<1>4. cfg.n_ctx = parsed.cfg.n_ctx /\ cfg.n_ctx \in Int
    BY <1>1, <1>2 DEF BackendConfig, parsed, Configs
<1>5. BackendInit
    BY DEF Init
<1>6. BackendTypeOK
    <2>1. output \in Seq(PieceSizes) /\ Len(output) = 0
        BY <1>5 DEF BackendInit
    <2>2. output \in Seq(PieceSizes) /\ printed \in 0 .. Len(output)
        BY <1>5, <2>1 DEF BackendInit
    <2>3. text \in Texts \cup {NoText}
        BY <1>5 DEF BackendInit
    <2>4. next_token \in PieceSizes \cup {Eog}
        BY <1>5 DEF BackendInit
    <2>. QED
        BY <1>5, <2>2, <2>3, <2>4 DEF BackendInit, BackendTypeOK
<1>7. ConfigOK /\ Owned /\ Guarded /\ Positions /\ NothingStale
    BY <1>2, <1>3, <1>4, <1>5
    DEF BackendInit, ConfigOK, Owned, Guarded, Positions, NothingStale,
        InScope, InLoop
<1>. QED
    BY <1>6, <1>7 DEF Inv
-----------------------------------------------------------------------------
\* The number of tokens of a prompt.
LEMMA TokensOfPrompt ==
    ASSUME BackendTypeOK, Tokenize(text) >= 0
    PROVE  Tokenize(text) \in Nat
BY BackendAssumption
DEF BackendTypeOK, Tokenize, LlamaTokenize, NoText

\* The budget is a number, and fits into what the prompt leaves.
LEMMA BudgetFits ==
    ASSUME cfg.n_ctx \in Int, prompt \in 1 .. cfg.n_ctx
    PROVE  MaxNewTokens \in Nat /\ prompt + MaxNewTokens <= cfg.n_ctx
BY BackendAssumption DEF MaxNewTokens

\* LoadModel
LEMMA LoadModelKeeps == Inv /\ LoadModel /\ UNCHANGED serviceVars => Inv'
<1>. SUFFICES ASSUME Inv, LoadModel, UNCHANGED serviceVars PROVE Inv'
    OBVIOUS
<1>. USE BackendAssumption DEF Inv, LoadModel, Fail, resources, callVars, printVars, serviceVars
<1>1. BackendTypeOK'
    BY DEF BackendTypeOK
<1>2. ConfigOK'
    BY DEF ConfigOK
<1>3. Owned'
    BY DEF Owned, BackendTypeOK
<1>4. Guarded'
    BY DEF Guarded, InScope, InLoop, BackendTypeOK
<1>5. Positions'
    BY DEF Positions, InScope, InLoop, BackendTypeOK
<1>6. NothingStale'
    BY DEF NothingStale, Positions, InScope, InLoop, BackendTypeOK
<1>. QED
    BY <1>1, <1>2, <1>3, <1>4, <1>5, <1>6

\* CreateContext
LEMMA CreateContextKeeps == Inv /\ CreateContext /\ UNCHANGED serviceVars => Inv'
<1>. SUFFICES ASSUME Inv, CreateContext, UNCHANGED serviceVars PROVE Inv'
    OBVIOUS
<1>. USE BackendAssumption DEF Inv, CreateContext, resources, callVars, printVars, serviceVars
<1>1. BackendTypeOK'
    <2>1. object' \in BOOLEAN
        BY DEF BackendTypeOK
    <2>2. contexts' \in Nat /\ memory' \in Nat /\ lost' \in Nat
        BY DEF BackendTypeOK
    <2>. QED
        BY <2>1, <2>2 DEF BackendTypeOK
<1>2. ConfigOK'
    BY DEF ConfigOK
<1>3. Owned'
    BY DEF Owned, BackendTypeOK
<1>4. Guarded'
    BY DEF Guarded, InScope, InLoop, BackendTypeOK
<1>5. Positions'
    BY DEF Positions, InScope, InLoop, BackendTypeOK
<1>6. NothingStale'
    BY DEF NothingStale, Positions, InScope, InLoop, BackendTypeOK
<1>. QED
    BY <1>1, <1>2, <1>3, <1>4, <1>5, <1>6

\* TokenizePrompt
LEMMA TokenizePromptKeeps == Inv /\ TokenizePrompt /\ UNCHANGED serviceVars => Inv'
<1>. SUFFICES ASSUME Inv, TokenizePrompt, UNCHANGED serviceVars PROVE Inv'
    OBVIOUS
<1>. USE BackendAssumption DEF Inv, TokenizePrompt, Fail, resources, callVars, printVars, serviceVars
<1>1. BackendTypeOK'
    BY TokensOfPrompt DEF BackendTypeOK
<1>2. ConfigOK'
    BY DEF ConfigOK
<1>3. Owned'
    BY DEF Owned, BackendTypeOK
<1>4. Guarded'
    BY DEF Guarded, InScope, InLoop, BackendTypeOK
<1>5. Positions'
    BY DEF Positions, InScope, InLoop, BackendTypeOK
<1>6. NothingStale'
    BY DEF NothingStale, Positions, InScope, InLoop, BackendTypeOK
<1>. QED
    BY <1>1, <1>2, <1>3, <1>4, <1>5, <1>6

\* CheckPrompt
LEMMA CheckPromptKeeps == Inv /\ CheckPrompt /\ UNCHANGED serviceVars => Inv'
<1>. SUFFICES ASSUME Inv, CheckPrompt, UNCHANGED serviceVars PROVE Inv'
    OBVIOUS
<1>. USE BackendAssumption DEF Inv, CheckPrompt, Fail, StartBatch, resources, callVars, printVars, serviceVars
<1>0. prompt \in 1 .. cfg.n_ctx => MaxNewTokens \in Nat
    BY BudgetFits DEF ConfigOK
<1>1. BackendTypeOK'
    <2>0. <<>> \in Seq(PieceSizes) /\ Len(<<>>) = 0
        OBVIOUS
    <2>1. output' \in Seq(PieceSizes) /\ printed' \in 0 .. Len(output')
        <3>1. CASE output' = <<>>
            BY <2>0, <3>1
        <3>2. CASE output' = output
            BY <3>2 DEF BackendTypeOK
        <3>. QED
            BY <3>1, <3>2
    <2>2. budget' \in Nat /\ memory' \in Nat /\ batches' \in Nat
        BY <1>0 DEF BackendTypeOK
    <2>. QED
        BY <2>1, <2>2 DEF BackendTypeOK
<1>2. ConfigOK'
    BY DEF ConfigOK
<1>3. Owned'
    BY DEF Owned, BackendTypeOK
<1>4. Guarded'
    BY DEF Guarded, InScope, InLoop, BackendTypeOK
<1>5. Positions'
    BY <1>0 DEF MaxNewTokens, Positions, InScope, InLoop, BackendTypeOK
<1>6. NothingStale'
    BY DEF NothingStale, Positions, InScope, InLoop, BackendTypeOK
<1>. QED
    BY <1>1, <1>2, <1>3, <1>4, <1>5, <1>6

\* DecodePrompt
LEMMA DecodePromptKeeps == Inv /\ DecodePrompt /\ UNCHANGED serviceVars => Inv'
<1>. SUFFICES ASSUME Inv, DecodePrompt, UNCHANGED serviceVars PROVE Inv'
    OBVIOUS
<1>. USE BackendAssumption DEF Inv, DecodePrompt, Fail, Decode, DecodeFails, LeaveScope, resources, callVars, printVars, serviceVars
<1>1. BackendTypeOK'
    <2>1. batches' \in Nat /\ samplers' \in Nat /\ memory' \in Nat
        BY DEF BackendTypeOK, ConfigOK, Guarded, InScope, InLoop
    <2>. QED
        BY <2>1 DEF BackendTypeOK
<1>2. ConfigOK'
    BY DEF ConfigOK
<1>3. Owned'
    BY DEF Owned, BackendTypeOK
<1>4. Guarded'
    BY DEF Guarded, InScope, InLoop, BackendTypeOK
<1>5. Positions'
    BY DEF Positions, MaxNewTokens, ConfigOK, NothingStale, InScope, InLoop, BackendTypeOK
<1>6. NothingStale'
    BY DEF NothingStale, Positions, InScope, InLoop, BackendTypeOK
<1>. QED
    BY <1>1, <1>2, <1>3, <1>4, <1>5, <1>6

\* MakeSampler
LEMMA MakeSamplerKeeps == Inv /\ MakeSampler /\ UNCHANGED serviceVars => Inv'
<1>. SUFFICES ASSUME Inv, MakeSampler, UNCHANGED serviceVars PROVE Inv'
    OBVIOUS
<1>. USE BackendAssumption DEF Inv, MakeSampler, Fail, LeaveScope, resources, callVars, printVars, serviceVars
<1>1. BackendTypeOK'
    <2>1. batches' \in Nat /\ samplers' \in Nat /\ memory' \in Nat
        BY DEF BackendTypeOK, ConfigOK, Guarded, InScope, InLoop
    <2>. QED
        BY <2>1 DEF BackendTypeOK
<1>2. ConfigOK'
    BY DEF ConfigOK
<1>3. Owned'
    BY DEF Owned, BackendTypeOK
<1>4. Guarded'
    BY DEF Guarded, InScope, InLoop, BackendTypeOK
<1>5. Positions'
    BY DEF Positions, MaxNewTokens, ConfigOK, NothingStale, InScope, InLoop, BackendTypeOK
<1>6. NothingStale'
    BY DEF NothingStale, Positions, InScope, InLoop, BackendTypeOK
<1>. QED
    BY <1>1, <1>2, <1>3, <1>4, <1>5, <1>6

\* Sample
LEMMA SampleKeeps == Inv /\ Sample /\ UNCHANGED serviceVars => Inv'
<1>. SUFFICES ASSUME Inv, Sample, UNCHANGED serviceVars PROVE Inv'
    OBVIOUS
<1>. USE BackendAssumption DEF Inv, Sample, resources, callVars, printVars, serviceVars
<1>1. BackendTypeOK'
    BY DEF BackendTypeOK
<1>2. ConfigOK'
    BY DEF ConfigOK
<1>3. Owned'
    BY DEF Owned, BackendTypeOK
<1>4. Guarded'
    BY DEF Guarded, InScope, InLoop, BackendTypeOK
<1>5. Positions'
    BY DEF Positions, MaxNewTokens, ConfigOK, NothingStale, InScope, InLoop, BackendTypeOK
<1>6. NothingStale'
    BY DEF NothingStale, Positions, InScope, InLoop, BackendTypeOK
<1>. QED
    BY <1>1, <1>2, <1>3, <1>4, <1>5, <1>6

\* AcceptToken
LEMMA AcceptTokenKeeps == Inv /\ AcceptToken /\ UNCHANGED serviceVars => Inv'
<1>. SUFFICES ASSUME Inv, AcceptToken, UNCHANGED serviceVars PROVE Inv'
    OBVIOUS
<1>. USE BackendAssumption DEF Inv, AcceptToken, LeaveScope, resources, callVars, printVars, serviceVars
<1>1. BackendTypeOK'
    <2>1. batches' \in Nat /\ samplers' \in Nat
        BY DEF BackendTypeOK, Guarded, InScope, InLoop
    <2>2. output' \in Seq(PieceSizes) /\ printed' \in 0 .. Len(output')
        BY DEF BackendTypeOK
    <2>. QED
        BY <2>1, <2>2 DEF BackendTypeOK
<1>2. ConfigOK'
    BY DEF ConfigOK
<1>3. Owned'
    BY DEF Owned, BackendTypeOK
<1>4. Guarded'
    BY DEF Guarded, InScope, InLoop, BackendTypeOK
<1>5. Positions'
    BY DEF Positions, MaxNewTokens, ConfigOK, NothingStale, InScope, InLoop, BackendTypeOK
<1>6. NothingStale'
    BY DEF NothingStale, Positions, InScope, InLoop, BackendTypeOK
<1>. QED
    BY <1>1, <1>2, <1>3, <1>4, <1>5, <1>6

\* DecodeToken
LEMMA DecodeTokenKeeps == Inv /\ DecodeToken /\ UNCHANGED serviceVars => Inv'
<1>. SUFFICES ASSUME Inv, DecodeToken, UNCHANGED serviceVars PROVE Inv'
    OBVIOUS
<1>. USE BackendAssumption DEF Inv, DecodeToken, Fail, Decode, DecodeFails, LeaveScope, resources, callVars, printVars, serviceVars
<1>1. BackendTypeOK'
    <2>1. batches' \in Nat /\ samplers' \in Nat /\ memory' \in Nat
        BY DEF BackendTypeOK, ConfigOK, Guarded, InScope, InLoop
    <2>. QED
        BY <2>1 DEF BackendTypeOK
<1>2. ConfigOK'
    BY DEF ConfigOK
<1>3. Owned'
    BY DEF Owned, BackendTypeOK
<1>4. Guarded'
    BY DEF Guarded, InScope, InLoop, BackendTypeOK
<1>5. Positions'
    BY DEF Positions, MaxNewTokens, ConfigOK, NothingStale, InScope, InLoop, BackendTypeOK
<1>6. NothingStale'
    BY DEF NothingStale, Positions, InScope, InLoop, BackendTypeOK
<1>. QED
    BY <1>1, <1>2, <1>3, <1>4, <1>5, <1>6

\* DetokenizeToken
LEMMA DetokenizeTokenKeeps == Inv /\ DetokenizeToken /\ UNCHANGED serviceVars => Inv'
<1>. SUFFICES ASSUME Inv, DetokenizeToken, UNCHANGED serviceVars PROVE Inv'
    OBVIOUS
<1>. USE BackendAssumption DEF Inv, DetokenizeToken, Fail, PrintPiece, LlamaTokenToPiece, resources, callVars, printVars, serviceVars
<1>1. BackendTypeOK'
    <2>0. printed < Len(output) => output[printed + 1] \in PieceSizes
        <3>. HIDE DEF DetokenizeToken
        <3>. QED
            BY DEF BackendTypeOK
    <2>1. printed < Len(output) => output[printed + 1] \in Nat
        BY <2>0
    <2>2. printed' \in 0 .. Len(output') /\ piece_buffer' \in Nat
            /\ answer' \in Nat
        BY <2>1 DEF BackendTypeOK
    <2>. QED
        BY <2>2 DEF BackendTypeOK
<1>2. ConfigOK'
    BY DEF ConfigOK
<1>3. Owned'
    BY DEF Owned, BackendTypeOK
<1>4. Guarded'
    BY DEF Guarded, InScope, InLoop, BackendTypeOK
<1>5. Positions'
    BY DEF Positions, InScope, InLoop, BackendTypeOK
<1>6. NothingStale'
    BY DEF NothingStale, Positions, InScope, InLoop, BackendTypeOK
<1>. QED
    BY <1>1, <1>2, <1>3, <1>4, <1>5, <1>6

\* ReturnText
LEMMA ReturnTextKeeps == Inv /\ ReturnText /\ UNCHANGED serviceVars => Inv'
<1>. SUFFICES ASSUME Inv, ReturnText, UNCHANGED serviceVars PROVE Inv'
    OBVIOUS
<1>. USE BackendAssumption DEF Inv, ReturnText, resources, callVars, printVars, serviceVars
<1>1. BackendTypeOK'
    BY DEF BackendTypeOK
<1>2. ConfigOK'
    BY DEF ConfigOK
<1>3. Owned'
    BY DEF Owned, BackendTypeOK
<1>4. Guarded'
    BY DEF Guarded, InScope, InLoop, BackendTypeOK
<1>5. Positions'
    BY DEF Positions, InScope, InLoop, BackendTypeOK
<1>6. NothingStale'
    BY DEF NothingStale, Positions, InScope, InLoop, BackendTypeOK
<1>. QED
    BY <1>1, <1>2, <1>3, <1>4, <1>5, <1>6

\* Request, TakeResult and Destroy, which come with steps of the service.
LEMMA RequestKeeps ==
    \A t \in Texts : Inv /\ Request(t) /\ outcome = "accepted"
                        /\ outcome' = outcome => Inv'
<1>. SUFFICES ASSUME NEW t \in Texts, Inv, Request(t), outcome = "accepted",
                     outcome' = outcome
              PROVE  Inv'
    OBVIOUS
<1>. USE DEF Inv, Request, resources, printVars
<1>1. BackendTypeOK'
    BY DEF BackendTypeOK
<1>2. ConfigOK' /\ Owned'
    BY DEF ConfigOK, Owned, BackendTypeOK
<1>3. Guarded' /\ Positions' /\ NothingStale'
    BY DEF Guarded, Positions, NothingStale, InScope, InLoop
<1>. QED
    BY <1>1, <1>2, <1>3

LEMMA TakeResultKeeps == Inv /\ TakeResult /\ outcome' = outcome => Inv'
<1>. SUFFICES ASSUME Inv, TakeResult, outcome' = outcome PROVE Inv'
    OBVIOUS
<1>. USE DEF Inv, TakeResult, resources, callVars, printVars
<1>1. BackendTypeOK'
    BY DEF BackendTypeOK
<1>2. ConfigOK' /\ Owned'
    BY DEF ConfigOK, Owned, BackendTypeOK
<1>3. Guarded' /\ Positions' /\ NothingStale'
    BY DEF Guarded, Positions, NothingStale, InScope, InLoop
<1>. QED
    BY <1>1, <1>2, <1>3

LEMMA DestroyKeeps ==
    Inv /\ Destroy /\ outcome = "accepted" /\ outcome' = outcome => Inv'
<1>. SUFFICES ASSUME Inv, Destroy, outcome = "accepted", outcome' = outcome
              PROVE  Inv'
    OBVIOUS
<1>. USE DEF Inv, Destroy, callVars, printVars
<1>1. BackendTypeOK'
    <2>1. contexts' \in Nat /\ models' \in Nat
        BY DEF BackendTypeOK, Owned
    <2>. QED
        BY <2>1 DEF BackendTypeOK
<1>2. ConfigOK'
    BY DEF ConfigOK
<1>3. Owned'
    BY DEF Owned, BackendTypeOK
<1>4. Guarded' /\ Positions' /\ NothingStale'
    BY DEF Guarded, Positions, NothingStale, InScope, InLoop
<1>. QED
    BY <1>1, <1>2, <1>3, <1>4

LEMMA UnchangedKeeps == Inv /\ UNCHANGED <<backendVars, outcome>> => Inv'
BY DEF Inv, backendVars, resources, callVars, printVars, BackendTypeOK, ConfigOK,
       Owned, Guarded, Positions, NothingStale, MaxNewTokens, InScope, InLoop

\* Every step of the service keeps the invariant.
LEMMA NextKeepsInv == Inv /\ [Next]_vars => Inv'
<1>. SUFFICES ASSUME Inv, [Next]_vars PROVE Inv'
    OBVIOUS
<1>1. CASE Post \/ TakeLora
    BY <1>1, UnchangedKeeps DEF Post, TakeLora
<1>2. CASE Take
    BY <1>2, RequestKeeps DEF Take
<1>3. CASE Step
    BY <1>3, LoadModelKeeps, CreateContextKeeps, TokenizePromptKeeps,
       CheckPromptKeeps, DecodePromptKeeps, MakeSamplerKeeps, SampleKeeps,
       AcceptTokenKeeps, DecodeTokenKeeps, DetokenizeTokenKeeps,
       ReturnTextKeeps
    DEF Step, Generate
<1>4. CASE Store
    BY <1>4, TakeResultKeeps DEF Store
<1>5. CASE Stop \/ TakeOversized
    BY <1>5, DestroyKeeps DEF Stop, TakeOversized, serviceVars
<1>6. CASE UNCHANGED vars
    BY <1>6, UnchangedKeeps DEF vars, serviceVars
<1>. QED
    BY <1>1, <1>2, <1>3, <1>4, <1>5, <1>6 DEF Next, Serve

LEMMA InvInvariant == Spec => []Inv
BY InitEstablishesInv, NextKeepsInv, PTL DEF Spec
-----------------------------------------------------------------------------
\* Nothing the backend counts goes below zero: no guard frees what was not
\* made and no destructor runs twice.
THEOREM BackendTypeCorrect == Spec => []BackendTypeOK
<1>1. Inv => BackendTypeOK
    BY DEF Inv
<1>. QED
    BY <1>1, InvInvariant, PTL

\* The context holds this request's tokens and nothing of an earlier one,
\* for every prompt, budget and failure.  (llama_memory_clear)
THEOREM NothingStaleInvariant == Spec => []NothingStale
<1>1. Inv => NothingStale
    BY DEF Inv
<1>. QED
    BY <1>1, InvInvariant, PTL

\* No decode lacks a position, for every size of the context, a prompt that
\* fills it included.  (max_new_tokens)
THEOREM RoomToDecodeInvariant == Spec => []RoomToDecode
<1>1. Inv => RoomToDecode
    <2>. SUFFICES ASSUME Inv PROVE RoomToDecode
        OBVIOUS
    <2>. USE DEF Inv, BackendTypeOK, ConfigOK, Positions, InScope, InLoop
    <2>1. b_pc = "prompt" => memory + prompt <= cfg.n_ctx
        OBVIOUS
    <2>2. b_pc = "decode" => memory + 1 <= cfg.n_ctx
        BY BudgetFits DEF NothingStale
    <2>. QED
        BY <2>1, <2>2 DEF RoomToDecode
<1>. QED
    BY <1>1, InvInvariant, PTL

\* Whichever call fails, batches, samplers and contexts are freed, and the
\* only models lost are those of constructors that failed halfway.
THEOREM ScopesReleaseInvariant == Spec => []ScopesRelease
<1>1. Inv => ScopesRelease
    BY DEF Inv, BackendTypeOK, Owned, Guarded, ScopesRelease, InScope, InLoop
<1>. QED
    BY <1>1, InvInvariant, PTL
-----------------------------------------------------------------------------
(* The configuration. *)

\* The command line is read once.
LEMMA ConfigStays == [Next]_vars => cfg' = cfg /\ outcome' = outcome
BY DEF Next, Serve, vars, backendVars, serviceVars, Post, Take, TakeLora,
       TakeOversized, Step, Store, Stop, Request, Generate, LoadModel, CreateContext, TokenizePrompt,
       CheckPrompt, DecodePrompt, MakeSampler, Sample, AcceptToken, DecodeToken,
       DetokenizeToken, ReturnText, TakeResult, Destroy

\* Every configuration parse_app_config accepts, for any command line, is one
\* the constructor of LlamaBackend accepts, whichever model the group serves.
THEOREM ConfigIsUsableInvariant == Spec => []ConfigIsUsable
<1>1. Init => ConfigIsUsable
    <2>. SUFFICES ASSUME Init, outcome = "accepted"
                  PROVE  ValidBackendConfig(cfg)
        BY DEF ConfigIsUsable
    <2>1. PICK argv \in CommandLines, name \in DOMAIN NameBytes :
            /\ outcome = ParseAppConfig(argv).outcome
            /\ cfg = BackendConfig(ParseAppConfig(argv).cfg, name)
        BY DEF Init
    <2>. DEFINE parsed == ParseAppConfig(argv).cfg
    <2>2. parsed \in Configs /\ ValidConfig(parsed)
        BY <2>1, ParsedConfig
    <2>. HIDE DEF parsed
    <2>3. /\ cfg.n_ctx = parsed.n_ctx
          /\ cfg.n_gpu_layers = parsed.n_gpu_layers
          /\ cfg.model_path \in
                {"code_model.gguf", "chat_model.gguf", parsed.model_path}
        BY <2>1, <2>2 DEF BackendConfig, parsed, Configs
    <2>4. cfg.model_path # ""
        BY <2>2, <2>3 DEF Configs
    <2>. QED
        BY <2>2, <2>3, <2>4 DEF ValidBackendConfig, ValidConfig
<1>2. ConfigIsUsable /\ [Next]_vars => ConfigIsUsable'
    BY ConfigStays DEF ConfigIsUsable
<1>. QED
    BY <1>1, <1>2, PTL DEF Spec
-----------------------------------------------------------------------------
(* The way of a request. *)

\* What is queued was accepted; so was what is served.
AllServable == \A r \in queue \cup serving : Servable(r.req)

\* A request that was accepted is in one place: in the queue, at the worker,
\* or answered.  No two have one id, and the next id is new.
InOnePlace ==
    /\ next_request_id \in Nat
    /\ \A r \in queue \cup serving :
        /\ r.id \in Nat /\ r.id < next_request_id
        /\ r.id \notin DOMAIN responses
    /\ \A r, s \in queue : r.id = s.id => r = s
    /\ \A r \in queue, s \in serving : r.id # s.id
    /\ \A id \in DOMAIN responses : id \in Nat /\ id < next_request_id

\* Only these variables are about requests.
requestVars == <<next_request_id, queue, serving, responses>>

LEMMA RequestStep ==
    [Next]_vars =>
        \/ Post
        \/ Take \/ TakeOversized
        \/ TakeLora
        \/ Store
        \/ UNCHANGED requestVars
BY DEF Next, Serve, vars, serviceVars, requestVars, Step, Stop

\* What an action does to the requests.
LEMMA PostQueues ==
    Post => \E request \in Accepted :
        /\ queue' = queue \cup {[id |-> next_request_id, req |-> request]}
        /\ next_request_id <= MaxPosts
        /\ next_request_id' = NextId(next_request_id)
        /\ UNCHANGED <<serving, responses>>
BY DEF Post

LEMMA TakeMoves ==
    Take \/ TakeOversized => \E r \in queue :
        /\ queue' = queue \ {r}
        /\ serving' = {r}
        /\ UNCHANGED <<next_request_id, responses>>
BY DEF Take, TakeOversized

LEMMA TakeLoraAnswers ==
    TakeLora => \E r \in queue :
        /\ queue' = queue \ {r}
        /\ responses' = Put(responses, r.id, "error")
        /\ UNCHANGED <<next_request_id, serving>>
BY DEF TakeLora

LEMMA StoreAnswers ==
    Store => \E r \in serving :
        /\ responses' = Put(responses, r.id, Result)
        /\ serving' = {}
        /\ UNCHANGED <<next_request_id, queue>>
BY DEF Store

LEMMA AllServableInvariant == Spec => []AllServable
<1>1. Init => AllServable
    BY DEF Init, AllServable
<1>2. AllServable /\ [Next]_vars => AllServable'
    <2>. SUFFICES ASSUME AllServable, [Next]_vars PROVE AllServable'
        OBVIOUS
    <2>. USE DEF AllServable
    <2>1. CASE Post
        <3>1. PICK request \in Accepted :
                /\ queue' = queue \cup {[id |-> next_request_id, req |-> request]}
                /\ UNCHANGED serving
            BY <2>1, PostQueues
        <3>. QED
            BY <3>1, AcceptedIsServable
    <2>2. CASE Take \/ TakeOversized
        BY <2>2, TakeMoves
    <2>3. CASE TakeLora
        BY <2>3, TakeLoraAnswers
    <2>4. CASE Store
        BY <2>4, StoreAnswers
    <2>5. CASE UNCHANGED requestVars
        BY <2>5 DEF requestVars
    <2>. QED
        BY <2>1, <2>2, <2>3, <2>4, <2>5, RequestStep
<1>. QED
    BY <1>1, <1>2, PTL DEF Spec

\* A worker that waits serves nobody, and one that has ended serves nobody
\* but the one whose request it could not even read.
Unattended ==
    /\ b_pc = "idle" => serving = {}
    /\ b_pc = "gone" => \A r \in serving : TooLong(r.req)

LEMMA UnattendedInvariant == Spec => []Unattended
<1>1. Init => Unattended
    BY DEF Init, BackendInit, Unattended
<1>2. Unattended /\ [Next]_vars => Unattended'
    <2>. SUFFICES ASSUME Unattended, [Next]_vars PROVE Unattended'
        OBVIOUS
    <2>. USE DEF Unattended
    <2>1. CASE Post \/ TakeLora \/ UNCHANGED vars
        BY <2>1 DEF Post, TakeLora, vars, backendVars, serviceVars, TooLong
    <2>2. CASE Take \/ Store
        BY <2>2 DEF Take, Request, Store, TakeResult
    <2>3. CASE Step
        BY <2>3
        DEF Step, Generate, LoadModel, CreateContext, TokenizePrompt, CheckPrompt,
            DecodePrompt, MakeSampler, Sample, AcceptToken, DecodeToken,
            DetokenizeToken, ReturnText, Fail, serviceVars
    <2>4. CASE TakeOversized
        BY <2>4 DEF TakeOversized, Destroy, TooLong
    <2>5. CASE Stop
        BY <2>5 DEF Stop, Destroy, serviceVars
    <2>. QED
        BY <2>1, <2>2, <2>3, <2>4, <2>5 DEF Next, Serve
<1>. QED
    BY <1>1, <1>2, PTL DEF Spec

\* Whatever a body says, of as many messages as it likes and with integers of
\* any size, what the handlers queue has a length and a priority the scheduler
\* may be given; and a worker never ends for the prompt of a chat, only for a
\* model's or an adapter's name that is longer than it reads.
THEOREM AcceptedAreServableInvariant == Spec => []AcceptedAreServable
<1>1. AllServable /\ Unattended => AcceptedAreServable
    BY DEF AllServable, Unattended, Servable, AcceptedAreServable
<1>. QED
    BY <1>1, AllServableInvariant, UnattendedInvariant, PTL

LEMMA InOnePlaceInvariant ==
    ASSUME MaxPosts \in Nat, MaxPosts < MaxInt
    PROVE  Spec => []InOnePlace
<1>1. Init => InOnePlace
    BY DEF Init, InOnePlace
<1>2. InOnePlace /\ [Next]_vars => InOnePlace'
    <2>. SUFFICES ASSUME InOnePlace, [Next]_vars PROVE InOnePlace'
        OBVIOUS
    <2>. USE DEF InOnePlace
    <2>1. CASE Post
        <3>1. PICK request \in Accepted :
                /\ queue' = queue \cup {[id |-> next_request_id, req |-> request]}
                /\ next_request_id' = next_request_id + 1
                /\ UNCHANGED <<serving, responses>>
            BY <2>1, PostQueues, LimitsAssumption DEF NextId
        <3>. QED
            BY <3>1
    <2>2. CASE Take \/ TakeOversized
        BY <2>2, TakeMoves
    <2>3. CASE TakeLora
        <3>1. PICK r \in queue :
                /\ queue' = queue \ {r}
                /\ responses' = Put(responses, r.id, "error")
                /\ UNCHANGED <<next_request_id, serving>>
            BY <2>3, TakeLoraAnswers
        <3>2. DOMAIN responses' = DOMAIN responses \cup {r.id}
            BY <3>1 DEF Put
        <3>. QED
            BY <3>1, <3>2
    <2>4. CASE Store
        <3>1. PICK r \in serving :
                /\ responses' = Put(responses, r.id, Result)
                /\ serving' = {}
                /\ UNCHANGED <<next_request_id, queue>>
            BY <2>4, StoreAnswers
        <3>2. DOMAIN responses' = DOMAIN responses \cup {r.id}
            BY <3>1 DEF Put
        <3>. QED
            BY <3>1, <3>2
    <2>5. CASE UNCHANGED requestVars
        BY <2>5 DEF requestVars
    <2>. QED
        BY <2>1, <2>2, <2>3, <2>4, <2>5, RequestStep
<1>. QED
    BY <1>1, <1>2, PTL DEF Spec

\* No answer is ever lost or replaced, although put would replace it, until
\* the request counter passes the largest int and ids repeat.
THEOREM AnswersStayProperty ==
    ASSUME MaxPosts \in Nat, MaxPosts < MaxInt
    PROVE  Spec => AnswersStay
<1>1. InOnePlace /\ [Next]_vars =>
        [\A id \in DOMAIN responses :
            id \in DOMAIN responses' /\ responses'[id] = responses[id]]_vars
    <2>. SUFFICES ASSUME InOnePlace, [Next]_vars, NEW id \in DOMAIN responses
                  PROVE  id \in DOMAIN responses' /\ responses'[id] = responses[id]
        OBVIOUS
    <2>1. \A other, response :
            other \notin DOMAIN responses
            /\ responses' = Put(responses, other, response) =>
                id \in DOMAIN responses' /\ responses'[id] = responses[id]
        BY DEF Put
    <2>2. CASE UNCHANGED responses
        BY <2>2
    <2>3. CASE TakeLora
        BY <2>1, <2>3, TakeLoraAnswers DEF InOnePlace
    <2>4. CASE Store
        BY <2>1, <2>4, StoreAnswers DEF InOnePlace
    <2>5. CASE Post \/ Take \/ TakeOversized \/ UNCHANGED requestVars
        BY <2>2, <2>5, PostQueues, TakeMoves DEF requestVars
    <2>. QED
        BY <2>3, <2>4, <2>5, RequestStep
<1>. QED
    BY <1>1, InOnePlaceInvariant, PTL DEF Spec, AnswersStay
-----------------------------------------------------------------------------
(***************************************************************************)
(* The text.  Until detokenize begins nothing is printed; from then on the *)
(* answer is as long as the tokens printed so far, and the tokens are all  *)
(* there will be: the model ended them or the budget is spent.             *)
(***************************************************************************)
Printed ==
    /\ b_pc \in InScope => printed = 0 /\ answer = 0
    /\ b_pc \in {"print", "answered"} =>
        /\ next_token = Eog \/ Len(output) = MaxNewTokens
        /\ answer = SizeOf(SubSeq(output, 1, printed))
    /\ b_pc = "answered" => printed = Len(output)

LEMMA NothingPrinted == \A tokens : SizeOf(SubSeq(tokens, 1, 0)) = 0
<1>1. \A tokens : SubSeq(tokens, 1, 0) = <<>>
    BY SubSeqEmpty
<1>. QED
    BY <1>1, SizeOfNone

\* detokenize appends the piece of the next token.
LEMMA OneMorePrinted ==
    ASSUME BackendTypeOK, printed < Len(output)
    PROVE  /\ output[printed + 1] \in Nat
           /\ SizeOf(SubSeq(output, 1, printed + 1)) =
                SizeOf(SubSeq(output, 1, printed)) + output[printed + 1]
<1>1. output \in Seq(Nat) /\ printed \in Nat /\ Len(output) \in Nat
    <2>1. output \in Seq(PieceSizes) /\ printed \in 0 .. Len(output)
        BY DEF BackendTypeOK
    <2>2. PieceSizes \subseteq Nat
        BY BackendAssumption
    <2>3. output \in Seq(Nat)
        BY <2>1, <2>2, SeqMonotonic
    <2>. QED
        BY <2>1, <2>3
<1>2. output[printed + 1] \in Nat
    BY <1>1
<1>3. SubSeq(output, 1, printed) \in Seq(Nat)
    BY <1>1
<1>4. SubSeq(output, 1, printed + 1) =
        Append(SubSeq(output, 1, printed), output[printed + 1])
    BY <1>1
<1>. QED
    BY <1>2, <1>3, <1>4, SizeOfAppend

LEMMA DetokenizePrints ==
    ASSUME Inv, Printed, DetokenizeToken
    PROVE  Printed'
<1>1. CASE b_pc' = "failed"
    BY <1>1 DEF Printed, InScope, InLoop
<1>2. CASE b_pc' # "failed"
    <2>1. /\ b_pc = "print" /\ b_pc' = "print" /\ printed < Len(output)
          /\ PrintPiece(output[printed + 1])
          /\ printed' = printed + 1
          /\ UNCHANGED <<cfg, prompt, next_token, output>>
        BY <1>2 DEF DetokenizeToken, Fail
    <2>2. /\ output[printed + 1] \in Nat
          /\ SizeOf(SubSeq(output, 1, printed + 1)) =
                SizeOf(SubSeq(output, 1, printed)) + output[printed + 1]
        BY <2>1, OneMorePrinted DEF Inv
    <2>3. piece_buffer \in Nat /\ answer \in Nat
        BY DEF Inv, BackendTypeOK
    <2>4. answer' = answer + output[printed + 1]
        BY <2>1, <2>2, <2>3 DEF PrintPiece, LlamaTokenToPiece
    <2>5. answer = SizeOf(SubSeq(output, 1, printed))
        BY <2>1 DEF Printed
    <2>6. (next_token = Eog \/ Len(output) = MaxNewTokens)'
        BY <2>1 DEF Printed, MaxNewTokens
    <2>7. (answer = SizeOf(SubSeq(output, 1, printed)))'
        BY <2>1, <2>2, <2>4, <2>5
    <2>. QED
        BY <2>1, <2>6, <2>7 DEF Printed, InScope, InLoop
<1>. QED
    BY <1>1, <1>2

\* The loop ends with an end token or with the token that spends the budget.
LEMMA AcceptTokenEnds ==
    ASSUME Inv, Printed, AcceptToken
    PROVE  Printed'
<1>1. /\ b_pc = "accept" /\ printed = 0 /\ answer = 0
      /\ printed' = 0 /\ answer' = 0
      /\ UNCHANGED <<cfg, prompt, next_token>>
    BY DEF AcceptToken, Printed, InScope, InLoop, printVars
<1>2. CASE b_pc' = "decode"
    BY <1>1, <1>2 DEF Printed, InScope, InLoop
<1>3. CASE b_pc' = "print"
    <2>1. next_token # Eog =>
            output' = Append(output, next_token) /\ Len(output') >= budget
        BY <1>3 DEF AcceptToken
    <2>2. Len(output) < budget /\ budget = MaxNewTokens
          /\ Len(output) \in Nat /\ budget \in Nat
          /\ output \in Seq(PieceSizes)
        BY <1>1 DEF Inv, BackendTypeOK, Positions, InScope, InLoop
    <2>3. next_token # Eog => Len(output') = budget
        <3>1. Len(Append(output, next_token)) = Len(output) + 1
            BY <2>2
        <3>2. \A l, b \in Nat : l < b /\ l + 1 >= b => l + 1 = b
            OBVIOUS
        <3>. QED
            BY <2>1, <2>2, <3>1, <3>2
    <2>4. MaxNewTokens' = MaxNewTokens
        BY <1>1 DEF MaxNewTokens
    <2>5. (next_token = Eog \/ Len(output) = MaxNewTokens)'
        BY <1>1, <2>2, <2>3, <2>4
    <2>6. (answer = SizeOf(SubSeq(output, 1, printed)))'
        BY <1>1, NothingPrinted
    <2>. QED
        BY <1>3, <2>5, <2>6 DEF Printed, InScope, InLoop
<1>. QED
    BY <1>2, <1>3 DEF AcceptToken

\* Where there is no room for a single token the text is empty.
LEMMA CheckPromptStarts ==
    ASSUME Inv, Printed, CheckPrompt
    PROVE  Printed'
<1>1. printed' = 0 /\ answer' = 0 /\ UNCHANGED <<cfg, prompt>>
    BY DEF CheckPrompt
<1>2. b_pc' \in {"print", "prompt", "failed"}
      /\ (b_pc' = "print" => output' = <<>> /\ MaxNewTokens = 0)
    BY DEF CheckPrompt, Fail
<1>3. MaxNewTokens' = MaxNewTokens
    BY <1>1 DEF MaxNewTokens
<1>4. (answer = SizeOf(SubSeq(output, 1, printed)))'
    BY <1>1, NothingPrinted
<1>. QED
    BY <1>1, <1>2, <1>3, <1>4 DEF Printed, InScope, InLoop

\* The other steps of a call.
LEMMA GeneratePrints == Inv /\ Printed /\ Generate => Printed'
<1>. SUFFICES ASSUME Inv, Printed, Generate PROVE Printed'
    OBVIOUS
<1>. USE DEF Printed, MaxNewTokens, InScope, InLoop, callVars, printVars
<1>1. CASE LoadModel \/ CreateContext
    BY <1>1 DEF LoadModel, CreateContext, Fail
<1>2. CASE TokenizePrompt
    BY <1>2 DEF TokenizePrompt, Fail
<1>3. CASE DecodePrompt \/ MakeSampler
    BY <1>3 DEF DecodePrompt, MakeSampler, Fail
<1>4. CASE Sample \/ DecodeToken
    BY <1>4 DEF Sample, DecodeToken, Fail
<1>5. CASE ReturnText
    BY <1>5 DEF ReturnText
<1>. QED
    BY <1>1, <1>2, <1>3, <1>4, <1>5, DetokenizePrints, AcceptTokenEnds,
       CheckPromptStarts
    DEF Generate

LEMMA PrintedInvariant == Spec => []Printed
<1>1. Init => Printed
    BY DEF Init, BackendInit, Printed, InScope, InLoop
<1>2. Inv /\ Printed /\ [Next]_vars => Printed'
    <2>. SUFFICES ASSUME Inv, Printed, [Next]_vars PROVE Printed'
        OBVIOUS
    <2>1. CASE Post \/ TakeLora \/ UNCHANGED vars
        BY <2>1 DEF Post, TakeLora, vars, backendVars, Printed, MaxNewTokens,
            callVars, printVars
    <2>2. CASE Take \/ TakeOversized \/ Store \/ Stop
        BY <2>2 DEF Take, TakeOversized, Request, Store, TakeResult, Stop, Destroy, Printed,
            InScope, InLoop
    <2>3. CASE Step
        BY <2>3, GeneratePrints DEF Step
    <2>. QED
        BY <2>1, <2>2, <2>3 DEF Next, Serve
<1>. QED
    BY <1>1, <1>2, InvInvariant, PTL DEF Spec

\* A text that is returned is all of what was generated, whatever the size of
\* its pieces, and ends where the model ended it or where the budget did.
THEOREM AnswerIsWholeInvariant == Spec => []AnswerIsWhole
<1>1. Inv /\ Printed => AnswerIsWhole
    <2>. SUFFICES ASSUME Inv, Printed, b_pc = "answered"
                  PROVE  /\ next_token = Eog \/ Len(output) = MaxNewTokens
                         /\ answer = SizeOf(output)
        BY DEF AnswerIsWhole
    <2>1. output \in Seq(PieceSizes)
        BY DEF Inv, BackendTypeOK
    <2>2. SubSeq(output, 1, Len(output)) = output
        BY <2>1
    <2>. QED
        BY <2>2 DEF Printed
<1>. QED
    BY <1>1, InvInvariant, PrintedInvariant, PTL
=============================================================================
