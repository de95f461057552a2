-------------------------- MODULE MCInferenceService --------------------------
(* Small sizes for InferenceService: bytes and tokens below ten, an int of  *)
(* five bits.                                                               *)
EXTENDS InferenceService

\* Options with good and bad values, given twice, without a value, unknown.
MCCommandLines ==
    {<<"--n_ctx", n>> \o rest :
        n \in {"1", "3", "0", "-1", "", "4x"},
        rest \in {<<>>, <<"--ngl", "-1">>, <<"--n_gpu_layers", "-2">>,
                  <<"--model", "">>, <<"--model">>, <<"--model", "--quiet">>,
                  <<"--seed", "--seed">>, <<"--n_ctx", "3">>,
                  <<"--no-flash-attn", "--quiet">>, <<"--help">>,
                  <<"--unknown">>, <<"--topology", "3">>}}

MCIntOf ==
    [arg \in UNION {ToSet(argv) : argv \in MCCommandLines} |->
        CASE arg = "0" -> 0
          [] arg = "1" -> 1
          [] arg = "3" -> 3
          [] arg = "-1" -> -1
          [] arg = "-2" -> -2
          [] OTHER -> Thrown]

Message(role, content) == [role |-> role, content |-> content]

\* Twelve bytes hold one message; default roles count, too.
MCPrompts ==
    {[prompt |-> p, messages |-> Absent] :
        p \in {Absent, WrongType, 0, 2, 12, 13, 19}} \cup
    {[prompt |-> 2, messages |-> m] :
        m \in {WrongType, <<>>, <<Message(Absent, 5)>>,
               <<Message(4, 6)>>, <<Message(1, Absent)>>,
               <<Message(1, 1), Message(1, 2)>>, <<Message(0, 1)>>}}

MCChatBodies ==
    {[model |-> Absent, max_tokens |-> n, temperature |-> t, top_p |-> q,
      prompt |-> p.prompt, messages |-> p.messages] :
        p \in MCPrompts, n \in {Absent, WrongType, -1, 0, 8, 9, 32, 35},
        t \in {Absent, -1, 51}, q \in {Absent, WrongType, 0}} \cup
    {[model |-> name, max_tokens |-> Absent, temperature |-> Absent,
      top_p |-> Absent, prompt |-> 2, messages |-> Absent] :
        name \in {WrongType, 0, 4, 19}}

\* Eighteen bytes hold ":load_lora default"; nineteen are too many.
MCLoraBodies ==
    [model : {Absent, 0}, adapter : {Absent, 0, 8},
     priority : {Absent, -1, 0, 16, 33}] \cup
    [model : {4}, adapter : {Absent}, priority : {Absent}]

MCNameBytes == [name \in {"default", "chat", "code", "long"} |->
    CASE name = "default" -> 7 [] name = "long" -> 19 [] OTHER -> 4]

MCTexts ==
    {[bytes |-> 2, tokens |-> 1], [bytes |-> 2, tokens |-> 3],
     [bytes |-> 12, tokens |-> 2], [bytes |-> 12, tokens |-> 4],
     [bytes |-> 11, tokens |-> 21]}
=============================================================================
