------------------------------ MODULE MCStartUp ------------------------------
(* Instances of StartUp for TLC. *)
EXTENDS StartUp

Entry(model_id, ranks) == [model_id |-> model_id, ranks |-> ranks]

\* One group of all workers, two groups and a rank wider than int, one that
\* leaves a worker out.
MCGood ==
    {<<Entry("chat", <<2, 1>>)>>,
     <<Entry("chat", <<2>>), Entry("code", <<33>>)>>,
     <<Entry("chat", <<1>>)>>}

MCBad ==
    {<<>>,
     <<Entry("chat", <<1>>), Entry("chat", <<2>>)>>,
     <<Entry("chat", <<1, 2>>), Entry("code", <<2>>)>>,
     <<Entry("chat", <<0>>)>>, <<Entry("chat", <<1, 1>>)>>,
     <<Entry("chat", <<3>>)>>, <<Entry("", <<1>>)>>,
     <<Entry("chat", <<>>)>>, <<Entry("chat", Bad)>>, <<Entry(Bad, <<1>>)>>,
     <<Entry("chat", <<Bad>>)>>}

\* What the other hosts have under the same path.
MCOtherDocuments == {<<Entry("code", <<2>>)>>}

MCDocuments ==
    {Unparsable, TooLarge, Empty, NoModels} \cup MCGood \cup MCBad
=============================================================================
