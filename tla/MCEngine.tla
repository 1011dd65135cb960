------------------------------ MODULE MCEngine ------------------------------
(* Small instances of Engine.                                              *)
EXTENDS Engine

\* Prompts of different lengths.
Prompts == [r \in Requests |-> r + 2]

\* Hybrid mode (the default), prompts that need chunking and answers that
\* outgrow the KV cache, aborted at any time.
Tight == [promptTokens |-> Prompts, generations |-> [r \in Requests |-> 1],
          maxTokens |-> 18, maxSingle |-> 24, maxTotal |-> 40, maxNumSequence |-> 2,
          chunkSize |-> 8, pageSize |-> 4, numPages |-> 10, hybrid |-> TRUE, canAbort |-> TRUE]

\* The first request asks for two answers, there is room for all, and decodes
\* do not join prefills.
Pair == [promptTokens |-> Prompts, generations |-> [r \in Requests |-> IF r = 1 THEN 2 ELSE 1],
         maxTokens |-> 5, maxSingle |-> 20, maxTotal |-> 100, maxNumSequence |-> 10,
         chunkSize |-> 10, pageSize |-> 4, numPages |-> 25, hybrid |-> FALSE, canAbort |-> FALSE]

TightAndPair == {Tight, Pair}
=============================================================================
