---------------------------- MODULE MCSpeculation ----------------------------
(* Small instances of Speculation.                                         *)
EXTENDS Speculation

Prompts == [r \in Requests |-> r + 1]

\* A small draft model proposing two tokens; answers outgrow the KV caches, and
\* preempted ones are prefilled in chunks.
Chain == [mode |-> "small_draft", promptTokens |-> Prompts, maxTokens |-> 14,
          maxTotal |-> 24, maxNumSequence |-> 6, chunkSize |-> 6, pageSize |-> 3,
          numPages |-> 8, draftLength |-> 2, width |-> 1, canAbort |-> TRUE]

\* It proposes two tokens after each, two levels deep.
Tree == [Chain EXCEPT !.maxTokens = 10, !.maxNumSequence = 14, !.chunkSize = 14,
                      !.pageSize = 8, !.maxTotal = 32, !.numPages = 4, !.width = 2]

\* With one request running it proposes four tokens, with two none.
Auto == [Chain EXCEPT !.draftLength = 0, !.pageSize = 5, !.maxTotal = 30,
                      !.numPages = 6, !.chunkSize = 20]

\* Eagle needs a chunk that holds all waiting prompts.
Eagle == [Chain EXCEPT !.mode = "eagle", !.chunkSize = 40, !.canAbort = FALSE]

Medusa == [Eagle EXCEPT !.mode = "medusa"]

AllModes == {Chain, Tree, Auto, Eagle, Medusa}
=============================================================================
