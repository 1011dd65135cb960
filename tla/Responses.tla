----------------------------- MODULE Responses -----------------------------
(***************************************************************************)
(* How the Python front ends turn what the engine streams into OpenAI       *)
(* responses (python/mlc_llm/serve/engine_base.py, engine.py and            *)
(* entrypoints/openai_entrypoints.py).  Only operators: Frontend uses them  *)
(* in its actions.                                                          *)
(*                                                                          *)
(* A text is the sequence of tokens it stands for.  A chunk is what a       *)
(* stream yields at a time: one output per parallel generation, or the      *)
(* final chunk, which carries only the usage.  A request is a record        *)
(*   [api, http, stream, include_usage, n, max_tokens, echo, suffix, tools].*)
(***************************************************************************)
EXTENDS Naturals, Sequences

NoReason == "none"

\* CallbackStreamOutput of one generation.
Output(text, reason) == [text |-> text, reason |-> reason]

Chunk(outputs) == [final |-> FALSE, outputs |-> outputs]

FinalChunk == [final |-> TRUE, outputs |-> <<>>]

\* The choices of a response by their index.  A response with neither choices nor
\* usage stands for None: nothing is yielded.
NoResponse == [usage |-> FALSE, choices |-> <<>>]

-----------------------------------------------------------------------------
(* process_chat_completion_stream_output, process_completion_stream_output *)

\* The final chunk is a response unless a streaming client did not ask for it.
FinalResponse(req) ==
  [NoResponse EXCEPT !.usage = ~req.stream \/ req.include_usage]

\* Does this chunk end generation i for the first time?
ReasonUpdated(reasons, outputs, i) ==
  outputs[i].reason # NoReason /\ reasons[i] = NoReason

\* A chat with function calling reports "tool_calls" for every reason.
ReportedReason(req, reason) ==
  IF req.api = "chat" /\ req.tools THEN "tool_calls" ELSE reason

NewReasons(req, reasons, outputs) ==
  [i \in DOMAIN reasons |->
     IF ReasonUpdated(reasons, outputs, i)
     THEN ReportedReason(req, outputs[i].reason) ELSE reasons[i]]

\* Outputs without text are skipped, unless they end the generation.
Yields(reasons, outputs, i) ==
  outputs[i].text # <<>> \/ ReasonUpdated(reasons, outputs, i)

ChunkResponse(req, reasons, outputs) ==
  [NoResponse EXCEPT !.choices =
     [i \in {j \in 1..req.n : Yields(reasons, outputs, j)} |->
        [text |-> outputs[i].text, reason |-> NewReasons(req, reasons, outputs)[i]]]]

-----------------------------------------------------------------------------
(* The consumer: what a client, or the non-streaming handler, has so far. *)

EmptyAnswer(req) == [texts   |-> [i \in 1..req.n |-> <<>>],
                     reasons |-> [i \in 1..req.n |-> NoReason],
                     usage   |-> 0]

\* Texts are concatenated per choice, the first reason is kept.
Accumulate(answer, resp) ==
  [texts |-> [i \in DOMAIN answer.texts |->
      answer.texts[i] \o (IF i \in DOMAIN resp.choices THEN resp.choices[i].text ELSE <<>>)],
   reasons |-> [i \in DOMAIN answer.reasons |->
      IF answer.reasons[i] # NoReason \/ i \notin DOMAIN resp.choices
      THEN answer.reasons[i] ELSE resp.choices[i].reason],
   usage |-> answer.usage + (IF resp.usage THEN 1 ELSE 0)]

\* The echoed prompt and the suffix are tokens of their own in the texts.
EchoToken == [from |-> "prompt"]

SuffixToken == [from |-> "suffix"]

EchoResponse(req) ==
  [NoResponse EXCEPT !.choices =
     [i \in 1..req.n |-> [text |-> <<EchoToken>>, reason |-> NoReason]]]

SuffixResponse(req, reasons) ==
  [NoResponse EXCEPT !.choices =
     [i \in 1..req.n |-> [text |-> <<SuffixToken>>, reason |-> reasons[i]]]]

AllEnded(reasons) == \A i \in DOMAIN reasons : reasons[i] # NoReason

\* create_completion_suffix_response asserts that every generation has ended; so do
\* the non-streaming handlers, but not the one of the server for completions.
EndChecksHold(req, reasons, answer) ==
  /\ req.suffix => AllEnded(reasons)
  /\ ~req.stream /\ (req.api = "chat" \/ ~req.http) => AllEnded(answer.reasons)

\* process_function_call_output: when some choice called tools, every text is
\* parsed; parsed[i] says whether text i is a call of a function.
CallsFunctions(answer) == \E i \in DOMAIN answer.reasons : answer.reasons[i] = "tool_calls"

\* Indexing the first character of an empty text raises an uncaught IndexError.
ParseRaises(req, answer) ==
  /\ req.api = "chat" /\ ~req.stream /\ CallsFunctions(answer)
  /\ \E i \in DOMAIN answer.texts : answer.texts[i] = <<>>

FunctionReasons(req, answer, parsed) ==
  IF req.api = "chat" /\ ~req.stream /\ CallsFunctions(answer)
  THEN [i \in DOMAIN answer.reasons |-> IF parsed[i] THEN "tool_calls" ELSE "error"]
  ELSE answer.reasons
=============================================================================
