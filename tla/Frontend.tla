------------------------------ MODULE Frontend ------------------------------
(***************************************************************************)
(* AsyncMLCEngine and MLCEngine with the HTTP handlers on top               *)
(* (python/mlc_llm/serve/engine.py, engine_base.py, engine_utils.py,        *)
(* entrypoints/openai_entrypoints.py), composed with the threaded engine    *)
(* reduced to its instruction queue, the requests it holds and the outputs  *)
(* on their way to the callback.                                            *)
(*                                                                          *)
(* A call is one use of a create method or of an HTTP handler.  Its request *)
(* id is random, or given by the caller (request_id, or the field user over *)
(* HTTP), so two calls may have the same one.  For kind "async" everything  *)
(* but the engine runs in one event loop, where a coroutine can be          *)
(* cancelled or dropped whenever it is suspended; for kind "sync" the       *)
(* caller's thread alternates between its generators as it likes.           *)
(***************************************************************************)
EXTENDS Responses, FiniteSets, Integers

CONSTANTS Calls,       \* uses of the API
          Ids,         \* request ids
          Scenarios,   \* what is called: [kind, id, req] with kind "async" or "sync",
                       \* the id and the request record (see Responses) of each call
          MaxHeld,     \* bound on the tokens a text streamer keeps back
          MaxControl   \* bound on the calls of abort, reset and terminate

None == "no call"

ASSUME FrontendAssumption ==
  /\ None \notin Calls /\ IsFiniteSet(Calls) /\ Ids # {}
  /\ MaxControl \in Nat /\ MaxHeld \in Nat
  /\ \A s \in Scenarios :
       /\ s = [kind |-> s.kind, id |-> s.id, req |-> s.req]
       /\ s.kind \in {"async", "sync"} /\ s.id \in [Calls -> Ids]
       /\ \A c \in Calls : s.req[c].n \in Nat \ {0} /\ s.req[c].max_tokens \in Nat
       \* a caller of MLCEngine leaves the ids to the engine, which takes random ones
       /\ s.kind = "sync" => \A c, d \in Calls : c # d => s.id[c] # s.id[d]

VARIABLES
  kind,       \* the engine class in use
  id, req,    \* of each call
  pc,         \* of each call; "unused" is an end before anything was generated
  stream,     \* its AsyncRequestStream, or what the generator still has to yield
  held,       \* its text streamers: tokens not yet turned into text, per generation
  reasons,    \* its finish_reasons list
  answer,     \* what its consumer has got
  streamers,  \* EngineState.async_streamers: id -> call, or None
  syncQueue,  \* EngineState.sync_output_queue
  instrs,     \* instruction queue of the threaded engine
  engine,     \* requests it holds: id -> call, or None
  made,       \* per call and generation: the tokens made, whether its end was sent
              \* (over), and whether it was sent again (history)
  outputs,    \* outputs on their way to the callback
  terminated, control,
  disturbed   \* history: calls that met one of the cases the code does not support

callVars   == <<id, req, pc, stream, held, reasons, answer>>
engineVars == <<instrs, engine, made, outputs>>
ctrlVars   == <<terminated, control>>
vars == <<kind, callVars, streamers, syncQueue, engineVars, ctrlVars, disturbed>>

Gens(c) == 1..req[c].n
Unfinished == {"echo", "run", "closing"}
Ended == {"done", "failed", "closed", "unused"}

Item(k, chunk) == [kind |-> k, chunk |-> chunk]
ChunkItem(chunk) == Item("chunk", chunk)
StopItem  == Item("stop", FinalChunk)
ErrorItem == Item("error", FinalChunk)

Init ==
  /\ \E s \in Scenarios : kind = s.kind /\ id = s.id /\ req = s.req
  /\ pc = [c \in Calls |-> "idle"]
  /\ stream = [c \in Calls |-> <<>>]
  /\ held = [c \in Calls |-> [g \in Gens(c) |-> <<>>]]
  /\ reasons = [c \in Calls |-> [g \in Gens(c) |-> NoReason]]
  /\ answer = [c \in Calls |-> EmptyAnswer(req[c])]
  /\ streamers = [i \in Ids |-> None]
  /\ syncQueue = <<>>
  /\ instrs = <<>> /\ outputs = <<>>
  /\ engine = [i \in Ids |-> None]
  /\ made = [c \in Calls |-> [g \in Gens(c) |-> [tokens |-> 0, over |-> FALSE, again |-> FALSE]]]
  /\ terminated = FALSE /\ control = 0
  /\ disturbed = {}

-----------------------------------------------------------------------------
(* Starting a call. *)

\* History only.  Not supported: for "async" a second call with the id of one that
\* has not run to its end; for "sync" a call while another has not run to its end.
Disturbs(c) ==
  {d \in Calls \ {c} : /\ pc[d] \in {"run", "closing", "failed", "closed"}
                       /\ kind = "async" => id[d] = id[c]}

NowDisturbed(c) ==
  disturbed \cup (IF Disturbs(c) = {} THEN {} ELSE Disturbs(c) \cup {c})

\* AsyncMLCEngine._generate up to its loop.
GenerateAsync(c) ==
  /\ \/ /\ streamers[id[c]] # None
        /\ stream' = [stream EXCEPT ![c] = <<ErrorItem>>]
        /\ UNCHANGED <<streamers, instrs>>
     \/ /\ streamers[id[c]] = None
        /\ streamers' = [streamers EXCEPT ![id[c]] = c]
        /\ instrs' = Append(instrs, [op |-> "add", id |-> id[c], call |-> c])
        /\ UNCHANGED stream
  /\ UNCHANGED syncQueue

\* MLCEngine._generate up to its loop: a new output queue, new text streamers.
GenerateSync(c) ==
  /\ syncQueue' = <<>>
  /\ instrs' = Append(instrs, [op |-> "add", id |-> id[c], call |-> c])
  /\ UNCHANGED <<streamers, stream>>

\* _generate: a terminated engine raises.
Generate(c) ==
  \/ /\ terminated
     /\ pc' = [pc EXCEPT ![c] = "unused"]
     /\ UNCHANGED <<streamers, instrs, stream, syncQueue, disturbed>>
  \/ /\ ~terminated
     /\ IF kind = "async" THEN GenerateAsync(c) ELSE GenerateSync(c)
     /\ pc' = [pc EXCEPT ![c] = "run"]
     /\ disturbed' = NowDisturbed(c)

\* _handle_chat_completion and _handle_completion: an echoed prompt is yielded
\* before anything is generated.
Start(c) ==
  /\ pc[c] = "idle"
  /\ \/ /\ req[c].echo
        /\ answer' = [answer EXCEPT ![c] = Accumulate(@, EchoResponse(req[c]))]
        /\ pc' = [pc EXCEPT ![c] = "echo"]
        /\ UNCHANGED <<streamers, instrs, stream, syncQueue, disturbed>>
     \/ /\ ~req[c].echo
        /\ Generate(c)
        /\ UNCHANGED answer
  /\ UNCHANGED <<kind, id, req, held, reasons, engine, made, outputs, ctrlVars>>

\* process_chat_completion_request and process_completion_request: a prompt that is
\* too long, an unsupported field or invalid messages raise BadRequestError.
Refuse(c) ==
  /\ pc[c] = "idle"
  /\ pc' = [pc EXCEPT ![c] = "unused"]
  /\ UNCHANGED <<kind, id, req, stream, held, reasons, answer, streamers, syncQueue,
                 engineVars, ctrlVars, disturbed>>

AfterEcho(c) ==
  /\ pc[c] = "echo"
  /\ Generate(c)
  /\ UNCHANGED <<kind, id, req, held, reasons, answer, engine, made, outputs, ctrlVars>>

-----------------------------------------------------------------------------
(* The threaded engine. *)

\* StreamBackErrorImpl: an end for every generation, also for those that have had
\* theirs, and a usage.
AbortOutput(c) == [id |-> id[c], call |-> c, final |-> TRUE,
                   outs |-> [g \in Gens(c) |-> Output(<<>>, "abort")]]

Abandon(c) ==
  [made EXCEPT ![c] =
     [g \in Gens(c) |-> [tokens |-> @[g].tokens, over |-> TRUE, again |-> @[g].again \/ @[g].over]]]

RunAdd ==
  /\ instrs # <<>> /\ Head(instrs).op = "add"
  /\ engine' = [engine EXCEPT ![Head(instrs).id] = Head(instrs).call]
  /\ instrs' = Tail(instrs)
  /\ UNCHANGED <<made, outputs>>

\* An unknown id is ignored.
RunAbort ==
  /\ instrs # <<>> /\ Head(instrs).op = "abort"
  /\ LET c == engine[Head(instrs).id] IN
       \/ c = None /\ UNCHANGED <<engine, outputs, made>>
       \/ /\ c # None
          /\ engine' = [engine EXCEPT ![id[c]] = None]
          /\ outputs' = Append(outputs, AbortOutput(c))
          /\ made' = Abandon(c)
  /\ instrs' = Tail(instrs)

\* Reset aborts all requests, one output list each.
RunReset ==
  /\ instrs # <<>> /\ Head(instrs).op = "reset"
  /\ \/ \E i \in Ids :
          /\ engine[i] # None
          /\ engine' = [engine EXCEPT ![i] = None]
          /\ outputs' = Append(outputs, AbortOutput(engine[i]))
          /\ made' = Abandon(engine[i])
          /\ UNCHANGED instrs
     \/ /\ \A i \in Ids : engine[i] = None
        /\ instrs' = Tail(instrs)
        /\ UNCHANGED <<engine, outputs, made>>

\* What a step may do to a generation: nothing, a token, a token and the end, or the
\* end alone (a stop token is not streamed).
Advance(m, move) ==
  [tokens |-> IF move \in {"token", "last"} THEN m.tokens + 1 ELSE m.tokens,
   over   |-> m.over \/ move \in {"last", "stop"},
   again  |-> m.again]

\* Fault: a generation that has ended goes on.
MovesAfterEnd(c, g) ==
  {"nothing"} \cup (IF made[c][g].tokens < req[c].max_tokens THEN {"last", "stop"} ELSE {"stop"})

Moves(c, g) ==
  IF made[c][g].over THEN {"nothing"}
  ELSE {"nothing", "stop"} \cup (IF made[c][g].tokens + 1 < req[c].max_tokens THEN {"token"} ELSE {})
                           \cup (IF made[c][g].tokens < req[c].max_tokens THEN {"last"} ELSE {})

Token(c, g, k) == [from |-> c, gen |-> g, pos |-> k]

EngineStep(i) ==
  /\ instrs = <<>> /\ engine[i] # None
  /\ LET c == engine[i] IN \E move \in [Gens(c) -> {"nothing", "token", "last", "stop"}] :
       /\ \A g \in Gens(c) : move[g] \in Moves(c, g)
       /\ \E g \in Gens(c) : move[g] # "nothing"
       /\ made' = [made EXCEPT ![c] = [g \in Gens(c) |-> Advance(@[g], move[g])]]
       /\ LET over == \A g \in Gens(c) : made'[c][g].over IN
            /\ outputs' = Append(outputs,
                 [id |-> i, call |-> c, final |-> over,
                  outs |-> [g \in Gens(c) |->
                     Output(IF move[g] \in {"token", "last"}
                            THEN <<Token(c, g, made[c][g].tokens + 1)>> ELSE <<>>,
                            IF move[g] \in {"last", "stop"} THEN "stop" ELSE NoReason)]])
            /\ engine' = [engine EXCEPT ![i] = IF over THEN None ELSE c]
  /\ UNCHANGED instrs

Engine ==
  /\ ~terminated
  /\ RunAdd \/ RunAbort \/ RunReset \/ \E i \in Ids : EngineStep(i)
  /\ UNCHANGED <<kind, callVars, streamers, syncQueue, ctrlVars, disturbed>>

-----------------------------------------------------------------------------
(* Callbacks and streams. *)

SmallerOf(a, b) == IF a < b THEN a ELSE b

\* What a text streamer of call c has to turn into text when it gets output g.
Pending(c, outs, g) == held[c][g] \o outs[g].text

\* Fault: finish of the text streamer is not called.
PutOnly(c, outs, g, keep) ==
  SubSeq(Pending(c, outs, g), 1, Len(Pending(c, outs, g)) - keep)

\* TextStreamer::Put returns all but the last tokens, which may be part of a
\* character, here `keep` of them; Finish returns these too.
Emitted(c, outs, g, keep) ==
  IF outs[g].reason # NoReason THEN Pending(c, outs, g)
  ELSE SubSeq(Pending(c, outs, g), 1, Len(Pending(c, outs, g)) - keep)

\* Fault: tokens that are kept back are forgotten.
NothingKept(c, outs, g, keep) == <<>>

\* pending_tokens_ after Put; Finish does not empty it.
Kept(c, outs, g, keep) ==
  SubSeq(Pending(c, outs, g), Len(Pending(c, outs, g)) - keep + 1, Len(Pending(c, outs, g)))

\* zip of the outputs with the text streamers of call c.
Zipped(c, outs) == 1..SmallerOf(Len(outs), req[c].n)

\* What the streamers may keep; put is not called without tokens.
Keeps(c, outs) ==
  {keep \in [Zipped(c, outs) -> 0..MaxHeld] :
     \A g \in Zipped(c, outs) :
       /\ keep[g] <= Len(Pending(c, outs, g))
       /\ outs[g].text = <<>> => keep[g] = Len(held[c][g])}

Detokenized(c, outs, keep) ==
  Chunk([g \in Zipped(c, outs) |-> Output(Emitted(c, outs, g, keep[g]), outs[g].reason)])

NewHeld(c, outs, keep) ==
  [held EXCEPT ![c] = [g \in Gens(c) |->
     IF g \in Zipped(c, outs) THEN Kept(c, outs, g, keep[g]) ELSE @[g]]]

\* Was finish of the text streamer of generation g called?
Finished(c, g) ==
  \/ reasons[c][g] # NoReason
  \/ \E j \in DOMAIN stream[c] :
       LET chunk == stream[c][j].chunk
       IN  g \in DOMAIN chunk.outputs /\ chunk.outputs[g].reason # NoReason

\* Put checks that finish was not called.
PutRaises(c, outs) == \E g \in Zipped(c, outs) : Finished(c, g) /\ outs[g].text # <<>>

\* Fault: the stream is not told that it has ended.
ItemsWithoutStop(chunk, final) ==
  <<ChunkItem(chunk)>> \o (IF final THEN <<ChunkItem(FinalChunk)>> ELSE <<>>)

\* What a batch adds to a stream: the chunk, and for the last one the usage and the end.
ItemsOf(chunk, final) ==
  <<ChunkItem(chunk)>> \o (IF final THEN <<ChunkItem(FinalChunk), StopItem>> ELSE <<>>)

PopFinished(i, final) == IF final THEN [streamers EXCEPT ![i] = None] ELSE streamers

\* _async_request_stream_callback_impl, run in the event loop.
AsyncCallback(out) ==
  /\ kind = "async"
  /\ \/ /\ streamers[out.id] = None
        /\ UNCHANGED <<stream, held, streamers>>
     \/ LET c == streamers[out.id] IN
        /\ c # None
        /\ \E keep \in Keeps(c, out.outs) :
             /\ stream' = [stream EXCEPT ![c] =
                             @ \o ItemsOf(Detokenized(c, out.outs, keep), out.final)]
             /\ held' = NewHeld(c, out.outs, keep)
        /\ streamers' = PopFinished(out.id, out.final)
  /\ UNCHANGED syncQueue

\* _sync_request_stream_callback, run in the stream-back thread.
SyncCallback(out) ==
  /\ kind = "sync"
  /\ syncQueue' = Append(syncQueue, out)
  /\ UNCHANGED <<stream, held, streamers>>

\* After exit_background_loop the stream-back thread does not deliver any more, but
\* callbacks that are scheduled in the event loop still run.
Deliver ==
  /\ outputs # <<>> /\ (terminated => kind = "async")
  /\ AsyncCallback(Head(outputs)) \/ SyncCallback(Head(outputs))
  /\ outputs' = Tail(outputs)
  /\ UNCHANGED <<kind, id, req, pc, reasons, answer, instrs, engine, made, ctrlVars, disturbed>>

-----------------------------------------------------------------------------
(* Aborting. *)

\* Fault: the engine is not told.
AbortSilently(i) == instrs

WithAbort(i) == Append(instrs, [op |-> "abort", id |-> i, call |-> None])

\* AsyncMLCEngine._abort, MLCEngine.abort.
DoAbort(i) ==
  /\ streamers' = IF kind = "async" THEN [streamers EXCEPT ![i] = None] ELSE streamers
  /\ instrs' = WithAbort(i)

\* MLCEngine._generate: take a list from the queue of the engine, whoever it is for.
\* An exception of a text streamer leaves the ErrorCleanupScope, which aborts.
SyncGet(c) ==
  /\ kind = "sync" /\ pc[c] = "run"
  /\ stream[c] = <<>> /\ syncQueue # <<>>
  /\ LET out == Head(syncQueue) IN
       \/ /\ ~PutRaises(c, out.outs)
          /\ \E keep \in Keeps(c, out.outs) :
               /\ stream' = [stream EXCEPT ![c] = ItemsOf(Detokenized(c, out.outs, keep), out.final)]
               /\ held' = NewHeld(c, out.outs, keep)
          /\ UNCHANGED <<pc, streamers, instrs>>
       \/ /\ PutRaises(c, out.outs)
          /\ pc' = [pc EXCEPT ![c] = "failed"]
          /\ DoAbort(id[c])
          /\ UNCHANGED <<stream, held>>
  /\ syncQueue' = Tail(syncQueue)
  /\ UNCHANGED <<kind, id, req, reasons, answer, engine, made, outputs, ctrlVars, disturbed>>

-----------------------------------------------------------------------------
(* The consumer of a call takes the next item of its stream. *)

\* The number of outputs is asserted to be n.
ConsumeChunk(c, chunk) ==
  \/ /\ chunk.final
     /\ answer' = [answer EXCEPT ![c] = Accumulate(@, FinalResponse(req[c]))]
     /\ UNCHANGED <<pc, reasons, streamers, instrs>>
  \/ /\ ~chunk.final /\ Len(chunk.outputs) = req[c].n
     /\ reasons' = [reasons EXCEPT ![c] = NewReasons(req[c], @, chunk.outputs)]
     /\ answer' = [answer EXCEPT ![c] =
                     Accumulate(@, ChunkResponse(req[c], reasons[c], chunk.outputs))]
     /\ UNCHANGED <<pc, streamers, instrs>>
  \/ /\ ~chunk.final /\ Len(chunk.outputs) # req[c].n
     /\ \/ /\ kind = "async"
           /\ pc' = [pc EXCEPT ![c] = "closing"]
           /\ UNCHANGED <<streamers, instrs>>
        \/ /\ kind = "sync"
           /\ pc' = [pc EXCEPT ![c] = "failed"]
           /\ DoAbort(id[c])
     /\ UNCHANGED <<reasons, answer>>

\* The end of the stream: suffix, final checks, function calls.
ConsumeStop(c) ==
  LET last == IF req[c].suffix
              THEN Accumulate(answer[c], SuffixResponse(req[c], reasons[c])) ELSE answer[c]
  IN  /\ \/ /\ EndChecksHold(req[c], reasons[c], last) /\ ~ParseRaises(req[c], last)
            /\ \E parsed \in [Gens(c) -> BOOLEAN] :
                 answer' = [answer EXCEPT ![c] =
                   [last EXCEPT !.reasons = FunctionReasons(req[c], last, parsed)]]
            /\ pc' = [pc EXCEPT ![c] = "done"]
         \/ /\ ~EndChecksHold(req[c], reasons[c], last) \/ ParseRaises(req[c], last)
            /\ pc' = [pc EXCEPT ![c] = "failed"]
            /\ UNCHANGED answer
      /\ UNCHANGED <<reasons, streamers, instrs>>

\* An exception in the stream leaves the ErrorCleanupScope, which aborts.
ConsumeError(c) ==
  /\ pc' = [pc EXCEPT ![c] = "failed"]
  /\ DoAbort(id[c])
  /\ UNCHANGED <<reasons, answer>>

Consume(c) ==
  /\ pc[c] = "run" /\ stream[c] # <<>>
  /\ stream' = [stream EXCEPT ![c] = Tail(@)]
  /\ LET item == Head(stream[c]) IN
       \/ item.kind = "chunk" /\ ConsumeChunk(c, item.chunk)
       \/ item.kind = "stop"  /\ ConsumeStop(c)
       \/ item.kind = "error" /\ ConsumeError(c)
  /\ UNCHANGED <<kind, id, req, held, syncQueue, engine, made, outputs, ctrlVars, disturbed>>

-----------------------------------------------------------------------------
(* A call is left before its end. *)

\* CancelledError while the coroutine waits for its stream (KeyboardInterrupt for
\* MLCEngine): the ErrorCleanupScope aborts at once.
Cancel(c) ==
  /\ pc[c] = "run" /\ stream[c] = <<>>
  /\ pc' = [pc EXCEPT ![c] = "closed"]
  /\ DoAbort(id[c])
  /\ UNCHANGED <<kind, id, req, stream, held, reasons, answer, syncQueue,
                 engine, made, outputs, ctrlVars, disturbed>>

\* The consumer stops between two responses: the client disconnected, a loop was
\* left, CancelledError was raised in the consumer.  The event loop closes an
\* asynchronous generator that is no longer referenced, later; a generator that has
\* echoed only has nothing to clean up.  A synchronous one is closed at once.
Drop(c) ==
  /\ \/ pc[c] = "run" /\ answer[c] # EmptyAnswer(req[c])
     \/ pc[c] = "echo"
  /\ \/ /\ kind = "async" /\ pc[c] = "run"
        /\ pc' = [pc EXCEPT ![c] = "closing"]
        /\ UNCHANGED <<streamers, instrs>>
     \/ /\ pc[c] = "echo"
        /\ pc' = [pc EXCEPT ![c] = "unused"]
        /\ UNCHANGED <<streamers, instrs>>
     \/ /\ kind = "sync" /\ pc[c] = "run"
        /\ pc' = [pc EXCEPT ![c] = "closed"]
        /\ DoAbort(id[c])
  /\ UNCHANGED <<kind, id, req, stream, held, reasons, answer, syncQueue,
                 engine, made, outputs, ctrlVars, disturbed>>

\* GeneratorExit reaches _generate.
Close(c) ==
  /\ pc[c] = "closing"
  /\ pc' = [pc EXCEPT ![c] = "closed"]
  /\ DoAbort(id[c])
  /\ UNCHANGED <<kind, id, req, stream, held, reasons, answer, syncQueue,
                 engine, made, outputs, ctrlVars, disturbed>>

-----------------------------------------------------------------------------
(* Control by the owner of the engine. *)

\* abort(request_id): the one who waits for the stream is not told (disturbed).
Abort(i) ==
  /\ control < MaxControl
  /\ control' = control + 1
  /\ DoAbort(i)
  /\ disturbed' = disturbed \cup ({streamers[i]} \ {None})
  /\ UNCHANGED <<kind, callVars, syncQueue, engine, made, outputs, terminated>>

Reset ==
  /\ control < MaxControl /\ ~terminated
  /\ control' = control + 1
  /\ instrs' = Append(instrs, [op |-> "reset", id |-> CHOOSE i \in Ids : TRUE, call |-> None])
  /\ UNCHANGED <<kind, callVars, streamers, syncQueue, engine, made, outputs, terminated, disturbed>>

\* terminate: both background threads are joined; nothing ends the calls.
Terminate ==
  /\ control < MaxControl /\ ~terminated
  /\ control' = control + 1 /\ terminated' = TRUE
  /\ UNCHANGED <<kind, callVars, streamers, syncQueue, engineVars, disturbed>>

Next ==
  \/ \E c \in Calls : \/ Start(c) \/ Refuse(c) \/ AfterEcho(c) \/ SyncGet(c)
                      \/ Consume(c) \/ Cancel(c) \/ Drop(c) \/ Close(c)
  \/ Engine \/ Deliver
  \/ \E i \in Ids : Abort(i)
  \/ Reset \/ Terminate

\* The event loop and the threads keep running; a consumer goes on or leaves.  The
\* engine serves every request: its steps are bounded by max_tokens.
Fairness ==
  /\ WF_vars(Engine) /\ WF_vars(Deliver)
  /\ \A c \in Calls : /\ WF_vars(AfterEcho(c)) /\ WF_vars(SyncGet(c))
                      /\ WF_vars(Consume(c)) /\ WF_vars(Close(c))

Spec == Init /\ [][Next]_vars

FairSpec == Spec /\ Fairness

-----------------------------------------------------------------------------
(* Properties. *)

TypeOK ==
  /\ [kind |-> kind, id |-> id, req |-> req] \in Scenarios
  /\ pc \in [Calls -> {"idle", "run"} \cup Unfinished \cup Ended]
  /\ streamers \in [Ids -> Calls \cup {None}]
  /\ engine \in [Ids -> Calls \cup {None}]
  /\ terminated \in BOOLEAN /\ control \in 0..MaxControl
  /\ disturbed \subseteq Calls
  /\ \A c \in Calls : /\ DOMAIN reasons[c] = Gens(c)
                      /\ \A g \in Gens(c) : made[c][g].tokens \in 0..req[c].max_tokens

Tokens(c, g, k) == [j \in 1..k |-> Token(c, g, j)]

\* The text of generation g of call c once k tokens of it have arrived.
TextUpTo(c, g, k) ==
  (IF req[c].echo THEN <<EchoToken>> ELSE <<>>) \o Tokens(c, g, k)
    \o (IF pc[c] = "done" /\ req[c].suffix THEN <<SuffixToken>> ELSE <<>>)

Quiet == Calls \ disturbed

\* Whatever other calls do (fail, are cancelled, dropped, reuse finished ids), and
\* however text is held back, a generation's text is its own tokens from the first on,
\* without gaps (TextStreamer, skipped empty deltas, zip by generation).  Left out are
\* the generations whose end was sent twice (made[c][g].again): finish of the text
\* streamer returns what it held back a second time.
TextsInOrder ==
  \A c \in Quiet : answer[c] # EmptyAnswer(req[c]) =>
    \A g \in Gens(c) : ~made[c][g].again =>
      \E k \in 0..made[c][g].tokens : answer[c].texts[g] = TextUpTo(c, g, k)

CompleteAnswer(c) ==
  /\ \A g \in Gens(c) :
       /\ made[c][g].over
       /\ ~made[c][g].again => answer[c].texts[g] = TextUpTo(c, g, made[c][g].tokens)
       /\ answer[c].reasons[g] # NoReason
  /\ answer[c].usage = IF ~req[c].stream \/ req[c].include_usage THEN 1 ELSE 0

\* A call that ends normally has every token the engine made for it, an end for every
\* generation, and the usage exactly when it is due.
CompleteWhenDone == \A c \in Quiet : pc[c] = "done" => CompleteAnswer(c)

\* A call that has reached the engine fails only for the text of a tool call: the
\* assertions on the finish reasons always hold.
EndChecksNeverFail ==
  \A c \in Quiet : pc[c] = "failed" => req[c].tools

\* Nothing trips the assertion that a chunk has one output for each generation, nor
\* the check in TextStreamer::Put that the streamer is not finished, both for
\* AsyncMLCEngine, where neither shows in how the call ends, and for MLCEngine.
AssertionsHold ==
  \A c \in Quiet : pc[c] = "run" =>
    /\ \A j \in DOMAIN stream[c] :
         LET item == stream[c][j]
         IN  item.kind = "chunk" /\ ~item.chunk.final => Len(item.chunk.outputs) = req[c].n
    /\ LET queue == IF kind = "async" THEN outputs ELSE syncQueue
       IN  queue # <<>> /\ (kind = "async" => streamers[Head(queue).id] = c) =>
             ~PutRaises(c, Head(queue).outs)

\* The two ways a call ends by itself, and what would end it otherwise.
EndsRight == CompleteWhenDone /\ EndChecksNeverFail /\ AssertionsHold

\* The table of streams holds only calls that still run and will take their entry out.
TableOwned ==
  \A i \in Ids : streamers[i] # None =>
    id[streamers[i]] = i /\ pc[streamers[i]] \in {"run", "closing"}

Listened(c) == IF kind = "async" THEN streamers[id[c]] = c ELSE pc[c] = "run"

\* The engine does not generate for nobody: a request it holds or is about to get has
\* a listener, or its abort is queued behind it.
NoOrphans ==
  \A c \in Quiet :
    LET i == id[c]
        abortAfter(p) == \E q \in DOMAIN instrs :
                            q > p /\ instrs[q].op = "abort" /\ instrs[q].id = i
    IN  /\ engine[i] = c => Listened(c) \/ abortAfter(0)
        /\ \A p \in DOMAIN instrs : instrs[p].op = "add" /\ instrs[p].call = c =>
              Listened(c) \/ abortAfter(p)

\* Calls, table and engine agree on who is served.
ServedAreListening == TypeOK /\ TableOwned /\ NoOrphans

\* Once a generation is reported as ended, no text follows for it (the text streamer
\* is flushed with the output that ends it), unless its end is sent twice.
NoTextAfterEnd ==
  [][\A c \in Quiet \cap (Calls \ disturbed') : \A g \in Gens(c) :
       answer[c].reasons[g] # NoReason /\ pc'[c] = "run" /\ ~made[c][g].again =>
         answer'[c].texts[g] = answer[c].texts[g]]_vars

\* Every call ends, unless the engine is terminated or the call was disturbed.
EveryCallEnds ==
  \A c \in Calls : pc[c] \in Unfinished ~> (pc[c] \in Ended \/ terminated \/ c \in disturbed)

\* What the REST documentation lets a client expect of its field `user`: every call
\* that ends normally has its own complete answer, whoever uses the same value.
AnswersAreOwn == \A c \in Calls : pc[c] = "done" => CompleteAnswer(c)
=============================================================================
