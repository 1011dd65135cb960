# A TLA+ model of MLC LLM

MLC LLM compiles language models and serves them.  This directory models the
program's own logic, checks it with TLC on small instances and proves its central
invariants with TLAPS:

* the serving engine in `src/cpp/serve`: one thread that batches requests, shares
  KV-cache prefixes, preempts, aborts and speculates, behind a threaded wrapper;
* the Python engines, HTTP handlers and router in front of it;
* the path of a model to its workers: configuration, conversion, sharding,
  pipeline stages, download, compilation, loading, and the model wrapper that calls
  the compiled functions.

Kernels and the arithmetic of layers are not modelled: a tensor is represented by
what it is computed from.

## 1. Inventory

| component | state it keeps | operations | interacts with |
|---|---|---|---|
| Engine (`engine.cc`, `engine_state.*`, `request_state.*`) | waiting and running queue, request states (a tree of entries), id manager, cached list of running entries | AddRequest, AbortRequest, Reset, Step | runs the actions in order; called by ThreadedEngine |
| Prefill, decode, post-process (`batch_prefill_base.cc`, `new_request_prefill.cc`, `batch_decode.cc`, `action_commons.cc`) | none | select, activate, sample, preempt, finish | queues, prefix cache, KV cache, stream callback |
| Speculative decoding (`batch_draft.cc`, `batch_verify.cc`, `eagle_*.cc`, `auto_spec_decode.cc`, `draft_token_workspace_manager.*`) | drafts, reference-counted slots, a second KV cache | draft, verify, roll back, catch up | KV caches, preemption |
| Prefix cache, id manager (`prefix_cache.*`, `engine_state.h`) | sequence states, two LRU maps, uncommitted extensions held by reference; free ids | Insert, Extend, CommitSequenceExtention, RollBack, Recycle, TryFreeMemory, Reset | radix tree; remove callback into models and id manager |
| Paged radix tree (`radix_tree.*`) | pages in a pool, children and sequence lists | Add, Fork, Extend, RollBack, Remove, MatchPrefix, Reset | prefix cache |
| ThreadedEngine (`threaded_engine.*`) | instruction and output queue, two mutexes, three condition variables, flags | AddRequest, AbortRequest, Reload, Unload, Reset, exit; two background loops | caller threads, engine thread, stream-back thread |
| Python engines, HTTP handlers (`serve/engine.py`, `engine_base.py`, `engine_utils.py`, `entrypoints/`) | table of streams, one queue, text streamers | create methods, abort, reset, terminate, callbacks across threads | ThreadedEngine, clients |
| Router, disaggregation (`router.py`, `popen_server.py`, `disagg_*.cc`) | load counters, server processes, reserved sequences | choose, prepare, remote send, generate, retry, start, terminate | several engines |
| Weight conversion and loading (`convert_weight.py`, `huggingface_loader.py`, `preshard.py`, `multi_gpu_loader.cc`, the families' loaders) | cached files, converted records, shards of each worker | load, quantize, shard, broadcast, scatter, send, receive | model definitions, compiler |
| Model definitions (`python/mlc_llm/model`) | configuration, layers, exported functions | prefill, decode, verify, embed | wrapper, loader, compiler |
| Model and library caches (`download_cache.py`, `jit.py`, `compile.py`, `config.cc`) | directories and files shared by processes | download, move, compile, store, load, infer limits | engine creation |
| Model wrapper, embedding engine (`model.cc`, `embedding_engine.py`) | sequences, prefilled ids, rotary deltas, recurrent states | Batch* calls, Add, Fork, Remove, PopN, Reset, Embed | engine actions, compiled functions |
| Jump-forward, stop strings, tokenizers, samplers, metrics, JSON FFI, command line, kernels, templates, benchmarks, apps | – | – | not modelled, section 6 |

What is hard here, and what makes it correct:

* *Ids shared by four structures.*  Queues, prefix cache, id manager and KV cache
  change in one handler and must agree after it, over long legal sequences of add,
  match, preempt, finish, abort and evict.  No sequence belongs to two requests;
  what the cache says of a sequence is what the KV cache holds; every token enters
  the KV cache once; no internal check fails; every request ends.
* *Two KV caches with one truth.*  A verification accepts some drafts; the caches
  of the main and the draft model must forget different numbers of tokens.
  Speculation must change nothing but speed.
* *Condition variables and callbacks across threads.*  No wakeup or output is lost,
  calls return, texts come out in order and end once.
* *Cancellation at any await and retries under the same id.*  Answers reach the call
  that asked, load counters and reservations are right, no process is left over.
* *Several workers and several processes.*  Senders and receivers are paired by
  order only; each worker ends with its shard of every parameter; caches never
  show a partial model or a library for other limits.
* *Thirty-odd families written separately.*  Each has to shard what it reduces and
  return the rows that were asked for, with every token seeing the right context at
  the right positions.

## 2. Modules

| module | models | state | actions |
|---|---|---|---|
| `PrefixCache` | `prefix_cache.cc`, id manager, KV cache as tokens per sequence | operators on one record | – |
| `PrefixCacheClient` | the engine as the prefix cache sees it, with or without Eagle | `cache`, `buf` (token buffers that extensions refer to), `ents`, `eagle` | AddRequest, MatchPrefixCache, EagleMatchPrefixCache, RunBatch, Finish, FinishPinned, Preempt, Abort, FreeMemory, Reset |
| `SequenceStore` | what the radix tree promises: a map from ids to sequences | `seqs` | one per operation |
| `RadixTree` | `radix_tree.cc`; implements `SequenceStore` | `tree` | the same |
| `Engine` | queues, entries, prefill, decode, preemption, post-process | `config`, `es`, `ends` | AddRequest, AbortRequest, Reset, Prefill, Decode |
| `Speculation` | speculative decoding in all its modes | `config`, `es` | AddRequest, AbortRequest, Prefill, Decode |
| `ThreadedEngine` | `threaded_engine.cc` | queues, flags, program counters | one per critical section, notification or instruction |
| `Responses` | what the Python engines make of a stream of outputs | operators | – |
| `Frontend` | `AsyncMLCEngine`, `MLCEngine`, the handlers, composed with an abstract engine; extends `Responses` | table, streams, queues, engine | call, cancel, drop, deliver, consume, close, abort, reset, terminate |
| `Router` | `router.py`, `popen_server.py`, microserving endpoints, disaggregated engines | request program counters, loads, reservations, processes | start, poll, choose, prepare, send, generate, preempt, fail, cancel, terminate |
| `TensorParallel` | `ShardSingleDim`, group quantization layouts, regrouping of fused tensors | operators | – |
| `ModelLayers`, `ModelFamilies` | the parameters and reductions of each family's layers, and its loader | operators | – |
| `StageFunctions` | `pipeline_parallel_rewrite.py` | operators | – |
| `WeightPipeline` | conversion, presharding, metadata, multi-GPU loading; extends the four above | records, caches, each worker's position | Convert, Compile, Load steps per worker, Send, Receive |
| `ModelConfigs` | configuration classes, overrides, `gen_config` | operators | – |
| `ModelEntries` | the exported functions and caches of each family | operators | – |
| `Deployment` | download cache, JIT, engine limits, for several processes; extends both above | `home`, `libs`, program counters | GetModel, Clone, DownloadFile, CheckMove, Move, CopyFile, Jit, Compile, Store, Load, Crash |
| `ModelServing` | `model.cc`, recurrent states, `embedding_engine.py`; extends `Deployment` | `seqs`, `prefilled`, `delta`, `onDevice`, `consumed`, `result` | BatchPrefill, M-RoPE prefill, BatchDecode, BatchVerify and their hidden-state forms, AddNewSequence, ForkSequence, RemoveSequence, PopNFromKVCache, Reset, EmbedInputs |
| `PrefixCacheProofs`, `PrefixCacheTokens`, `ThreadedEngineProofs`, `RouterProofs`, `WeightPipelineProofs`, `DeploymentProofs`, `FrontendProofs`, `FrontendTexts` | – | – | theorems |
| `MC*` | constants for TLC | – | – |

Definitions marked "fault" are deliberate mistakes: each replaces the definition
below it in a mutant of `PROJECT.json` and must then break a property.

Choices of the abstraction.  `PrefixCacheClient` has the tokens and abstracts the
scheduling (any batch of alive entries may run); `Engine` has the scheduling and
counts tokens, with the prefix cache disabled; `ThreadedEngine` reduces the engine
to the requests it holds and the outputs it sends, `Frontend` and `Router` reduce
it further.  A sampled token is any token.  The iteration order of an
`unordered_map` is any order.  A critical section is one step because all accesses
hold the same mutex, except where the code reads a flag without it (two steps).  A
coroutine of one event loop runs to its next await.

In `Speculation` a token is named by the position it is right for, so the answer
that the main model would give alone is 1, 2, 3, ...; a wrong draft is 0 and
anything computed after a wrong text is -1.  Which drafts turn out right is chosen
when they are proposed, and all choices are considered.  A step is atomic because
drafts are proposed and verified in the same `Engine::Step`.

In `TensorParallel`, `ModelLayers` and `WeightPipeline` a tensor is seen along the
dimension that is divided, as a sequence of heads or channels of named projections.
In `ModelServing` a row of a result is the set of tokens it was computed from,
with their positions, as each worker sees them.

## 3. The runs

| run | question | result |
|---|---|---|
| `prefix_ids` | maps, LRU, ids, ownership, KV steps through all actions, preemption included, with one recycling sequence | holds |
| `prefix_long` | cache content = KV content, prompts continue where the sequence ends, one token is left to prefill; prompts of eleven tokens so that reuse with roll back (more than 90 % kept) happens; plain and Eagle | holds without preemption |
| `radix_trees` | longest match, page accounting, refinement of `SequenceStore` | holds |
| `engine` | queues, ids, pages, checks, KV lengths, batches, order of service, termination; chunking, preemption and aborts in one configuration, two generations in the other | holds |
| `speculation` | answers, both KV caches, checks and slots, in five configurations | holds |
| `threaded` | wakeups, outputs, returning calls, ending requests | holds |
| `threaded_exit` | both threads exit | violated: a lost wakeup |
| `frontend` | order and end of texts, no failing assertion in handlers and text streamers, listeners of everything served, every call ends | holds; texts of generations ended twice are exempt (section 5) |
| `frontend_user` | an answer belongs to its call, for two streams with the same `user` | violated: outputs of a cancelled call reach the next |
| `router` | loads, moved KV, reservations, complete answers, no stray servers, everything ends | holds for what is not named in section 7 |
| `weights` | each worker holds its shard of a complete model, files loaded once, loading proceeds | holds for the listed families and sizes |
| `serving` | caches stay whole through crashes and concurrent processes, engines fit their library, results are computed from the right context | holds |

The violated runs are disagreements between the code and what its comments,
assertions or callers say; `PROJECT.json` quotes them under `findings`.

### Bounds and why they are enough

* Prefix cache: two entries are what sharing, reuse and forking need; three ids
  allow one active, one recycling and one new sequence; `MaxCounter` bounds finished
  sequences, which is what fills the recycling limit of one.  `prefix_ids` uses one
  token value because ownership does not depend on tokens.  Entries are
  interchangeable, so `EntrySymmetry` is sound.
* Radix tree: three sequences, pages of two tokens, sequences and extensions of up
  to three reach every branch: splits, merges with parent and child, removal of
  chains, roll back inside a page, to a boundary and to nothing, a new block.  The
  view forgets page names, list order and the number of free pages, on which no
  result depends; `MaxLost` bounds only when `Reset` is taken.
* Engine: three requests of which two fit and whose answers outgrow ten pages of
  four tokens: chunking, waiting, preemption and restart all happen.
* Speculation: two requests; two drafts at a time, a tree of two by two, the
  automatic length (four drafts for one request, none for two, so that the draft
  model falls behind and catches up).  KV caches are smaller than two answers, so
  every mode preempts.
* Threads: one request of two steps, one owner and one other client, two control
  calls, one spurious wakeup.
* Frontend: two calls, with distinct or equal ids, streaming, echoing, two
  generations, tools; up to two tokens held back by a streamer; one control call.  Two
  generations and a reset are what it takes to end a generation twice.
* Router: three servers (one with two workers), two requests, one preemption, one
  fault, the balance factor at 0, one half and 1.
* Weights: every family on one worker and two, quantized or not; sizes that divide
  and that do not; presharding; two and three stages with layers that do not divide;
  checkpoints of two to seven tensors a file.
* Serving: every family, with two sequences of two to four inputs, images where a
  family has them; for the caches two models, six engine configurations for each of two
  processes, all policies, a crash, three processes; also two processes, a crash or REDO
  with the temporary directory on another filesystem, where only what does not depend on
  the copy is promised.

`CHECK_DEADLOCK FALSE` is set where the system may stop: all bounded requests are
over, or all threads and processes wait for a call.

### Fairness

* `Engine`: the background loop calls `Step` again and again while the engine is not
  empty, so a step that can do something is eventually taken (weak fairness of `Step`,
  written with the predicate `CanStep` for its enabledness).  Nothing is assumed of
  arrivals or aborts.
* `ThreadedEngine`: weak fairness of each thread's own steps, that is of the
  scheduler.  No thread has to make a call.  Spurious wakeups are bounded, because
  unbounded ones could keep the stream-back mutex busy forever, which no fairness of
  the code excludes.
* `Frontend`: the engine, the delivery of callbacks (`call_soon_threadsafe`) and
  consumers that are not cancelled go on.
* `Router`: server processes, coroutines with an answer and polls go on; a request to a
  server that is gone fails in the end.
* `WeightPipeline` needs none: `LoadingProceeds` says that in every state of loading
  some worker can go on, which is also proved.

## 4. The proofs

`PrefixCacheProofs` (for all entries, prompts, tokens, window settings, limits and
bounds, with and without Eagle; assumptions: `PromptAssumption` and those of
`PrefixCache`): `TypeCorrect`, `OwnershipIsSound` and `RecyclingIsSound`, from one
inductive invariant `IInv`.  Ownership alone is not inductive: an evicted or removed
sequence gives its id back through the remove callback, so one has to know at the
same time that the state map covers the tree, that the LRU maps are inverse on the
recycling sequences (what is evicted is recycling, hence nobody's), that the
available ids are distinct, below the counter and not in the tree, and that
uncommitted extensions are of active sequences.  `Good...` predicates state this of
one cache record; a lemma per operation (`GetNewIdFacts` ... `InsertFacts`) shows
what it keeps and what it does to the ids; a lemma per action combines them.

`PrefixCacheTokens` (the same constants; assumptions: also `ChunkAssumption` and
`BoundsAssumption`, that chunks and batches are natural numbers): what the sequences
hold.  The cache notes an extension by a reference to a token buffer and applies it at
its next call, so what it believes of a sequence is defined by a fold over the pending
extensions.  The invariant `TInv` says that the KV cache of a sequence is no longer than
what is believed, and equal to it when nothing is ever preempted; it is kept only
because no two pending extensions are of one sequence and all are applied before a
buffer is refilled, which are parts of it (`PendingRight`, `BuffersRight`), as is the
relation of an entry's inputs, counters and committed tokens (`EntryRight`).
`CacheIsTrue` and `PrefillContinues` assume `~Preempts`: a preempted entry reports its
committed tokens again (section 7), and the properties are false then.  What is left
with preemptions, a KV cache that is never ahead of the belief, is what
`KvStepsAreRight` needs for tail forks; it assumes `~AllowNonTailForks` and no Eagle,
whose match rolls a fork back by one.  `MatchesLeaveInput` and `RunningKvIsKept` need no
such assumption.

Its first lemmas make the induction possible: a property of numbers is given as a set
of numbers, so no operator has to be instantiated, and a function defined by
recursion is shown to exist and to satisfy its equation (`IteratedExists`).

`ThreadedEngineProofs` (for all clients, requests and bounds; assumption:
`ThreadsAssumption`):

* `WakeupsAreNotLost`, from two independent invariants.  Each needs the link between the
  sleeping thread and the flag that the other side reads in its critical section; the
  one of the stream-back thread also needs that the mutex is held from the predicate to
  the sleep.  The lost wakeup at exit is where this argument has no counterpart:
  `exit_now_` is not guarded by that mutex.
* `OutputsAreNotLost`: the batches delivered, those in the hands of the stream-back
  thread, those in the queue and those in the hands of the background thread, in this
  order, are the batches emitted.
* `EngineIsThere`: the order of one client's instructions through the queue, and through
  the part of it that the background thread has taken, keeps requests between a reload
  and the next unload.  It assumes that only the owner adds requests
  (`Adders \subseteq {Owner}`); with other adders it is false (section 7).

`RouterProofs` (for all servers, GPUs, requests and bounds; assumption:
`RouterAssumption`): `ServersAreTerminated` needs that a started thread has appended its
server and that all threads were joined before the router serves (`LaunchInv`).
`LoadIsCounted` counts the requests at each server, those left by an uncaught exception included
(`LoadInv`).  `KvIsMovedRight` and `ReservationsAreOwned` rest on `FlowInv`, which says
for each request what every handler and engine holds at each point of its coroutine: the
checks of one server depend on what the router asked of another before, and the
receiver it names must be a worker of the server it picked (`RankIsOwned`: the ranks
after `DeviceIdStart` of different servers are disjoint).
`AnswersAreComplete` adds what was received of the present attempt (`AnswerInv`).

`WeightPipelineProofs` (for every configuration that satisfies `ConfigsAssumption`,
with any number of groups and workers): `PiecesAreRight` and `LoadingNeverBlocks`, from
`PipelineInv`.  A worker files what it gets under the name of the record it has reached
by itself, so one has to know that positions agree: a worker has passed, of the records
of its group, exactly those that worker 0 has handed on, but for the one its first
worker holds (`HandedOn`, `FullRight`).  That a name stands for one record comes from the
conversion (`CacheRight`).

`DeploymentProofs` (for every set of machines, shards and processes; the assumption
`InstancesAssumption` only gives types): `CachesAreWhole`, whose statement has the
condition `Undisturbed`: caches and temporary files on one filesystem, any number of
processes and crashes, REDO only by a process that is alone; or any machine with a
single process that does not crash.  The code guarantees neither, since
`constants.py:80` leaves the temporary directory to the system; the other machines are
in the model and in the run, and section 7 says what happens there.  It follows from
`DeploymentInv`: what exists and is not being copied into is complete, what is renamed
is a complete download, and who copies is alone.

`FrontendProofs` (for all finite sets of calls, all ids and requests; assumption:
`FrontendAssumption`): `ListenersAreServed`, from `ServingInv`.  An output is handed to
whoever listens under its id, or takes from the common queue, so one has to know that
what an undisturbed call is handed is its own.  This is shown by counting: of the calls
that can take each other's outputs, no more are known to the engine than wait for an end
(`EndsSuffice`), and of those of an undisturbed call it is the only one that may wait
(`QuietAlone`).  The rest says that a call passes through queue, engine and outputs once
(`InOrder`), that the end of an undisturbed call which still runs is on its way
(`EndComes`), and that a call in the table has not been told its end (`TableOpen`).

`FrontendTexts` (the same constants and assumption): `TextsAreInOrder`, `CallsEndRight`
and `NothingAfterTheEnd`, from `TextInv`, which is `ServingInv` and a predicate of each
call.  Of an undisturbed call that runs, the text its consumer has, the chunks in its
stream, the tokens its text streamers hold back and the outputs on their way are, in
this order, the tokens made for each generation (`Flow`); what a text streamer keeps
depends on the text, so the boundary between two of these is any place in the tokens
(`Chain`).  What a streamer still holds after its `finish` is not due any more (`Due`),
and behind an end no text and, unless it was sent twice, no second end is on its way
(`Once`): so `put` never follows `finish`, and `Flow` is claimed of the generations that
were not ended twice (`again`).  An end that the engine reached has been reported, or is
in the stream or on its way (`Told`), and everything is over once a final output has been emitted
(`AllOver`), so the stop of a stream finds every generation reported (`StopAtEnd`): the
assertions of the handlers hold (`AssertionsHold` states them where they are evaluated,
since a failing one would end a call of `AsyncMLCEngine` as if it were closed).  A
text behind an end would lie between the last token and itself.  That the chunks a call
gets are its own is `TakerIsOwner`, from `ServingInv`.

Only model-checked, with TLC:

* liveness (as is `ENABLED`): `LoadingProceeds` is a state predicate and therefore proved;
* the radix tree and its refinement of `SequenceStore`: the search down the tree is a
  recursive operator, which the prover cannot use;
* `Engine` and `Speculation`: a step is a composition of folds over batches, whose
  accumulator is the whole engine state (`FoldLeft` with an operator argument, which
  the provers cannot unfold);
* `ModelComplete`, `LoadedOnce`, `LoadsWhenAllowed`, `EngineFits` and `ResultsRight`:
  statements about each family, decided by evaluating its definitions.

## 5. Restrictions inside the modelled parts

* Engine: no grammars, stop strings, debug calls, bursts of decode steps (off by
  default), retokenization, sliding windows or images; a request is added once; its
  liveness needs prompts that stay below the watermark.
* Speculation: one answer per request, no prefix cache (its Eagle match is in
  `PrefixCacheClient`), no lag longer than a prefill chunk, no aborts in Eagle and
  Medusa modes, and for these a chunk that holds all waiting prompts.
* Threads: a failing engine creation, and callers other than the owner that add
  requests across an unload, are left out.
* Frontend: texts are counted tokens; log probabilities and JSON are left out.  Calls
  that an external abort or a second call with the same id disturbed (in `MLCEngine` a
  second call while one has not run to its end) are listed in `disturbed` and promised
  nothing.  A reset disturbs no call: it ends every generation of every request with an
  output of its own.  A generation that had ended before is ended a second time by it,
  which `made[c][g].again` records; its text is exempt from `TextsInOrder`, `EndsRight`
  and `NoTextAfterEnd` (its reasons, its usage and the other generations are not), because
  the code repeats what was held back (section 7).
* Router: a handler that comes back after its request was answered, and terminating
  while requests are under way, are left out.
* Weights: `qwen2_5_vl` is not registered; exporter and parameter order are external;
  families that divide wrongly are left out at two workers (section 7).
* Serving: the environment switches of `qwen3_5` (direct state, packed decode; off by
  default), padding factors above 1 and pipeline stages are left out; images only
  with one worker.  Families whose decode, or whose prefill, is right for one sequence
  only run with `max_num_sequence` 1 (section 7).  The Medusa heads fail to load by
  design, as their chunk size is -1.

## 6. Not modelled

Jump-forward decoding and the stop-string matcher are planned; which tokens a text
streamer holds back is a free choice in `Frontend`, their decoding is left out.  Samplers, logit
processors, kernels and layers are arithmetic.  Tokenizers wrap a library.  Metrics are
read by nobody who decides anything.  The JSON FFI engine, the synchronous engine, the
command line, packaging, benchmarks and the applications are sequential code around what
is modelled; templates are tables of text.

## 7. Deviations seen while modelling

The runs hold under the restrictions above; these are the behaviours behind them.

Prefix cache and radix tree:

* after a preemption the cache is told the committed tokens twice (as inputs and as
  committed tokens), so `CacheMatchesKv` needs `Preempts = FALSE`;
* `TryFreeMemory` (`prefix_cache.cc:237`) evicts `begin()` of an unordered map, not the
  oldest sequence as `prefix_cache.h:102` says;
* `RadixPagePool::Reset` loses the pages in use;
* reuse with roll back ignores `allow_non_tail_forks_`;
* in the fork branch of the Eagle match (`eagle_new_request_prefill.cc:444`)
  `prefilled_offset` is not decremented: `PrefillContinuesKv` fails without its guard
  for Eagle.

Engine:

* aborting a request one of whose generations has finished frees that generation's id
  twice; a generation that cannot be forked at once has its first token processed twice;
* a preempted generation that is not the last of its request is in no queue;
* an accepted prompt within eight tokens of `max_total_sequence_length` is never
  prefilled, and if it is chunked it ends in a failing decode check;
* a second request with the id of a live one (`engine.cc:729`) keeps the old state;
* a burst of decode steps follows a page check for one step.

Speculative decoding:

* `PrefillLaggedTokensByChunk` commits `committed_tokens[j - 1]` for the whole lag, while
  `lengths` holds the part that fits: the draft model gets a duplicate and misses
  tokens, and verification feeds its last token to the main model;
* `AbortRequestImpl` frees no draft slots: Eagle and Medusa lose them until
  `AllocSlots` fails its check;
* a chunked prompt in Eagle or Medusa mode, also one cut by the chunk behind another
  prompt, has a reuse count of 0, which `AllocSlots` refuses;
* `spec_tree_width` is not in the batch limit `n * (length + 1)`, so trees can exceed the
  check on `total_verify_length`; a fixed length of `max_num_sequence` or more leaves an
  empty batch; a draft as long as a page needs a page more than is counted; with an
  automatic length the pages for catching up are not counted.

Threads:

* `exit_now_` is set without the stream-back mutex (run `threaded_exit`);
* `notify_one` on a variable shared by callers of Reload and Unload may wake the wrong
  one (`threaded_engine.cc:297`); a failing `Engine::Create` leaves its caller waiting
  (`:287`); a request created before an unload and added after it fails a check.

Python engines:

* `TextStreamerObj::Finish` (`streamer.cc:123`) leaves `pending_tokens_` as it is: a reset
  sends a finish reason for all generations (`engine.cc:90`), also those that have ended,
  and `engine_base.py:537` calls `finish` again, which repeats the held text after the
  reported end: TLC finds it after nine steps when the condition
  `~made[c][g].again` is taken out of `NoTextAfterEnd`;
* outputs of a cancelled call reach the next with the same id (run `frontend_user`);
  a second call with a live id aborts the first; an external `abort` or `terminate`
  leaves consumers waiting; `MLCEngine` reads what an early closed generator left in its
  queue; an aborted call with tools runs into an IndexError.

Router:

* a load counter is not decremented after a preemption or cancellation, nor, in
  round-robin mode, after an error; chunks of a preempted attempt are repeated to the
  client; a reserved sequence is lost when the router gives up between prepare and
  generate; `PopenServer.start` returns silently at its time-out, because its attempts
  end at 120.1 and not 120 seconds; exceptions of the start threads are lost.

Weights (at two workers unless said otherwise):

* `chatglm` divides its fused MLP without segments, `llama4` divides its router;
  `qwen3`, `qwen3_moe` and `internlm2` with biases add the output bias on every worker;
  parallel residuals of `gpt_neox` are not reduced; the output bias strategy of
  `internlm` and `starcoder2` does not fit; `deepseek` and `nemotron` fail;
* quantization groups of experts may be misaligned unnoticed; several families do not
  check that key-value heads divide; a sorted index loads a file twice;
* `_set_pp` rounds layers per stage down and `layer_partition` up; the quantized
  parameters of `group_quantization.py:355` do not inherit `pipeline_stages`, so a
  quantized model with several stages runs into the assertion of `compile.py:86` (in
  `Compiles`, and in the run's configurations);
* `LoadMultiGPUPresharded` does not check `num_shards`; LLaVA does not hand
  `tensor_parallel_shards` to its text model.

Caches and configuration:

* a move across filesystems is a copy, and `constants.py:80` leaves the place of the
  temporary directory to the system: a crash leaves a partial directory that is taken
  for downloaded, and another process may see a partial library; with REDO a process
  takes away the directory that another one uses (all in the model; `Undisturbed` says
  where `CachesWhole` promises nothing); the loser of two
  concurrent downloads fails or leaves a stray copy;
* the key of a library is computed from the merged configuration, which is resolved
  again at compilation: a hand-edited chunk above the window with an overridden window
  gives two libraries one key;
* a chunk above the window leaves the engine's chunk above the library's; a library given
  by path does not limit the engine.

Model wrapper and families:

* `gpt2`, `gpt_bigcode` and `qwen3_5` ask for query positions with `shape[1]`, so a decode
  of several sequences uses the position of the first;
* `rwkv5`, `rwkv6` and the recurrent layers of `qwen3_5` handle one sequence per prefill,
  which the engine does not ensure; their history of 1 makes every roll back fail;
* M-RoPE lengths are not advanced by decodes, and forks before an image copy its delta;
* `DisaggPrepareKVRecv` does not mark the sequence as prefilled, which MLA models need;
* the embedding engine skips empty inputs, so fewer embeddings than inputs come back.

## 8. Plan

Done: the engine core with prefix cache, radix tree, threads and their proofs;
speculative decoding; the Python front ends and the router; weights, deployment and the
model wrapper; theorems about tokens in the prefix cache, threads, front ends, router,
loading and caches.  Next, in this order:

1. the folds of the engine's step as recursive functions, so that queues and KV lengths
   can be proved about with the induction of `PrefixCacheTokens`;
2. the draft slots of `Speculation` as a theorem for any batch;
3. jump-forward decoding, and the stop-string matcher against a reference definition;
4. several answers per request in `Speculation`.
