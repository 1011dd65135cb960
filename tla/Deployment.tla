----------------------------- MODULE Deployment -----------------------------
(***************************************************************************)
(* How an engine comes to serve a model: several processes of one machine  *)
(* download its weights into a shared cache (support/download_cache.py),   *)
(* compile its library or find it in another one (interface/jit.py,         *)
(* interface/compile.py), and infer the limits of their engine from both   *)
(* (cpp/serve/config.cc).  A process may crash and be started again.       *)
(*                                                                         *)
(* An instance of Instances is a machine: the model and its source, the     *)
(* policies of the caches, and one engine configuration for each process,   *)
(* a function of the names that are given.                                  *)
(***************************************************************************)
EXTENDS ModelEntries

CONSTANTS Instances, \* the machines considered
          Shards     \* the weight files of a model

\* Any number of processes and crashes, with the temporary directory and the caches
\* on one file system or on two (MLC_TEMP_DIR, MLC_LLM_HOME).
ASSUME InstancesAssumption ==
  \A m \in Instances : m.same_fs \in BOOLEAN /\ m.there \in BOOLEAN /\ m.crashes \in Nat

VARIABLES inst,   \* the machine
          chat,   \* the model's mlc-chat-config.json
          pc,     \* pc[p]: what process p does next
          part,   \* part[p]: the files in its temporary directory
          seen,   \* seen[p]: the cache directory was there when the move began
          dir,    \* dir[p]: the directory of the model
          home,   \* the directory of the model in the cache
          libs,   \* the cached libraries by their key
          lib,    \* lib[p]: the library of p
          engine, \* engine[p]: the engine of p
          crashes \* how often a process crashed

deployment == <<inst, chat, pc, part, seen, dir, home, libs, lib, engine, crashes>>

LOCAL Least(S) == CHOOSE x \in S : \A y \in S : x <= y
Procs == DOMAIN inst.engines
Files == {"config"} \cup Shards

-----------------------------------------------------------------------------
(* Downloading *)

Fail(p) == pc' = [pc EXCEPT ![p] = "failed"] /\ part' = [part EXCEPT ![p] = {}]
Goto(p, label) == pc' = [pc EXCEPT ![p] = label]

\* get_or_download_model: a directory or a read-only cache is used as it is, and so
\* is the cache's directory if it exists, whatever is in it.  REDO deletes it first,
\* here at once, whoever uses it.
GetModel(p) ==
  /\ pc[p] = "start"
  /\ UNCHANGED <<part, seen, libs, lib>>
  /\ CASE ~inst.url \/ (inst.download # "OFF" /\ inst.readonly) ->
            Goto(p, "jit") /\ dir' = [dir EXCEPT ![p] = "given"] /\ UNCHANGED home
       [] inst.url /\ inst.download = "OFF" -> Goto(p, "failed") /\ UNCHANGED <<dir, home>>
       [] OTHER ->
            LET redo == inst.download = "REDO"
            IN  /\ home' = IF redo THEN [exists |-> FALSE, files |-> {}, stray |-> FALSE] ELSE home
                /\ dir' = [dir EXCEPT ![p] = "home"]
                /\ Goto(p, IF home.exists /\ ~redo THEN "jit"
                           ELSE IF inst.download = "READONLY" THEN "failed" ELSE "clone")

\* git_clone and git_lfs_pull: everything but the weights.
Clone(p) ==
  /\ pc[p] = "clone"
  /\ \/ Goto(p, "shards") /\ part' = [part EXCEPT ![p] = {"config"}]
     \/ Fail(p)
  /\ UNCHANGED <<seen, dir, home, libs, lib>>

\* download_file, in one of the worker processes; a wrong checksum is an error.
DownloadFile(p) ==
  /\ pc[p] = "shards"
  /\ \E s \in Shards \ part[p] :
       \/ part' = [part EXCEPT ![p] = @ \cup {s}] /\ UNCHANGED pc
       \/ Fail(p)
  /\ UNCHANGED <<seen, dir, home, libs, lib>>

\* shutil.move looks whether its destination is a directory ...
CheckMove(p) ==
  /\ pc[p] = "shards" /\ Shards \subseteq part[p]
  /\ seen' = [seen EXCEPT ![p] = home.exists]
  /\ IF home.exists /\ home.stray THEN Fail(p) ELSE Goto(p, "move") /\ UNCHANGED part
  /\ UNCHANGED <<dir, home, libs, lib>>

\* fault: the files come one by one into the directory
MoveFiles(p) ==
  /\ pc[p] = "move" /\ ~home.exists
  /\ home' = [exists |-> TRUE, files |-> {}, stray |-> FALSE] /\ Goto(p, "copy")
  /\ UNCHANGED <<part, seen, dir, libs, lib>>
\* ... and renames the source: into that directory if there was one (which it makes
\* if it is gone meanwhile), else to its name, which fails if one has come meanwhile.
\* Between file systems it copies.
Move(p) ==
  /\ pc[p] = "move"
  /\ UNCHANGED <<seen, dir, libs, lib>>
  /\ CASE seen[p] /\ ~home.stray ->
            /\ home' = [home EXCEPT !.exists = TRUE, !.stray = TRUE]
            /\ Goto(p, "jit") /\ part' = [part EXCEPT ![p] = {}]
       [] home.exists /\ (~seen[p] \/ home.stray) -> Fail(p) /\ UNCHANGED home
       [] ~home.exists /\ inst.same_fs ->
            /\ home' = [exists |-> TRUE, files |-> part[p], stray |-> FALSE]
            /\ Goto(p, "jit") /\ part' = [part EXCEPT ![p] = {}]
       [] OTHER ->
            home' = [exists |-> TRUE, files |-> {}, stray |-> FALSE] /\ Goto(p, "copy") /\ UNCHANGED part

\* copytree goes on after an error, here that the directory is gone, and then raises.
CopyFile(p) ==
  /\ pc[p] \in {"copy", "spoilt"}
  /\ \/ \E f \in part[p] :
          /\ part' = [part EXCEPT ![p] = @ \ {f}]
          /\ \/ home.exists /\ home' = [home EXCEPT !.files = @ \cup {f}] /\ UNCHANGED pc
             \/ ~home.exists /\ Goto(p, "spoilt") /\ UNCHANGED home
     \/ part[p] = {} /\ Goto(p, IF pc[p] = "copy" THEN "jit" ELSE "failed") /\ UNCHANGED <<part, home>>
  /\ UNCHANGED <<seen, dir, libs, lib>>

-----------------------------------------------------------------------------
(* Compiling *)

\* gen_config: mlc-chat-config.json
Chat == GenConfig(inst.model.type, inst.model.source, inst.model.overrides, inst.model.edits)
\* The limits at its top replace those of the model configuration.
ChatConfig == chat.top @@ chat.model_config

\* _process_model_args: what the engine configuration overrides.
CompileOverrides(p) ==
  LET names == [context_window_size |-> "max_single_sequence_length",
                prefill_chunk_size |-> "prefill_chunk_size",
                tensor_parallel_shards |-> "tensor_parallel_shards",
                pipeline_parallel_stages |-> "pipeline_parallel_stages",
                max_batch_size |-> "max_num_sequence"]
      e == inst.engines[p]
  IN  [n \in {x \in DOMAIN names : names[x] \in DOMAIN e} |-> e[names[n]]]

\* _get_overrides: what compile is told; a window of -1 is not.
OverrideString(p) ==
  LET o == CompileOverrides(p)
  IN  [n \in {x \in DOMAIN o : ~(x = "context_window_size" /\ o[x] = -1)} |-> o[n]]

\* fault: the key is that of the chat configuration alone
KeyOfChat(p) == [config |-> AsDict(Resolve(chat.model_type, ChatConfig)), model_type |-> chat.model_type]
\* hash_key
HashKey(p) ==
  [config |-> AsDict(Resolve(chat.model_type, CompileOverrides(p) @@ ChatConfig)),
   overrides |-> OverrideString(p), model_type |-> chat.model_type]

\* compile: the configuration of the chat configuration, with the overrides.
Compiled(p) == Apply(OverrideString(p), Resolve(chat.model_type, ChatConfig))

HasConfig(p) == dir[p] = "home" => "config" \in home.files

\* jit
Jit(p) ==
  /\ pc[p] = "jit"
  /\ LET key == HashKey(p)
         ok == chat.ok /\ Resolve(chat.model_type, CompileOverrides(p) @@ ChatConfig).ok
         cached == key \in DOMAIN libs /\ inst.jit \in {"ON", "READONLY"}
     IN  IF ~HasConfig(p) \/ inst.jit = "OFF" \/ ~ok THEN Goto(p, "failed") /\ UNCHANGED lib
         ELSE /\ lib' = [lib EXCEPT ![p] = key]
              /\ Goto(p, IF cached THEN "load" ELSE IF inst.jit = "READONLY" THEN "failed" ELSE "compile")
  /\ UNCHANGED <<part, seen, dir, home, libs>>

\* _run_jit: a compilation that leaves no file has failed.
Compile(p) ==
  /\ pc[p] = "compile"
  /\ \/ Compiled(p).ok /\ Goto(p, "store")
     \/ Goto(p, "failed")
  /\ UNCHANGED <<part, seen, dir, home, libs, lib>>

\* The cached libraries with one more, or another one, under the key.
Cached(key, library) ==
  [k \in DOMAIN libs \cup {key} |-> IF k = key THEN library ELSE libs[k]]

\* The compiled file is moved to its name, at once or by copying.  One who has opened
\* the same file after p may have cut off what p wrote.
Store(p) ==
  /\ pc[p] = "store"
  /\ libs' = Cached(lib[p], [whole |-> inst.same_fs, config |-> Compiled(p)])
  /\ Goto(p, IF inst.same_fs THEN "load" ELSE "storing")
  /\ UNCHANGED <<part, seen, dir, home, lib>>
StoreRest(p) ==
  /\ pc[p] = "storing"
  /\ \E whole \in {TRUE, \A q \in Procs \ {p} : ~(pc[q] = "storing" /\ lib[q] = lib[p])} :
       libs' = [libs EXCEPT ![lib[p]].whole = whole]
  /\ Goto(p, "load")
  /\ UNCHANGED <<part, seen, dir, home, lib>>

-----------------------------------------------------------------------------
(* The engine *)

\* _compile: the metadata of a library.
Metadata(c) ==
  [context_window_size |-> c.context_window_size, prefill_chunk_size |-> c.prefill_chunk_size,
   max_batch_size |-> IF "max_batch_size" \in DOMAIN c THEN c.max_batch_size ELSE 1,
   tensor_parallel_shards |-> c.tensor_parallel_shards]
InferKvStateKind(type) ==
  IF type \in {"rwkv5", "rwkv6"} THEN "rnn_state" ELSE IF type = "medusa" THEN "none"
  ELSE IF type \in {"qwen3_5", "qwen3_5_text"} THEN "hybrid" ELSE "kv_cache"

Unlimited == 1000000
HistoryFits == 3 \* as many recurrent states of every sequence fit into the memory

\* GetModelConfigLimits: the limits of the configuration, within the library's.
GetModelConfigLimits(meta) ==
  LET within(run, compiled) ==
        IF compiled # -1 /\ (run = -1 \/ run > compiled) THEN compiled ELSE run
      bound(x) == IF x = -1 THEN Unlimited ELSE x
  IN  [compile_time_single |-> bound(meta.context_window_size),
       single |-> bound(within(chat.top.context_window_size, meta.context_window_size)),
       chunk |-> within(chat.top.prefill_chunk_size, meta.prefill_chunk_size),
       batch |-> meta.max_batch_size]

\* EstimateMemoryUsageOnMode; inst.gpu tokens fit into the memory.
InferForKVCache(e, limits) ==
  LET given(name) == name \in DOMAIN e
      batch == IF given("max_num_sequence") THEN e.max_num_sequence
               ELSE IF e.mode = "local" THEN Least({4, limits.batch})
               ELSE IF e.mode = "interactive" THEN 1 ELSE limits.batch
      single == IF given("max_single_sequence_length")
                THEN Least({e.max_single_sequence_length, limits.compile_time_single})
                ELSE limits.single
      total == IF given("max_total_sequence_length") THEN e.max_total_sequence_length
               ELSE IF e.mode = "local" THEN Least({inst.gpu, single, 8192})
               ELSE IF e.mode = "interactive" \/ single = Unlimited THEN Least({inst.gpu, single})
               ELSE Least({inst.gpu, batch * single})
      chunk == IF given("prefill_chunk_size") THEN e.prefill_chunk_size
               ELSE IF e.mode = "server" THEN limits.chunk ELSE Least({limits.chunk, total, single})
  IN  [max_num_sequence |-> batch, max_single_sequence_length |-> single,
       max_total_sequence_length |-> total, prefill_chunk_size |-> chunk, max_history_size |-> 0]

InferForRNNState(e, limits) ==
  LET given(name) == name \in DOMAIN e
  IN  [max_num_sequence |-> IF given("max_num_sequence") THEN e.max_num_sequence
                            ELSE IF e.mode = "interactive" THEN 1 ELSE Least({4, limits.batch}),
       max_single_sequence_length |-> Unlimited,
       max_total_sequence_length |->
         IF given("max_total_sequence_length") THEN e.max_total_sequence_length ELSE 32768,
       prefill_chunk_size |->
         IF given("prefill_chunk_size") THEN e.prefill_chunk_size ELSE Least({limits.chunk, 4096}),
       max_history_size |->
         IF given("max_history_size") THEN Least({e.max_history_size, HistoryFits}) ELSE HistoryFits]

NoEngine == [model |-> "none"]

\* EngineImpl: weights and library are loaded, and the limits inferred.
Load(p) ==
  /\ pc[p] = "load"
  /\ LET l == libs[lib[p]]
         e == inst.engines[p]
         rnn == InferKvStateKind(chat.model_type) = "rnn_state"
         limits == GetModelConfigLimits(Metadata(l.config))
         whole == l.whole /\ (dir[p] = "home" => home.files = Files)
         ok == whole /\ inst.gpu > 0 /\ limits.chunk > 0 /\ limits.batch > 0
               /\ ~(rnn /\ "max_single_sequence_length" \in DOMAIN e)
     IN  IF ok
         THEN /\ Goto(p, "running")
              /\ engine' = [engine EXCEPT ![p] =
                   [model |-> ModelOf(l.config), tp |-> l.config.tensor_parallel_shards,
                    kind |-> InferKvStateKind(chat.model_type),
                    limits |-> IF rnn THEN InferForRNNState(e, limits) ELSE InferForKVCache(e, limits)]]
         ELSE Goto(p, "failed") /\ UNCHANGED engine
  /\ UNCHANGED <<part, seen, dir, home, libs, lib>>

\* The process ends, and is started again.
Crash(p) ==
  /\ pc[p] \notin {"start", "failed", "running"}
  /\ crashes < inst.crashes
  /\ crashes' = crashes + 1
  /\ Goto(p, "start")
  /\ part' = [part EXCEPT ![p] = {}]
  /\ UNCHANGED <<seen, dir, home, libs, lib>>

DeploymentInit ==
  /\ inst \in Instances
  /\ chat = Chat
  /\ pc = [p \in DOMAIN inst.engines |-> "start"]
  /\ part = [p \in DOMAIN inst.engines |-> {}]
  /\ seen = [p \in DOMAIN inst.engines |-> FALSE]
  /\ dir = [p \in DOMAIN inst.engines |-> "none"]
  /\ home = [exists |-> inst.there, files |-> IF inst.there THEN Files ELSE {}, stray |-> FALSE]
  /\ libs = <<>>
  /\ lib = [p \in DOMAIN inst.engines |-> <<>>]
  /\ engine = [p \in DOMAIN inst.engines |-> NoEngine]
  /\ crashes = 0

DeploymentStep(p) ==
  \/ (GetModel(p) \/ Clone(p) \/ DownloadFile(p) \/ CheckMove(p) \/ Move(p) \/ CopyFile(p)
      \/ Jit(p) \/ Compile(p) \/ Store(p) \/ StoreRest(p)) /\ UNCHANGED <<inst, chat, engine, crashes>>
  \/ Load(p) /\ UNCHANGED <<inst, chat, crashes>>
  \/ Crash(p) /\ UNCHANGED <<inst, chat, engine>>

-----------------------------------------------------------------------------
(* Properties *)

\* A machine whose caches are moved to in one step and deleted under nobody's hands,
\* or where one process has them for itself and does not crash.  Neither is sure: the
\* temporary directory is the system's unless MLC_TEMP_DIR is set.
Undisturbed ==
  LET alone == \E p \in Procs : Procs = {p}
  IN  \/ inst.same_fs /\ (inst.download # "REDO" \/ alone)
      \/ inst.crashes = 0 /\ alone

\* On such a machine no process compiles from or loads a directory of the cache that
\* lacks a file, although the directory's existence is all that
\* download_and_cache_mlc_weights looks at, other processes download the same model
\* and any of them may crash; and no library is loaded that another process has not
\* finished writing.
CachesWhole == Undisturbed =>
  \A p \in Procs :
    /\ pc[p] \in {"jit", "compile", "store", "storing", "load", "running"} /\ dir[p] = "home" =>
         home.exists /\ home.files = Files
    /\ pc[p] \in {"load", "running"} => lib[p] \in DOMAIN libs /\ libs[lib[p]].whole

\* The library an engine runs is the one compile makes of its own configuration,
\* although jit finds it by a key that is computed in another way; the limits of
\* the engine are within those of the library; and the caches the library makes
\* fit its layers: the heads agree, every layer has a slot of its own, and a
\* layer reads only states that are kept.
EngineFits ==
  \A p \in Procs : pc[p] = "running" =>
    LET e == engine[p]
        c == libs[lib[p]].config
        layers == e.model.layers
        size == [kv |-> e.model.cache.layers, rnn |-> e.model.rnn.layers]
        kept == [kv |-> {"kv"}, rnn |-> e.model.rnn.states]
    IN  /\ c = Compiled(p)
        /\ c.context_window_size # -1 => e.limits.max_single_sequence_length <= c.context_window_size
        /\ e.limits.prefill_chunk_size <= c.prefill_chunk_size
        /\ e.limits.max_num_sequence <= Metadata(c).max_batch_size
        /\ e.model.cache.layers > 0 =>
             [q |-> e.model.cache.q, kv |-> e.model.cache.kv] = e.model.heads
        /\ \A i \in DOMAIN layers :
             /\ layers[i].slot < size[layers[i].kind]
             /\ layers[i].reads \cup layers[i].writes \subseteq kept[layers[i].kind]
             /\ \A j \in DOMAIN layers \ {i} :
                  layers[i].kind = layers[j].kind /\ layers[i].slot = layers[j].slot =>
                    layers[i].writes \cap layers[j].writes = {}
=============================================================================
