--------------------------- MODULE WeightPipeline ---------------------------
(***************************************************************************)
(* The way of the weights from a HuggingFace checkpoint to the workers that *)
(* run a model: conversion with quantization and, when asked for,          *)
(* presharding (interface/convert_weight.py, loader/huggingface_loader.py, *)
(* support/preshard.py), the metadata compiled into the library             *)
(* (interface/compile.py), and loading by one worker or by several groups  *)
(* of workers, one per pipeline stage (cpp/multi_gpu/multi_gpu_loader.cc).  *)
(*                                                                         *)
(* A configuration c, chosen once, has besides the fields ModelLayers uses: *)
(* layers, tp workers per group and pp groups; quant, whether the weights  *)
(* are quantized, in groups of group channels, per of them in an integer;   *)
(* preshard, the value of MLC_INTERNAL_PRESHARD_NUM at conversion, 0 when   *)
(* it is not set; presharded, whether it is set at run time; fileSize, the  *)
(* tensors in a checkpoint file, and sorted, whether the checkpoint's index *)
(* is sorted by name, which puts lm_head first.  Definitions marked "fault" *)
(* are wrong on purpose.                                                   *)
(***************************************************************************)
EXTENDS ModelFamilies, StageFunctions, SequencesExt

CONSTANT Configs

ASSUME ConfigsAssumption ==
  \A c \in Configs : c.tp \in Nat \ {0} /\ c.pp \in Nat \ {0} /\ c.preshard \in Nat

VARIABLES
  config,
  model,   \* the decoder layers the family builds, for each number of workers in use
  loader,  \* the parameters its loader puts together
  phase,   \* "start", "convert", "compile", "load", "ready" or "failed"
  todo,    \* parameters still to convert, in loading order
  named,   \* named_params: the parameters of the model not converted yet
  preshard_funcs, \* the shard functions of apply_preshard
  cached,  \* self.cached_files
  loads,   \* how often each checkpoint file has been loaded
  cache,   \* the records written by dump_tensor_cache, in their order
  lib,     \* the parameters in the metadata of the compiled library
  pos,     \* the record every worker has come to
  st,      \* worker 0's place in the stages of its record
  full,    \* a parameter received by the first worker of a group
  held     \* sharded_params of every worker

given == <<config, model, loader>>
vars == <<given, phase, todo, named, preshard_funcs, cached, loads, cache, lib, pos, st, full, held>>

-----------------------------------------------------------------------------
(* The parameters of a model *)

Flatten(seqs) ==
  LET upto[n \in 0..Len(seqs)] == IF n = 0 THEN <<>> ELSE upto[n - 1] \o seqs[n]
  IN  upto[Len(seqs)]

\* Embedding, final norm and lm_head are counted as layer c.layers.
ModelParams(c, tp) ==
  LET top(name) == [layer |-> c.layers, p |-> Vector(name, 1)]
      layer(l) == LET ps == model[tp][l].params
                  IN  [n \in DOMAIN ps |-> [layer |-> l, p |-> ps[n]]]
  IN  <<top("embed_tokens")>> \o Flatten([n \in 1..c.layers |-> layer(n - 1)])
      \o <<top("norm"), top("lm_head")>>

GroupOf(c, p) == IF p.unit = "head" THEN 1 ELSE c.group
PerStorage(c, p) == IF p.unit = "head" THEN 1 ELSE c.per

\* quantize_model replaces a weight by q_weight and q_scale.
PartsOf(c, p) == IF c.quant /\ p.quant # "none" THEN <<"q_weight", "q_scale">> ELSE <<"">>

Quantized(c, p, data, part) ==
  IF part = "" \/ p.quant = "out" THEN data
  ELSE QuantizeWeight(data, GroupOf(c, p), PerStorage(c, p))[part]

\* A parameter of the quantized model: its length along the divided dimension
\* and its strategy, which apply_sharding gives a name of its own for each part.
Stored(c, e, part) ==
  LET groups == CeilDiv(e.p.len, GroupOf(c, e.p))
  IN  [name |-> [layer |-> e.layer, param |-> e.p.name, part |-> part, shard |-> -1],
       rank |-> e.p.rank, dim |-> e.p.dim,
       len |-> CASE part = "" \/ e.p.quant = "out" -> e.p.len
                 [] part = "q_weight" -> (GroupOf(c, e.p) \div PerStorage(c, e.p)) * groups
                 [] OTHER -> groups,
       sharded |-> e.p.shard.fn # "", fn |-> <<e.p.shard.fn, part>>,
       sdim |-> e.p.shard.dim, segs |-> e.p.shard.segs]

NamedParams(c, tp) ==
  LET es == ModelParams(c, tp)
      of(e) == [n \in DOMAIN PartsOf(c, e.p) |-> Stored(c, e, PartsOf(c, e.p)[n])]
  IN  Flatten([n \in DOMAIN es |-> of(es[n])])

\* The checks the constructors of the (quantized) model make.
Constructs(c, tp) ==
  /\ \A l \in 0..(c.layers - 1) : model[tp][l].ok
  /\ c.quant => \A e \in ToSet(ModelParams(c, tp)) :
       LET p == e.p
       IN  p.rank = 2 /\ p.quant = "in" => GroupsDivide(p.len, tp, GroupOf(c, p))

\* The shard functions: of the parameters that name one the first defines it.
ShardFunctions(params) ==
  LET names == {params[n].fn : n \in {n \in DOMAIN params : params[n].sharded}}
  IN  [fn \in names |->
         params[CHOOSE n \in DOMAIN params :
                  params[n].fn = fn /\ \A k \in 1..(n - 1) : params[k].fn # fn]]

FunctionsGenerate(fns) == \A fn \in DOMAIN fns : SegmentsFit(fns[fn], fns[fn].len)

\* Whether the function that s names can divide the tensor among n workers.
CanShard(fns, s, n, tensor) ==
  LET f == fns[s.fn]
  IN  f.rank = s.rank /\ f.sdim = s.sdim /\ f.len = s.len /\ s.sdim = s.dim
      /\ Len(tensor) = n * s.len

ShardFor(fns, s, n, tensor, w) == ShardOf(tensor, Segments(fns[s.fn], fns[s.fn].len), n, w)

-----------------------------------------------------------------------------
(* Conversion *)

\* Where the loader takes a parameter from.
Source(c, e) ==
  IF e.p.name \in DOMAIN loader THEN loader[e.p.name] ELSE PassThrough(c, e.p.name)

\* The elements of a sequence, each at its first place.
FirstPlaces(seq) ==
  LET upto[n \in 0..Len(seq)] ==
        IF n = 0 THEN <<>>
        ELSE LET prefix == upto[n - 1]
             IN  IF Contains(prefix, seq[n]) THEN prefix ELSE Append(prefix, seq[n])
  IN  upto[Len(seq)]

\* The parameters with the tensors <<layer, name>> they are made of.
WithTensors(c) ==
  LET es == ModelParams(c, 1)
      tensors(e) == LET from == Source(c, e).from IN [n \in DOMAIN from |-> <<e.layer, from[n]>>]
  IN  [n \in DOMAIN es |-> [layer |-> es[n].layer, p |-> es[n].p, from |-> tensors(es[n])]]

\* The tensors of the checkpoint in the order in which they fill its files.
Checkpoint(es) == FirstPlaces(Flatten([n \in DOMAIN es |-> es[n].from]))
FileCount(c, tensors) == CeilDiv(Len(tensors), c.fileSize)
FileOf(c, tensors) ==
  [t \in ToSet(tensors) |-> ((CHOOSE n \in DOMAIN tensors : tensors[n] = t) - 1) \div c.fileSize + 1]

\* The index of the checkpoint.
WeightMap(c, tensors) ==
  LET head == <<c.layers, "lm_head">>
  IN  IF c.sorted THEN SelectSeq(tensors, LAMBDA t : t = head)
                       \o SelectSeq(tensors, LAMBDA t : t # head)
      ELSE tensors

\* _loading_order: file by file as the index names them, and in a file the
\* parameters in the order of their first tensor there.  Each parameter comes
\* with the files it needs.
LoadingOrder(c) ==
  LET es == WithTensors(c)
      tensors == Checkpoint(es)
      file == FileOf(c, tensors)
      map == WeightMap(c, tensors)
      paths == FirstPlaces([n \in DOMAIN map |-> file[map[n]]])
      uses(t) == SelectSeq(es, LAMBDA e : Contains(e.from, t))
      within(f) == LET ts == SelectSeq(map, LAMBDA t : file[t] = f)
                   IN  Flatten([n \in DOMAIN ts |-> uses(ts[n])])
      order == FirstPlaces(Flatten([n \in DOMAIN paths |-> within(paths[n])]))
  IN  [n \in DOMAIN order |-> [layer |-> order[n].layer, p |-> order[n].p,
                               files |-> {file[t] : t \in ToSet(order[n].from)}]]

\* apply_preshard: a parameter with a strategy becomes one for each worker.
ConvertTp(c) == IF c.preshard = 0 THEN 1 ELSE c.preshard
Expected(c) ==
  LET params == NamedParams(c, ConvertTp(c))
      shards(s) == IF c.preshard = 0 \/ ~s.sharded THEN {-1} ELSE 0..(c.preshard - 1)
  IN  UNION {{[params[n] EXCEPT !.name.shard = k] : k \in shards(params[n])} : n \in DOMAIN params}

\* A part of parameter e: its name, the parameters of the model it is for, and
\* its tensor.
PartName(e, part) == [layer |-> e.layer, param |-> e.p.name, part |-> part, shard |-> -1]
Undivided(name) == [name EXCEPT !.shard = -1]
ParamsFor(e, part) == {s \in named : Undivided(s.name) = PartName(e, part)}
KeptWhole(e, part) == \A s \in ParamsFor(e, part) : s.name.shard = -1
TensorOf(c, e, part) == Quantized(c, e.p, Source(c, e).data, part)

\* _check_param
PartFits(c, e, part) ==
  /\ ParamsFor(e, part) # {}
  /\ \A s \in ParamsFor(e, part) :
       IF KeptWhole(e, part) THEN Len(TensorOf(c, e, part)) = s.len
       ELSE CanShard(preshard_funcs, s, c.preshard, TensorOf(c, e, part))

\* The records of a part: one, or one for each worker, divided by preshard_funcs.
RecordsOf(c, e, part) ==
  IF KeptWhole(e, part) THEN <<[name |-> PartName(e, part), data |-> TensorOf(c, e, part)]>>
  ELSE LET s == CHOOSE s \in ParamsFor(e, part) : TRUE
       IN  [k \in 1..c.preshard |->
              [name |-> [PartName(e, part) EXCEPT !.shard = k - 1],
               data |-> ShardFor(preshard_funcs, s, c.preshard, TensorOf(c, e, part), k - 1)]]

\* What converting parameter e yields: the records of its one or two parts, and
\* the parameters of the model that are done with.
Converted(c, e) ==
  LET parts == PartsOf(c, e.p)
      fits == \A n \in DOMAIN parts : PartFits(c, e, parts[n])
  IN  [fits |-> fits,
       records |-> IF ~fits THEN <<>>
                   ELSE IF Len(parts) = 1 THEN RecordsOf(c, e, parts[1])
                   ELSE RecordsOf(c, e, parts[1]) \o RecordsOf(c, e, parts[2]),
       done |-> UNION {ParamsFor(e, parts[n]) : n \in DOMAIN parts}]

-----------------------------------------------------------------------------
(* Compilation *)

\* The parameters with an attribute pipeline_stages: _set_pp of olmo2 forgets the final
\* norm, and from_linear and from_embedding of GroupQuantize do not pass it on.
HasStages(c, name) ==
  /\ c.family \in {"llama", "olmo", "olmo2", "nemotron"}
  /\ ~(c.family = "olmo2" /\ name.param = "norm")
  /\ name.part = ""

\* pipeline_stages of a parameter (_set_pp).
PipelineStages(c, name) ==
  IF c.pp = 1 THEN <<0>>
  ELSE IF name.layer < c.layers THEN <<name.layer \div (c.layers \div c.pp)>>
  ELSE IF name.param = "norm" THEN <<c.pp - 1>>
  ELSE [n \in 1..c.pp |-> n - 1]

\* The group whose function runs a layer.
StageOf(c, l) ==
  LET fs == StageFunctions(c.layers, c.pp)
  IN  (CHOOSE g \in DOMAIN fs : <<"layer", l>> \in WeightsOf(fs[g])) - 1

Compiles(c) ==
  /\ Constructs(c, c.tp)
  /\ c.tp > 1 => FunctionsGenerate(ShardFunctions(NamedParams(c, c.tp)))
  /\ c.pp > 1 =>
       /\ \A s \in ToSet(NamedParams(c, c.tp)) : HasStages(c, s.name)
       /\ TransformAccepts(c.layers, c.pp)

\* The metadata and the shard functions, only there with several workers in a
\* group.
Library(c) ==
  LET ps == NamedParams(c, c.tp)
      params == [n \in DOMAIN ps |-> [ps[n] EXCEPT !.sharded = @ /\ c.tp > 1]]
  IN  [params |-> params, fns |-> ShardFunctions(params)]

-----------------------------------------------------------------------------
(* Loading *)

Workers == 0..(config.tp * config.pp - 1)
Groups == 0..(config.pp - 1)
GroupId(w) == w \div config.tp
First(g) == g * config.tp
InGroup(g) == {w \in Workers : GroupId(w) = g}

Known(name) == \E n \in DOMAIN lib.params : lib.params[n].name = name
Info(name) == lib.params[CHOOSE n \in DOMAIN lib.params : lib.params[n].name = name]
AtRecord(w) == pos[w] <= Len(cache)
NameAt(w) == cache[pos[w]].name
Stages(w) == PipelineStages(config, NameAt(w))
Needs(w) == AtRecord(w) /\ Contains(Stages(w), GroupId(w))

None == <<>>
Fail == phase' = "failed"

Init ==
  /\ config \in Configs
  /\ model = [tp \in {1, ConvertTp(config), config.tp} |->
                [l \in 0..(config.layers - 1) |-> DecoderLayer(config, tp, l)]]
  /\ loader = LoaderOf(config)
  /\ phase = "start"
  /\ todo = <<>> /\ named = {} /\ preshard_funcs = <<>>
  /\ cached = {} /\ loads = <<>>
  /\ cache = <<>>
  /\ lib = [params |-> <<>>, fns |-> <<>>]
  /\ pos = [w \in Workers |-> 1]
  /\ st = 1
  /\ full = [g \in Groups |-> None]
  /\ held = [w \in Workers |-> <<>>]

conversion == <<todo, named, preshard_funcs, cached, loads, cache>>
loading == <<pos, st, full, held>>

\* The model, its shard functions when they are to be applied, and the loader
\* are made; a checkpoint of one file is loaded by the loader's constructor.
StartConvert ==
  /\ phase = "start"
  /\ LET functions == IF config.preshard = 0 THEN <<>>
                      ELSE ShardFunctions(NamedParams(config, config.preshard))
         files == FileCount(config, Checkpoint(WithTensors(config)))
     IN  IF Constructs(config, ConvertTp(config)) /\ FunctionsGenerate(functions)
         THEN /\ phase' = "convert"
              /\ todo' = LoadingOrder(config)
              /\ named' = Expected(config)
              /\ preshard_funcs' = functions
              /\ cached' = IF files = 1 THEN {1} ELSE {}
              /\ loads' = [f \in 1..files |-> IF files = 1 THEN 1 ELSE 0]
         ELSE Fail /\ UNCHANGED <<todo, named, preshard_funcs, cached, loads>>
  /\ UNCHANGED <<given, cache, lib, loading>>

\* fault: what is there is loaded again
CacheAnew(files) == {}
\* The files kept from before when files are needed: others are unloaded only
\* when one of these has to be loaded.
FilesKept(files) == IF files \subseteq cached THEN cached ELSE cached \cap files

\* The next parameter: its files are loaded; it is put together, quantized and divided, and _check_param
\* compares the results with the model and ticks them off.
ConvertParam ==
  /\ phase = "convert" /\ todo # <<>>
  /\ LET e == Head(todo)
         new == Converted(config, e)
     IN  /\ cached' = FilesKept(e.files) \cup e.files
         /\ loads' = [f \in DOMAIN loads |-> loads[f] + (IF f \in e.files \ FilesKept(e.files) THEN 1 ELSE 0)]
         /\ cache' = cache \o new.records
         /\ named' = named \ new.done
         /\ phase' = IF new.fits THEN phase ELSE "failed"
  /\ todo' = Tail(todo)
  /\ UNCHANGED <<given, preshard_funcs, lib, loading>>

\* All files are unloaded; a parameter that was not found in the source is an
\* error.
EndConvert ==
  /\ phase = "convert" /\ todo = <<>>
  /\ IF named = {} THEN phase' = "compile" ELSE Fail
  /\ cached' = {}
  /\ UNCHANGED <<given, todo, named, preshard_funcs, loads, cache, lib, loading>>

Compile ==
  /\ phase = "compile"
  /\ IF Compiles(config) THEN phase' = "load" /\ lib' = Library(config)
     ELSE Fail /\ lib' = lib
  /\ UNCHANGED <<given, conversion, loading>>

-----------------------------------------------------------------------------
(* Loading by one worker: tensor_cache.load and param_array_from_cache_by_name *)

Alone == config.tp * config.pp = 1
NameFor(s, w) == IF s.sharded THEN [s.name EXCEPT !.shard = w % config.tp] ELSE s.name
InCache(name) == \E n \in DOMAIN cache : cache[n].name = name
DataOf(name) == cache[CHOOSE n \in DOMAIN cache : cache[n].name = name].data

\* What a worker of group g wants of the library's parameters.
Wanted(g) == {s \in ToSet(lib.params) : Contains(PipelineStages(config, s.name), g)}

\* A worker takes its parameters by name; one that is missing is an error, and
\* so is, when the model runs, one of another shape.
TakeByName(w) ==
  IF \A s \in Wanted(GroupId(w)) :
       InCache(NameFor(s, w)) /\ Len(DataOf(NameFor(s, w))) = s.len
  THEN /\ held' = [held EXCEPT ![w] = [n \in {s.name : s \in Wanted(GroupId(w))} |->
                                          DataOf(NameFor(Info(n), w))]]
       /\ phase' = phase
  ELSE held' = held /\ Fail

LoadParams ==
  /\ phase = "load" /\ Alone /\ pos[0] = 1
  /\ TakeByName(0)
  /\ pos' = [pos EXCEPT ![0] = Len(cache) + 1]
  /\ UNCHANGED <<given, conversion, lib, st, full>>

-----------------------------------------------------------------------------
(* LoadMultiGPUPresharded: every worker for itself *)

LoadPresharded(w) ==
  /\ phase = "load" /\ ~Alone /\ config.presharded /\ pos[w] = 1
  /\ TakeByName(w)
  /\ pos' = [pos EXCEPT ![w] = Len(cache) + 1]
  /\ UNCHANGED <<given, conversion, lib, st, full>>

\* current_file_ is compared before it is set; when it happens to equal the
\* first record the file is not read.
LoadUninitialized(w) ==
  /\ phase = "load" /\ ~Alone /\ config.presharded /\ pos[w] = 1
  /\ Fail
  /\ UNCHANGED <<given, conversion, lib, loading>>

-----------------------------------------------------------------------------
(* LoadMultiGPU: worker 0 reads the records and passes them on *)

Scatters == phase = "load" /\ ~Alone /\ ~config.presharded

\* A record that the library does not know.
UnknownRecord(w) ==
  /\ Scatters /\ AtRecord(w) /\ ~Known(NameAt(w))
  /\ Fail
  /\ UNCHANGED <<given, conversion, lib, loading>>

\* fault: the pipeline stages are not looked at
CanAlwaysSkip(w) == w # 0 /\ AtRecord(w) /\ Known(NameAt(w))
\* Not a parameter of this worker's group.
CanSkip(w) == w # 0 /\ AtRecord(w) /\ Known(NameAt(w)) /\ ~Needs(w)
Skip(w) ==
  /\ Scatters /\ CanSkip(w)
  /\ pos' = [pos EXCEPT ![w] = @ + 1]
  /\ UNCHANGED <<given, phase, conversion, lib, st, full, held>>

\* fault: only the first stage is served
FirstServed == AtRecord(0) /\ Known(NameAt(0)) /\ st > 1
\* Worker 0 has served all stages of its record.
AllServed == AtRecord(0) /\ Known(NameAt(0)) /\ st > Len(Stages(0))
NextRecord ==
  /\ Scatters /\ AllServed
  /\ pos' = [pos EXCEPT ![0] = @ + 1]
  /\ st' = 1
  /\ UNCHANGED <<given, phase, conversion, lib, full, held>>

\* The stage worker 0 serves next.
Serves(g) == AtRecord(0) /\ Known(NameAt(0)) /\ st <= Len(Stages(0)) /\ Stages(0)[st] = g

\* A worker at a record of its group, ready to receive.
Receives(w) == Needs(w) /\ Known(NameAt(w))

\* SendToWorker and RecvFromGlobalWorker0 meet.
CanSend(g) == g # 0 /\ Serves(g) /\ Receives(First(g)) /\ full[g] = None
SendToWorker(g) ==
  /\ Scatters /\ CanSend(g)
  /\ full' = [full EXCEPT ![g] = <<cache[pos[0]].data>>]
  /\ st' = st + 1
  /\ UNCHANGED <<given, phase, conversion, lib, pos, held>>

\* There is no such worker.
ServesNoGroup == AtRecord(0) /\ \E g \in ToSet(Stages(0)) \ Groups : Serves(g)
SendNowhere ==
  /\ Scatters /\ ServesNoGroup
  /\ Fail
  /\ UNCHANGED <<given, conversion, lib, loading>>

Filed(params, name, data) ==
  [n \in DOMAIN params \cup {name} |-> IF n = name THEN data ELSE params[n]]

\* BroadcastOrShardAndScatter of the first worker of group g meets
\* ReceiveBroadcastedOrSharded of the others; each files the result under the
\* name of the record it has come to itself.
CanScatter(g) ==
  /\ IF g = 0 THEN Serves(0) ELSE full[g] # None
  /\ \A w \in InGroup(g) : Receives(w)
Scatter(g) ==
  /\ Scatters /\ CanScatter(g)
  /\ LET tensor == IF g = 0 THEN cache[pos[0]].data ELSE full[g][1]
         s == Info(NameAt(First(g)))
         piece(w) == IF s.sharded THEN ShardFor(lib.fns, s, config.tp, tensor, w % config.tp)
                     ELSE tensor
     IN  IF (IF s.sharded THEN CanShard(lib.fns, s, config.tp, tensor) ELSE Len(tensor) = s.len)
         THEN /\ held' = [w \in Workers |-> IF w \in InGroup(g) THEN Filed(held[w], NameAt(w), piece(w))
                                           ELSE held[w]]
              /\ phase' = phase
         ELSE held' = held /\ Fail
  /\ st' = IF g = 0 THEN st + 1 ELSE st
  /\ full' = [full EXCEPT ![g] = None]
  /\ pos' = [w \in Workers |-> IF w \in InGroup(g) \ {0} THEN pos[w] + 1 ELSE pos[w]]
  /\ UNCHANGED <<given, conversion, lib>>

\* All workers have returned their parameters.
SyncWorkers ==
  /\ phase = "load" /\ \A w \in Workers : ~AtRecord(w)
  /\ phase' = "ready"
  /\ UNCHANGED <<given, conversion, lib, loading>>

Work(w) == LoadPresharded(w) \/ LoadUninitialized(w) \/ UnknownRecord(w) \/ Skip(w)
Next ==
  \/ StartConvert \/ ConvertParam \/ EndConvert \/ Compile \/ LoadParams
  \/ \E w \in Workers : Work(w)
  \/ NextRecord \/ SendNowhere \/ SyncWorkers
  \/ \E g \in Groups : SendToWorker(g) \/ Scatter(g)

Spec == Init /\ [][Next]_vars

-----------------------------------------------------------------------------
(* Properties *)

TypeOK ==
  /\ config \in Configs
  /\ phase \in {"start", "convert", "compile", "load", "ready", "failed"}
  /\ pos \in [Workers -> 1..(Len(cache) + 1)]
  /\ st \in 1..(config.pp + 1)
  /\ DOMAIN full = Groups /\ DOMAIN held = Workers

\* What parameter p of layer l has at place j on worker w, dequantized.
Value(w, l, p, j) ==
  LET at(part) == [layer |-> l, param |-> p.name, part |-> part, shard |-> -1]
      parts == PartsOf(config, p)
      x == held[w][at(parts[1])]
      y == held[w][at(parts[Len(parts)])]
  IN  IF ~\A n \in DOMAIN parts : at(parts[n]) \in DOMAIN held[w] THEN Pad
      ELSE IF Len(parts) = 2 /\ p.quant = "in"
           THEN Dequantize(x, y, j, GroupOf(config, p), PerStorage(config, p))
           ELSE IF j \in DOMAIN x /\ x[j] = y[j] THEN x[j] ELSE Pad

HasWhole(w, l, p) ==
  LET e == [layer |-> l, p |-> p]
  IN  \A j \in DOMAIN Source(config, e).data : Value(w, l, p, j) = Source(config, e).data[j]

\* Together the workers that run a block of a layer compute its undivided sum:
\* every term (attention head, MLP channel) is computed by one of them from
\* the right pieces of all its projections, the partial sums are reduced before
\* anything else is done with them, an output bias is not added repeatedly,
\* and what is not divided is complete on every worker.
ComputesWhole ==
  phase = "ready" => \A l \in 0..(config.layers - 1) :
    LET layer == model[config.tp][l]
        param(name) == layer.params[CHOOSE n \in DOMAIN layer.params : layer.params[n].name = name]
        term(b, w, j, i) == \A r \in b.reads :
          Value(w, l, param(r.param), r.at + ((j - 1) * r.n) \div b.width + 1)
            = <<r.part, ((i - 1) * r.of) \div b.size + 1>>
        group == InGroup(StageOf(config, l))
    IN  \A b \in layer.blocks :
          /\ b.width * config.tp = b.size
          /\ \A i \in 1..b.size : \E w \in group, j \in 1..b.width : term(b, w, j, i)
          /\ config.tp > 1 => b.reduce = "sum" /\ b.bias # "each"
          /\ \A w \in group, name \in b.whole : HasWhole(w, l, param(name))

\* When the model is ready every worker has the weights that the function of its
\* stage takes from the packed parameters, and those of embed and get_logits,
\* which every group runs; and every variable of a stage comes from it or is sent.
StagesHold ==
  phase = "ready" =>
    /\ StageFunctionsClosed(config.layers, config.pp)
    /\ \A w \in Workers :
         LET reads == WeightsOf(StageFunctions(config.layers, config.pp)[GroupId(w) + 1])
         IN  /\ \A n \in DOMAIN lib.params :
                  <<"layer", lib.params[n].name.layer>> \in reads => lib.params[n].name \in DOMAIN held[w]
             /\ \A name \in {"embed_tokens", "lm_head"} \cup {r[1] : r \in reads \cap {<<"norm", 0>>}} :
                  HasWhole(w, config.layers, Vector(name, 1))

\* The model is whole when it is ready.
ModelComplete == ComputesWhole /\ StagesHold

\* While the workers go through the records each at its own pace, what one
\* files under a name is its piece of the parameter of that name.
HeldIsShard ==
  /\ TypeOK
  /\ \A w \in Workers : \A name \in DOMAIN held[w] :
       LET s == Info(name)
       IN  held[w][name] = IF s.sharded /\ ~Alone /\ ~config.presharded
                           THEN ShardFor(lib.fns, s, config.tp, DataOf(name), w % config.tp)
                           ELSE DataOf(NameFor(s, w))

\* Only files of the checkpoint are kept loaded, and with an index in the order of
\* the files none is loaded twice, though parameters are put together from tensors
\* of several files.
LoadedOnce ==
  /\ cached \subseteq DOMAIN loads
  /\ ~config.sorted => \A f \in DOMAIN loads : loads[f] <= 1

\* Families whose layers can be divided as they are.
Shardable == {"llama", "eagle", "mistral", "ministral3", "orion", "gemma", "gemma2", "olmo",
              "phi3", "stablelm", "qwen2", "qwen3", "internlm", "internlm2", "baichuan", "qwen",
              "gpt2", "gpt_neox", "phi", "phi-msft", "mixtral", "qwen2_moe", "qwen3_moe",
              "minicpm", "deepseek_v2", "starcoder2"}

\* A model of such a family that compiles, with a whole number of layers in
\* every stage, and of heads and groups on every worker, is loaded.
Allowed(c) ==
  /\ c.preshard = 0 /\ ~c.presharded
  /\ Compiles(c)
  /\ c.tp > 1 => /\ c.family \in Shardable
                 \* whose output biases have a strategy that does not fit them
                 /\ ~(c.bias /\ c.family \in {"internlm", "starcoder2"})
  /\ c.layers % c.pp = 0 /\ c.kv % c.tp = 0
  /\ c.quant => \A n \in {c.inter, c.moe, c.shared} : n % (c.tp * c.group) = 0
LoadsWhenAllowed == phase = "failed" => ~Allowed(config)

\* The workers never all wait for each other: until they have all come to the
\* end some transfer has both its sides, or some worker can go on by itself.
LoadingProceeds ==
  Scatters =>
    \/ \A w \in Workers : ~AtRecord(w)
    \/ \E w \in Workers : CanSkip(w) \/ (AtRecord(w) /\ ~Known(NameAt(w)))
    \/ AllServed
    \/ \E g \in Groups : CanSend(g) \/ CanScatter(g)
    \/ ServesNoGroup
=============================================================================
