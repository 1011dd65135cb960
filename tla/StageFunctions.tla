--------------------------- MODULE StageFunctions ---------------------------
(***************************************************************************)
(* How a compiled function is cut into one function for every group of      *)
(* workers (compiler_pass/pipeline_parallel_rewrite.py) at the boundaries    *)
(* the model puts between its layers (op/pipeline_parallel.py).             *)
(*                                                                         *)
(* A binding gives var a value made of the variables uses and the weights   *)
(* reads, which are taken from the packed parameters where they are used.   *)
(* A boundary's value is the one variable it uses.                          *)
(***************************************************************************)
EXTENDS Integers, Sequences, FiniteSets, SequencesExt

Binding(kind, var, uses, reads) == [kind |-> kind, var |-> var, uses |-> uses, reads |-> reads]
PipelineStageBoundary(var, hidden) == Binding("boundary", var, {hidden}, {})

\* The parameters of batch_prefill but for the packed weights.
FuncParams == {<<"input_embeds", 0>>, <<"logit_positions", 0>>, <<"paged_kv_cache", 0>>}

\* layer_partition: where the stages begin.
LayerPartition(layers, pp) ==
  LET per == (layers + pp - 1) \div pp IN {i * per : i \in 0..(pp - 1)} \cup {layers}

\* batch_forward: the layers with the boundaries between them, then the final
\* norm, the rows at logit_positions, and the logits.
ModelBindings(layers, pp) ==
  LET hidden(l) == <<IF l = 0 THEN "input_embeds" ELSE "hidden", l>>
      received(l) == <<"received", l>>
      cut(l) == l # 0 /\ l \in LayerPartition(layers, pp)
      layer(l) == (IF cut(l) THEN <<PipelineStageBoundary(received(l), hidden(l))>> ELSE <<>>)
                  \o <<Binding("layer", hidden(l + 1),
                               {IF cut(l) THEN received(l) ELSE hidden(l), <<"paged_kv_cache", 0>>},
                               {<<"layer", l>>})>>
  IN  FlattenSeq([i \in 1..layers |-> layer(i - 1)])
      \o <<Binding("norm", <<"normed", 0>>, {hidden(layers)}, {<<"norm", 0>>}),
           Binding("take", <<"rows", 0>>, {<<"normed", 0>>, <<"logit_positions", 0>>}, {}),
           Binding("logits", <<"logits", 0>>, {<<"rows", 0>>}, {<<"lm_head", 0>>})>>

\* _extract_pipeline_stages: the bindings between the boundaries, what a stage
\* hands on and what it receives.
ExtractPipelineStages(bindings) ==
  LET first == [bindings |-> <<>>, receives |-> {}, sends |-> {}]
      step(stages, b) ==
        IF b.kind = "boundary"
        THEN Append([stages EXCEPT ![Len(stages)].sends = b.uses], [first EXCEPT !.receives = {b.var}])
        ELSE [stages EXCEPT ![Len(stages)].bindings = Append(@, b)]
  IN  FoldLeft(step, <<first>>, bindings)

\* _analyze_required_func_params
RequiredFuncParams(stage) ==
  UNION {stage.bindings[i].uses : i \in DOMAIN stage.bindings} \cap FuncParams

\* _create_stage_func: what the stage receives, its bindings, then what it sends.
CreateStageFunc(stage) == [params |-> RequiredFuncParams(stage)] @@ stage

\* transform: a function of one stage is left as it is.
StageFunctions(layers, pp) ==
  LET stages == ExtractPipelineStages(ModelBindings(layers, pp))
  IN  [g \in DOMAIN stages |-> CreateStageFunc(stages[g])]
TransformAccepts(layers, pp) ==
  LET stages == ExtractPipelineStages(ModelBindings(layers, pp))
  IN  pp > 1 => Len(stages) = pp /\ \A g \in DOMAIN stages : stages[g].bindings # <<>>

\* The weights a stage's function takes from the packed parameters.
WeightsOf(f) == UNION {f.bindings[i].reads : i \in DOMAIN f.bindings}

\* Everything a stage uses is there when it is used, and it sends as much as the
\* next one receives.
StageFunctionsClosed(layers, pp) ==
  LET fs == StageFunctions(layers, pp)
  IN  \A g \in DOMAIN fs :
        LET f == fs[g]
            before(i) == f.params \cup f.receives \cup {f.bindings[j].var : j \in 1..(i - 1)}
        IN  /\ \A i \in DOMAIN f.bindings : f.bindings[i].uses \subseteq before(i)
            /\ f.sends \subseteq before(Len(f.bindings) + 1)
            /\ g < Len(fs) => Cardinality(f.sends) = Cardinality(fs[g + 1].receives)
=============================================================================
