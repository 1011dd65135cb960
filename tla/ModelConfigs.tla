---------------------------- MODULE ModelConfigs ----------------------------
(***************************************************************************)
(* The configuration classes of the model families (XConfig in             *)
(* python/mlc_llm/model): how __post_init__ completes a configuration, what *)
(* it rejects, and how overrides are applied (support/config.py,            *)
(* interface/compiler_flags.py, interface/gen_config.py).                   *)
(*                                                                         *)
(* A source is a function of the names in a config.json; a configuration is *)
(* a function of the fields of its class, with the other names in kwargs   *)
(* and ok saying that nothing was raised.  n_embd, n_head, n_layer and       *)
(* num_heads have the names they have in most classes.  Fields that only    *)
(* describe the mathematics (rotary embeddings, activations, biases) are     *)
(* left out, and what is asserted of them with them.                        *)
(***************************************************************************)
EXTENDS Integers, Sequences, FiniteSets, TLC

LOCAL Least(a, b) == IF a <= b THEN a ELSE b
LOCAL Most(a, b) == IF a <= b THEN b ELSE a

-----------------------------------------------------------------------------
(* Fields and defaults *)

\* The fields all classes have, with the value that stands for "not given".
CommonFields ==
  [hidden_size |-> 0, num_attention_heads |-> 0, num_key_value_heads |-> 0, head_dim |-> 0,
   num_hidden_layers |-> 0, context_window_size |-> 0, prefill_chunk_size |-> 0,
   tensor_parallel_shards |-> 1]

Sliding == [sliding_window_size |-> 0]
Staged == [pipeline_parallel_stages |-> 1]
Batched == [max_batch_size |-> 1]
Unknown == [context_window_size |-> -1, prefill_chunk_size |-> -1]

\* The fields of a family's class and their defaults.
Defaults(family) ==
  CASE family \in {"mistral", "ministral3"} ->
         [attention_sink_size |-> IF family = "mistral" THEN 4 ELSE 0]
         @@ Sliding @@ Batched @@ CommonFields
    [] family \in {"llama", "eagle", "mixtral", "olmo", "olmo2"} -> Staged @@ Batched @@ CommonFields
    [] family = "nemotron" ->
         [max_position_embeddings |-> 0] @@ Staged @@ Batched @@ CommonFields
    [] family = "llama4" -> [text_config |-> <<>>] @@ Staged @@ Batched @@ CommonFields
    [] family = "cohere" -> [position_embedding_base |-> 0] @@ Batched @@ CommonFields
    [] family = "phi-msft" -> [n_positions |-> 2048] @@ CommonFields
    [] family = "gpt_bigcode" -> [n_positions |-> 0] @@ Batched @@ CommonFields
    [] family \in {"phi3", "phi3_v"} -> [max_position_embeddings |-> 0] @@ Batched @@ CommonFields
    [] family \in {"rwkv5", "rwkv6"} ->
         [context_window_size |-> -1, prefill_chunk_size |-> 4096] @@ Batched @@ CommonFields
    [] family = "gemma2" -> [sliding_window |-> 0] @@ Batched @@ CommonFields
    [] family = "Gemma3TextConfig" ->
         [context_window_size |-> 131072, sliding_window_size |-> 0] @@ CommonFields
    [] family \in {"gemma3", "gemma3_text"} ->
         [text_config |-> <<>>, sliding_window_size |-> -1, tensor_parallel_shards |-> 1]
         @@ Unknown @@ Batched
    [] family = "llava" ->
         [text_config |-> <<>>, text_architecture |-> "llama", sliding_window_size |-> -1]
         @@ Unknown @@ Batched @@ CommonFields
    [] family = "medusa" -> Unknown @@ Batched @@ CommonFields
    [] OTHER -> Batched @@ CommonFields

\* Ministral3Config.from_dict: a nested text configuration comes first.
Ministral3Source(source) ==
  IF "text_config" \in DOMAIN source
  THEN source["text_config"] @@ [k \in DOMAIN source \ {"text_config"} |-> source[k]]
  ELSE source

\* ConfigBase.from_dict, before __post_init__: unknown names become kwargs.
FromDict(family, source0) ==
  LET d == Defaults(family)
      source == IF family = "ministral3" THEN Ministral3Source(source0) ELSE source0
  IN  [kwargs |-> [k \in DOMAIN source \ DOMAIN d |-> source[k]], ok |-> TRUE, family |-> family]
      @@ [k \in DOMAIN d |-> IF k \in DOMAIN source THEN source[k] ELSE d[k]]

\* asdict.
AsDict(c) == [k \in DOMAIN c \ {"kwargs", "ok", "family"} |-> c[k]]
\* A nested configuration as a dictionary again, with its kwargs among the names.
Plain(c) == c.kwargs @@ AsDict(c)

-----------------------------------------------------------------------------
(* What the classes' __post_init__ are made of *)

Require(c, p) == [c EXCEPT !.ok = @ /\ p]

\* context_window_size falls back to the first of the names in kwargs; none of
\* them is an error.
WindowFrom(c, names) ==
  LET found == {i \in DOMAIN names : names[i] \in DOMAIN c.kwargs}
  IN  IF c.context_window_size # 0 THEN c
      ELSE IF found = {} THEN Require(c, FALSE)
      ELSE [c EXCEPT !.context_window_size =
              c.kwargs[names[CHOOSE i \in found : \A j \in found : i <= j]]]

MaxPositions == <<"max_position_embeddings", "max_sequence_length">>

\* A missing or too long prefill chunk becomes the window, at most cap.
ChunkWithin(c, cap) ==
  [c EXCEPT !.prefill_chunk_size =
     IF @ = 0 \/ @ > c.context_window_size THEN Least(c.context_window_size, cap) ELSE @]

HeadDim(c) ==
  [c EXCEPT !.head_dim = IF @ = 0 THEN c.hidden_size \div c.num_attention_heads ELSE @]
Exact(c) == Require(c, c.head_dim * c.num_attention_heads = c.hidden_size)
DefaultKv(c) ==
  [c EXCEPT !.num_key_value_heads = IF @ = 0 THEN c.num_attention_heads ELSE @]
Grouped(c) == Require(c, c.num_attention_heads % c.num_key_value_heads = 0)
Stages(c) == Require(c, c.pipeline_parallel_stages \in 1..c.num_hidden_layers)

\* The three limits of a nested text configuration where there are none.
LimitsOf(c, text) ==
  [c EXCEPT !.context_window_size = IF @ <= 0 THEN text.context_window_size ELSE @,
            !.sliding_window_size =
              IF @ <= 0 /\ "sliding_window_size" \in DOMAIN text THEN text.sliding_window_size ELSE @,
            !.prefill_chunk_size = IF @ <= 0 THEN text.prefill_chunk_size ELSE @]

-----------------------------------------------------------------------------
(* The classes *)

BaichuanConfig(c) == ChunkWithin(Exact(HeadDim(WindowFrom(c, MaxPositions))), 8192)
DeepseekConfig(c) == ChunkWithin(Exact(HeadDim(WindowFrom(c, MaxPositions))), 8192)
InternLMConfig(c) == ChunkWithin(Exact(HeadDim(WindowFrom(c, MaxPositions))), 8192)
InternLM2Config(c) == ChunkWithin(Exact(HeadDim(WindowFrom(c, MaxPositions))), 2048)
MiniCPMConfig(c) == ChunkWithin(Exact(HeadDim(WindowFrom(c, MaxPositions))), 8192)
QWenConfig(c) == ChunkWithin(Exact(HeadDim(WindowFrom(c, MaxPositions))), 8192)
QWen2Config(c) == ChunkWithin(Exact(HeadDim(WindowFrom(c, MaxPositions))), 8192)
StableLmConfig(c) == ChunkWithin(Exact(HeadDim(WindowFrom(c, MaxPositions))), 8192)
Starcoder2Config(c) == ChunkWithin(Exact(HeadDim(WindowFrom(c, MaxPositions))), 8192)
GPTNeoXConfig(c) == ChunkWithin(Exact(HeadDim(WindowFrom(c, MaxPositions))), 8192)
BertConfig(c) ==
  LET d == Exact(HeadDim(WindowFrom(c, MaxPositions))) IN ChunkWithin(d, d.context_window_size)
GLMConfig(c) ==
  ChunkWithin(Exact(HeadDim(WindowFrom(c, <<"max_position_embeddings", "seq_length">>))), 8192)
GPT2Config(c) ==
  ChunkWithin(Exact(HeadDim(WindowFrom(c, <<"n_positions", "max_sequence_length">>))), 8192)
GPTJConfig(c) ==
  ChunkWithin(Exact(HeadDim(WindowFrom(c, <<"max_position_embeddings", "n_positions">>))), 8192)

\* The window is a field of its own.
WindowField(c, value) ==
  [c EXCEPT !.context_window_size = IF @ = 0 THEN value ELSE @]
GPTBigCodeConfig(c) ==
  ChunkWithin(Require(WindowField(c, c.n_positions),
                      c.context_window_size # 0 \/ c.n_positions > 0), 8192)
NemotronConfig(c) ==
  ChunkWithin(Exact(HeadDim(WindowField(c, c.max_position_embeddings))), 8192)
Phi3Config(c) ==
  Grouped(Exact(HeadDim(DefaultKv(ChunkWithin(WindowField(c, c.max_position_embeddings), 8192)))))
Phi3VConfig(c) ==
  Grouped(Exact(HeadDim(DefaultKv(ChunkWithin(WindowField(c, c.max_position_embeddings), 8192)))))

Phi1Config(c) ==
  Grouped(Exact(HeadDim(DefaultKv(ChunkWithin(WindowFrom(c, MaxPositions), 8192)))))
\* Falls back to n_positions, and limits the chunk by the window alone.
PhiConfig(c) ==
  LET w == IF \E n \in {"max_position_embeddings", "max_sequence_length"} : n \in DOMAIN c.kwargs
           THEN WindowFrom(c, MaxPositions) ELSE WindowField(c, c.n_positions)
  IN  Grouped(Exact(HeadDim(DefaultKv(ChunkWithin(w, w.context_window_size)))))

LlamaConfig(c) ==
  ChunkWithin(Grouped(HeadDim(DefaultKv(Stages(WindowFrom(c, MaxPositions))))), 8192)
EagleConfig(c) == LlamaConfig(c)
MixtralConfig(c) == LlamaConfig(c)
OLMoConfig(c) ==
  Stages(ChunkWithin(WindowFrom(Grouped(HeadDim(DefaultKv(c))), MaxPositions), 8192))
OLMo2Config(c) ==
  Stages(ChunkWithin(WindowFrom(Grouped(HeadDim(DefaultKv(c))), MaxPositions), 8192))
OrionConfig(c) ==
  ChunkWithin(Grouped(Exact(HeadDim(DefaultKv(WindowFrom(c, MaxPositions))))), 8192)

\* The heads are those of the text configuration.
Llama4TextConfig(c) == Grouped(HeadDim(DefaultKv(FromDict("Llama4TextConfig", c.text_config))))
Llama4Config(c) ==
  LET text == Llama4TextConfig(c)
      names == {"hidden_size", "num_attention_heads", "num_key_value_heads", "head_dim",
                "num_hidden_layers"}
      d == ChunkWithin(WindowField(c, 4096 * 32), 8192)
  IN  Require([text_config |-> Plain(text)] @@ [n \in names |-> text[n]] @@ d, text.ok)

\* Everything is done only while the base of the rotary embedding is missing.
CohereConfig(c) ==
  LET found == \E n \in {"max_position_embeddings", "max_sequence_length"} : n \in DOMAIN c.kwargs
      w == IF found THEN WindowFrom(c, MaxPositions) ELSE c
  IN  IF c.position_embedding_base # 0 THEN c
      ELSE [Grouped(Exact(HeadDim(DefaultKv(ChunkWithin(w, 8192)))))
              EXCEPT !.position_embedding_base = 10000]

\* A sliding window replaces the context window; a chunk is not checked.
SlidingConfig(c) ==
  LET s == [c EXCEPT !.sliding_window_size =
              IF @ # 0 THEN @ ELSE IF "sliding_window" \in DOMAIN c.kwargs
                                   THEN c.kwargs["sliding_window"] ELSE -1]
      w == IF s.context_window_size # 0 \/ s.sliding_window_size = -1
           THEN WindowFrom(s, MaxPositions) ELSE [s EXCEPT !.context_window_size = -1]
      limits == {w.sliding_window_size, w.context_window_size, 8192} \ {-1}
      d == Require(Grouped(HeadDim(DefaultKv(w))), w.attention_sink_size >= 0)
  IN  [d EXCEPT !.prefill_chunk_size =
         IF @ = 0 THEN CHOOSE x \in limits : \A y \in limits : x <= y ELSE @]
MistralConfig(c) == SlidingConfig(c)
Ministral3Config(c) == SlidingConfig(c)

GemmaConfig(c) == ChunkWithin(Grouped(WindowFrom(c, MaxPositions)), 8192)
Gemma2Config(c) == [GemmaConfig(c) EXCEPT !.context_window_size = c.sliding_window]
Gemma3TextConfig(c) ==
  LET s == [c EXCEPT !.sliding_window_size = IF @ = 0 THEN c.kwargs["sliding_window"] ELSE @]
      d == ChunkWithin(Grouped(WindowFrom(s, MaxPositions)), 8192)
  IN  [d EXCEPT !.context_window_size = Most(d.sliding_window_size, 8192)]
\* The text configuration is nested, or is what the class itself does not know
\* and then is resolved twice.
Gemma3Config(c) ==
  LET resolve(source) == Gemma3TextConfig(FromDict("Gemma3TextConfig", source))
      text == IF c.text_config = <<>> THEN resolve(Plain(resolve(c.kwargs)))
              ELSE resolve(c.text_config)
      names == {"hidden_size", "num_attention_heads", "num_key_value_heads", "head_dim",
                "num_hidden_layers"}
      d == [n \in names |-> text[n]] @@ LimitsOf(c, text)
  IN  Require([d EXCEPT !.text_config = Plain(text)], text.ok)

DeepseekV2Config(c) == ChunkWithin(Grouped(WindowFrom(c, MaxPositions)), 2048)
Qwen3Config(c) == ChunkWithin(WindowFrom(c, MaxPositions), 2048)
Qwen2MoeConfig(c) == QWen2Config(c)
Qwen3MoeConfig(c) == Qwen3Config(c)
\* The names of a nested text configuration are taken over first.
Qwen35Config(c) ==
  LET text == IF "text_config" \in DOMAIN c.kwargs THEN c.kwargs["text_config"] ELSE <<>>
      merged == [k \in DOMAIN c |->
                   IF k = "kwargs" THEN text @@ c.kwargs
                   ELSE IF k \in DOMAIN text THEN text[k] ELSE c[k]]
  IN  ChunkWithin(WindowFrom(merged, MaxPositions), 2048)
RWKV5Config(c) == Require(c, c.tensor_parallel_shards = 1)
RWKV6Config(c) == Require(c, c.tensor_parallel_shards = 1)
MedusaConfig(c) == c

\* The text configuration is that of a Llama or Mistral model; with a path, it
\* is completed from the configuration found there.  tensor_parallel_shards is
\* not handed down.
LlavaConfig(c) ==
  LET named == "_name_or_path" \in DOMAIN c.text_config
      hf == c.text_config["_name_or_path"]
      source == IF named THEN hf @@ c.text_config ELSE c.text_config
      family == IF named THEN hf["architectures"] ELSE c.text_architecture
      text == IF family = "mistral" THEN MistralConfig(FromDict("mistral", source))
              ELSE LlamaConfig(FromDict("llama", source))
      names == {"hidden_size", "num_attention_heads", "num_key_value_heads", "head_dim",
                "num_hidden_layers"}
      d == [n \in names |-> text[n]] @@ LimitsOf(c, text)
  IN  Require([d EXCEPT !.text_config = [n \in DOMAIN Plain(text) \ {"_name_or_path"} |-> Plain(text)[n]],
                        !.text_architecture = family], text.ok)

-----------------------------------------------------------------------------
(* Resolving and overriding *)

\* MODELS: __post_init__ of a family's class.
PostInit(c) ==
  CASE c.family = "baichuan" -> BaichuanConfig(c)
    [] c.family = "deepseek" -> DeepseekConfig(c)
    [] c.family = "internlm" -> InternLMConfig(c)
    [] c.family = "internlm2" -> InternLM2Config(c)
    [] c.family = "minicpm" -> MiniCPMConfig(c)
    [] c.family = "qwen" -> QWenConfig(c)
    [] c.family = "qwen2" -> QWen2Config(c)
    [] c.family = "stablelm" -> StableLmConfig(c)
    [] c.family = "starcoder2" -> Starcoder2Config(c)
    [] c.family = "gpt_neox" -> GPTNeoXConfig(c)
    [] c.family \in {"bert", "bert-bge"} -> BertConfig(c)
    [] c.family = "chatglm" -> GLMConfig(c)
    [] c.family = "gpt2" -> GPT2Config(c)
    [] c.family = "gptj" -> GPTJConfig(c)
    [] c.family = "gpt_bigcode" -> GPTBigCodeConfig(c)
    [] c.family = "nemotron" -> NemotronConfig(c)
    [] c.family = "phi3" -> Phi3Config(c)
    [] c.family = "phi3_v" -> Phi3VConfig(c)
    [] c.family = "phi" -> Phi1Config(c)
    [] c.family = "phi-msft" -> PhiConfig(c)
    [] c.family = "llama" -> LlamaConfig(c)
    [] c.family = "eagle" -> EagleConfig(c)
    [] c.family = "mixtral" -> MixtralConfig(c)
    [] c.family = "olmo" -> OLMoConfig(c)
    [] c.family = "olmo2" -> OLMo2Config(c)
    [] c.family = "orion" -> OrionConfig(c)
    [] c.family = "llama4" -> Llama4Config(c)
    [] c.family = "cohere" -> CohereConfig(c)
    [] c.family = "mistral" -> MistralConfig(c)
    [] c.family = "ministral3" -> Ministral3Config(c)
    [] c.family = "gemma" -> GemmaConfig(c)
    [] c.family = "gemma2" -> Gemma2Config(c)
    [] c.family \in {"gemma3", "gemma3_text"} -> Gemma3Config(c)
    [] c.family \in {"deepseek_v2", "deepseek_v3"} -> DeepseekV2Config(c)
    [] c.family \in {"qwen3", "qwen3-embedding"} -> Qwen3Config(c)
    [] c.family = "qwen2_moe" -> Qwen2MoeConfig(c)
    [] c.family = "qwen3_moe" -> Qwen3MoeConfig(c)
    [] c.family \in {"qwen3_5", "qwen3_5_text"} -> Qwen35Config(c)
    [] c.family = "rwkv5" -> RWKV5Config(c)
    [] c.family = "rwkv6" -> RWKV6Config(c)
    [] c.family = "medusa" -> MedusaConfig(c)
    [] c.family = "llava" -> LlavaConfig(c)

Resolve(family, source) == PostInit(FromDict(family, source))

Overridable == {"context_window_size", "sliding_window_size", "prefill_chunk_size",
                "attention_sink_size", "max_batch_size", "tensor_parallel_shards",
                "pipeline_parallel_stages"}

\* ModelConfigOverride.apply: only fields the class has are overridden, and the
\* result is resolved again, now without kwargs.
Apply(overrides, c) ==
  LET fields == AsDict(c)
      updated == [k \in DOMAIN fields |->
                    IF k \in DOMAIN overrides \cap Overridable THEN overrides[k] ELSE fields[k]]
  IN  IF c.ok THEN Resolve(c.family, updated) ELSE c

\* The limits in mlc-chat-config.json, at its top level.
Limits(c) ==
  LET get(name, default) == IF name \in DOMAIN c THEN c[name] ELSE default
  IN  [context_window_size |-> get("context_window_size", -1),
       sliding_window_size |-> get("sliding_window_size", -1),
       prefill_chunk_size |-> c.prefill_chunk_size,
       attention_sink_size |-> get("attention_sink_size", -1),
       tensor_parallel_shards |-> c.tensor_parallel_shards,
       pipeline_parallel_stages |-> get("pipeline_parallel_stages", 1)]

\* gen_config: the configuration of a model with the user's overrides, and again
\* its limits at the top.  edits are made to them by hand afterwards.
GenConfig(family, source, overrides, edits) ==
  LET c == Apply(overrides, Resolve(family, source))
  IN  [ok |-> c.ok, model_type |-> family, model_config |-> AsDict(c),
       top |-> [k \in DOMAIN Limits(c) |-> IF k \in DOMAIN edits THEN edits[k] ELSE Limits(c)[k]]]
=============================================================================
