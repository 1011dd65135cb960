---------------------------- MODULE ModelEntries ----------------------------
(***************************************************************************)
(* What a compiled model offers the engine (XModel and XForCausalLM in      *)
(* python/mlc_llm/model): which functions it exports, which rows of its     *)
(* result each of them returns and which of its inputs it broadcasts to the *)
(* other workers, which slots of the caches its layers use, from where it   *)
(* takes the positions of the tokens, and the caches it creates.            *)
(*                                                                         *)
(* A configuration c is that of ModelConfigs; tp is its number of workers. *)
(* The heads of the layers are those of ModelFamilies.  Only pipelines of  *)
(* one stage are considered.                                               *)
(***************************************************************************)
EXTENDS ModelConfigs, ModelFamilies

-----------------------------------------------------------------------------
(* Functions *)

\* A function of the library: the inputs it broadcasts from worker 0 if there
\* are several workers, the rows of the result it returns ("all", the "last" or
\* those "taken" at the given positions), and whether its tokens attend to the
\* "cache" or to the "new" tokens only.
Fn(broadcasts, rows) == [broadcasts |-> broadcasts, rows |-> rows, attends |-> "cache"]

Embed == Fn({"input_ids"}, "all")
BatchPrefill == Fn({"logit_positions"}, "taken")

\* What most families export.
StandardFunctions ==
  [embed |-> Embed, prefill |-> Fn({}, "last"), decode |-> Fn({}, "all"),
   batch_prefill |-> BatchPrefill, batch_decode |-> Fn({}, "all"), batch_verify |-> Fn({}, "all")]

\* The functions that stop before the logits.
ToLastHiddenStates ==
  [name \in {"prefill_to_last_hidden_states", "decode_to_last_hidden_states",
             "batch_prefill_to_last_hidden_states", "batch_decode_to_last_hidden_states"} |->
     Fn({}, "all")]

HiddenFunctions ==
  [get_logits |-> Fn({}, "all"),
   batch_select_last_hidden_states |-> Fn({"logit_positions"}, "taken"),
   batch_verify_to_last_hidden_states |-> Fn({}, "all")] @@ ToLastHiddenStates @@ StandardFunctions

-----------------------------------------------------------------------------
(* Layers and caches *)

\* What a layer keeps for a sequence: the state it reads and writes, and where.
Keeps(kind, slot, reads, writes) == [kind |-> kind, slot |-> slot, reads |-> reads, writes |-> writes]
\* A model's layers, and where the positions of the tokens come from: the cache
\* rotates by them ("rope"), they are those of all tokens of the call ("all"), or
\* of as many tokens as the input has in its second dimension ("second"); heads
\* are those of one worker's attention.
Stack(layers, positions, heads) == [layers |-> layers, positions |-> positions, heads |-> heads]
\* Layer i uses slot i of the paged cache.
Attentions(c) ==
  [i \in 1..c.num_hidden_layers |-> Keeps("kv", i - 1, {"kv"}, {"kv"})]

\* The size of a family's layers for ModelFamilies; channels do not matter.
Shape(c, tp) ==
  [heads |-> c.num_attention_heads,
   kv |-> IF c.num_key_value_heads = 0 THEN c.num_attention_heads ELSE c.num_key_value_heads,
   inter |-> 2 * tp, moe |-> 2 * tp, shared |-> 2 * tp, bias |-> FALSE, parallel |-> FALSE, dense |-> 0]

\* The heads of a layer's attention.
Heads(layer) ==
  LET b == CHOOSE x \in layer.blocks : \E r \in x.reads : r.part = "o"
      k == {r.n : r \in {x \in b.reads : x.part = "k"}}
  IN  [q |-> b.width, kv |-> IF k = {} THEN 1 ELSE CHOOSE n \in k : TRUE]
NoHeads == [q |-> 0, kv |-> 0]

Decoder(c, layer) == Stack(Attentions(c), "rope", Heads(layer))

\* create_paged_kv_cache with q and kv heads in all.
PagedKVCache(layers, q, kv, tp) == [layers |-> layers, q |-> q \div tp, kv |-> kv \div tp, kind |-> "mha"]
NoCache == [layers |-> 0, q |-> 0, kv |-> 0, kind |-> "none"]
\* create_rnn_state.
RNNState(layers, states) == [layers |-> layers, states |-> states]
NoState == RNNState(0, {})

Model(functions, stack, cache) == [functions |-> functions, cache |-> cache, rnn |-> NoState] @@ stack

\* A model with as many cache layers as layers.
CausalLM(functions, stack, c, tp, kv) ==
  Model(functions, stack, PagedKVCache(c.num_hidden_layers, c.num_attention_heads, kv, tp))

-----------------------------------------------------------------------------
(* Families with a key-value head for every head *)

BaichuanModel(c, tp) == Decoder(c, BaichuanDecoderLayer(Shape(c, tp), tp))
BaichuanSpec == StandardFunctions
BaichuanForCausalLM(c, tp) ==
  CausalLM(BaichuanSpec, BaichuanModel(c, tp), c, tp, c.num_attention_heads)
InternLMModel(c, tp) == Decoder(c, InternLMDecoderLayer(Shape(c, tp), tp))
InternLMSpec == StandardFunctions
InternLMForCausalLM(c, tp) ==
  CausalLM(InternLMSpec, InternLMModel(c, tp), c, tp, c.num_attention_heads)
QWenModel(c, tp) == Decoder(c, QWenBlock(Shape(c, tp), tp))
QWenSpec == StandardFunctions
QWenLMHeadModel(c, tp) == CausalLM(QWenSpec, QWenModel(c, tp), c, tp, c.num_attention_heads)
GPTNeoXModel(c, tp) == Decoder(c, GPTNeoXLayer(Shape(c, tp), tp))
GPTNeoXSpec == StandardFunctions
GPTNeoXForCausalLM(c, tp) ==
  CausalLM(GPTNeoXSpec, GPTNeoXModel(c, tp), c, tp, c.num_attention_heads)
\* The positions are embedded, and taken from the second dimension.
GPT2Model(c, tp) == Stack(Attentions(c), "second", Heads(GPT2Block(Shape(c, tp), tp)))
GPT2Spec == StandardFunctions
GPT2LMHeadModel(c, tp) == CausalLM(GPT2Spec, GPT2Model(c, tp), c, tp, c.num_attention_heads)

GPTJAttention(c, tp) == [q |-> c.num_attention_heads \div tp, kv |-> c.num_attention_heads \div tp]
GPTJModel(c, tp) == Stack(Attentions(c), "rope", GPTJAttention(c, tp))
GPTJSpec == StandardFunctions
GPTJForCausalLM(c, tp) ==
  Model(GPTJSpec, GPTJModel(c, tp),
        PagedKVCache(c.num_hidden_layers, c.num_attention_heads, c.num_attention_heads, tp))

-----------------------------------------------------------------------------
(* Families with key-value heads of their own *)

GLMTransformer(c, tp) == Decoder(c, GLMBlock(Shape(c, tp), tp))
ChatGLMSpec == StandardFunctions
ChatGLMForCausalLM(c, tp) ==
  CausalLM(ChatGLMSpec, GLMTransformer(c, tp), c, tp, c.num_key_value_heads)
CohereModel(c, tp) == Decoder(c, CohereDecoderLayer(Shape(c, tp), tp))
CohereSpec == StandardFunctions
CohereForCausalLM(c, tp) == CausalLM(CohereSpec, CohereModel(c, tp), c, tp, c.num_key_value_heads)
DeepseekModel(c, tp) == Decoder(c, DeepseekDecoderLayer(Shape(c, tp), tp, 1))
DeepseekSpec == StandardFunctions
DeepseekForCausalLM(c, tp) ==
  CausalLM(DeepseekSpec, DeepseekModel(c, tp), c, tp, c.num_key_value_heads)
\* get_logits is not exported.
GemmaModel(c, tp) == Decoder(c, GemmaDecoderLayer(Shape(c, tp), tp))
GemmaSpec == StandardFunctions
GemmaForCausalLM(c, tp) == CausalLM(GemmaSpec, GemmaModel(c, tp), c, tp, c.num_key_value_heads)
Gemma2Model(c, tp) == Decoder(c, Gemma2DecoderLayer(Shape(c, tp), tp))
Gemma2ForCausalLM(c, tp) == Gemma2Model(c, tp) @@ GemmaForCausalLM(c, tp)
GPTBigCodeModel(c, tp) == Stack(Attentions(c), "second", Heads(GPTBigCodeBlock(Shape(c, tp), tp)))
GPTBigCodeSpec == StandardFunctions
GPTBigCodeForCausalLM(c, tp) == CausalLM(GPTBigCodeSpec, GPTBigCodeModel(c, tp), c, tp, 1)
InternLM2Model(c, tp) == Decoder(c, InternLM2DecoderLayer(Shape(c, tp), tp))
InternLM2Spec == StandardFunctions
InternLM2ForCausalLM(c, tp) ==
  CausalLM(InternLM2Spec, InternLM2Model(c, tp), c, tp, c.num_key_value_heads)
MiniCPMModel(c, tp) == Decoder(c, MiniCPMDecoderLayer(Shape(c, tp), tp))
MiniCPMSpec == StandardFunctions
MiniCPMForCausalLM(c, tp) == CausalLM(MiniCPMSpec, MiniCPMModel(c, tp), c, tp, c.num_key_value_heads)
MistralModel(c, tp) == Decoder(c, MistralDecoderLayer(Shape(c, tp), tp))
MistralSpec == StandardFunctions
MistralForCausalLM(c, tp) == CausalLM(MistralSpec, MistralModel(c, tp), c, tp, c.num_key_value_heads)
Ministral3Model(c, tp) == Decoder(c, Ministral3DecoderLayer(Shape(c, tp), tp))
Ministral3Spec == StandardFunctions
Mistral3ForConditionalGeneration(c, tp) ==
  CausalLM(Ministral3Spec, Ministral3Model(c, tp), c, tp, c.num_key_value_heads)
OrionModel(c, tp) == Decoder(c, OrionDecoderLayer(Shape(c, tp), tp))
OrionSpec == StandardFunctions
OrionForCausalLM(c, tp) == CausalLM(OrionSpec, OrionModel(c, tp), c, tp, c.num_key_value_heads)
PhiModel(c, tp) == Decoder(c, PhiParallelBlock(Shape(c, tp), tp))
PhiSpec == StandardFunctions
PhiForCausalLM(c, tp) == CausalLM(PhiSpec, PhiModel(c, tp), c, tp, c.num_key_value_heads)
Phi3Model(c, tp) == Decoder(c, Phi3ParallelBlock(Shape(c, tp), tp))
Phi3Spec == StandardFunctions
Phi3ForCausalLM(c, tp) == CausalLM(Phi3Spec, Phi3Model(c, tp), c, tp, c.num_key_value_heads)
QWen2Model(c, tp) == Decoder(c, QWen2DecoderLayer(Shape(c, tp), tp))
QWen2Spec == StandardFunctions
QWen2LMHeadModel(c, tp) == CausalLM(QWen2Spec, QWen2Model(c, tp), c, tp, c.num_key_value_heads)
Qwen2MoeModel(c, tp) == Decoder(c, Qwen2MoeDecoderLayer(Shape(c, tp), tp))
Qwen2MoeSpec == StandardFunctions
Qwen2MoeForCausalLM(c, tp) ==
  CausalLM(Qwen2MoeSpec, Qwen2MoeModel(c, tp), c, tp, c.num_key_value_heads)
Qwen3Model(c, tp) == Decoder(c, Qwen3DecoderLayer(Shape(c, tp), tp))
Qwen3Spec == StandardFunctions
Qwen3LMHeadModel(c, tp) == CausalLM(Qwen3Spec, Qwen3Model(c, tp), c, tp, c.num_key_value_heads)
Qwen3MoeModel(c, tp) == Decoder(c, Qwen3MoeDecoderLayer(Shape(c, tp), tp))
Qwen3MoeSpec == StandardFunctions
Qwen3MoeForCausalLM(c, tp) ==
  CausalLM(Qwen3MoeSpec, Qwen3MoeModel(c, tp), c, tp, c.num_key_value_heads)
StableLmModel(c, tp) == Decoder(c, StableLmDecoderLayer(Shape(c, tp), tp))
StableLmSpec == StandardFunctions
StableLmForCausalLM(c, tp) ==
  CausalLM(StableLmSpec, StableLmModel(c, tp), c, tp, c.num_key_value_heads)
Starcoder2Model(c, tp) == Decoder(c, Starcoder2DecoderLayer(Shape(c, tp), tp))
Starcoder2Spec == StandardFunctions
Starcoder2ForCausalLM(c, tp) ==
  CausalLM(Starcoder2Spec, Starcoder2Model(c, tp), c, tp, c.num_key_value_heads)

\* Sliding and full attention alternate; the language model alone, or inside
\* the class that wraps it.
Gemma3TextModel(c, tp) == Decoder(c, Gemma3DecoderLayer(Shape(c, tp), tp))
Gemma3LanguageSpec == StandardFunctions
Gemma3LanguageModel(c, tp) ==
  CausalLM(Gemma3LanguageSpec, Gemma3TextModel(c, tp), c, tp, c.num_key_value_heads)
Gemma3Spec == StandardFunctions
Gemma3ForCausalLM(c, tp) == [Gemma3LanguageModel(c, tp) EXCEPT !.functions = Gemma3Spec]

-----------------------------------------------------------------------------
(* Families that also return hidden states *)

LlamaModel(c, tp) == Decoder(c, LlamaDecoderLayer(Shape(c, tp), tp))
LlamaSpec == HiddenFunctions
LlamaForCausalLM(c, tp) == CausalLM(LlamaSpec, LlamaModel(c, tp), c, tp, c.num_key_value_heads)
MixtralModel(c, tp) == Decoder(c, MixtralDecoderLayer(Shape(c, tp), tp))
MixtralForCausalLM(c, tp) == MixtralModel(c, tp) @@ LlamaForCausalLM(c, tp)
NemotronModel(c, tp) == Decoder(c, NemotronDecoderLayer(Shape(c, tp), tp))
NemotronSpec == HiddenFunctions
NemotronForCausalLM(c, tp) == CausalLM(NemotronSpec, NemotronModel(c, tp), c, tp, c.num_key_value_heads)
OLMoModel(c, tp) == Decoder(c, OLMoDecoderLayer(Shape(c, tp), tp))
OLMoSpec == HiddenFunctions
OLMoForCausalLM(c, tp) == CausalLM(OLMoSpec, OLMoModel(c, tp), c, tp, c.num_key_value_heads)
OLMo2Model(c, tp) == Decoder(c, OLMo2DecoderLayer(Shape(c, tp), tp))
OLMo2Spec == HiddenFunctions
OLMo2ForCausalLM(c, tp) == CausalLM(OLMo2Spec, OLMo2Model(c, tp), c, tp, c.num_key_value_heads)
\* Layers rotate by themselves, with the positions of all tokens.
Llama4TextModel(c, tp) == Stack(Attentions(c), "all", Heads(Llama4TextDecoderLayer(Shape(c, tp), tp)))
Llama4Spec == HiddenFunctions
Llama4ForCausalLM(c, tp) == CausalLM(Llama4Spec, Llama4TextModel(c, tp), c, tp, c.num_key_value_heads)

\* The draft model of EAGLE has no logits of its own.
EagleSpec == [embed |-> Embed, fuse_embed_hidden_states |-> Fn({}, "all")] @@ ToLastHiddenStates
EagleForCausalLM(c, tp) ==
  CausalLM(EagleSpec, Decoder(c, EagleDecoderLayer(Shape(c, tp), tp)), c, tp, c.num_key_value_heads)
MedusaModel == Model([get_logits |-> Fn({}, "all")], Stack(<<>>, "rope", NoHeads), NoCache)

\* The embedding models: the last hidden states of a decoder, or an encoder's.
Qwen3EmbeddingModel(c, tp) ==
  [Qwen3LMHeadModel(c, tp) EXCEPT !.functions = [embed |-> Embed] @@ ToLastHiddenStates]
BertModel == Model([prefill |-> Fn({}, "all")], Stack(<<>>, "all", NoHeads), NoCache)

-----------------------------------------------------------------------------
(* Families with images, latent attention or recurrent states *)

\* A compressed cache with one key-value head; a first prefill does not read it.
DeepseekV2Model(c, tp) ==
  Stack(Attentions(c), "all", Heads(DeepseekV2DecoderLayer(Shape(c, tp), tp, 1)))
DeepseekV2Functions ==
  LET new(f) == [f EXCEPT !.attends = "new"]
  IN  [prefill |-> new(Fn({}, "last")), extend |-> Fn({}, "last"),
       batch_prefill |-> new(BatchPrefill), batch_extend |-> BatchPrefill] @@ StandardFunctions
DeepseekV2ForCausalLM(c, tp) ==
  Model(DeepseekV2Functions, DeepseekV2Model(c, tp),
        [PagedKVCache(c.num_hidden_layers, c.num_attention_heads, tp, tp) EXCEPT !.kind = "mla"])

ImageEmbed == [image_embed |-> Fn({}, "all")]
Phi3VSpec == ImageEmbed @@ StandardFunctions
Phi3VForCausalLM(c, tp) ==
  CausalLM(Phi3VSpec, Phi3Model(c, tp), c, tp, c.num_key_value_heads)

\* The functions call those of the language model.
LlavaSpec(lm) == ImageEmbed @@ [f \in DOMAIN StandardFunctions |-> lm.functions[f]]
\* The language model is built from its own configuration.
LlavaForCausalLM(c, tp) ==
  LET text == FromDict(c.text_architecture, c.text_config)
      own == text.tensor_parallel_shards
      lm == IF c.text_architecture = "mistral" THEN MistralForCausalLM(text, own)
            ELSE LlamaForCausalLM(text, own)
  IN  Model(LlavaSpec(lm), Stack(lm.layers, lm.positions, lm.heads),
            PagedKVCache(text.num_hidden_layers, text.num_attention_heads, text.num_key_value_heads, tp))

\* A time-mixing and a channel-mixing part, each with the state of the last token.
RWKV5_Attention(l) == Keeps("rnn", l, {"ATT_X", "ATT_KV"}, {"ATT_X", "ATT_KV"})
RWKV5_FNN(l) == Keeps("rnn", l, {"FFN_X"}, {"FFN_X"})
RWKV5_Layer(l) == <<RWKV5_Attention(l), RWKV5_FNN(l)>>
RWKV5_Model(c) ==
  Stack([i \in 1..(2 * c.num_hidden_layers) |->
           RWKV5_Layer((i - 1) \div 2)[((i - 1) % 2) + 1]], "rope", NoHeads)
RWKV6_Attention(l) == Keeps("rnn", l, {"ATT_X", "ATT_KV"}, {"ATT_X", "ATT_KV"})
RWKV6_FNN(l) == Keeps("rnn", l, {"FFN_X"}, {"FFN_X"})
RWKV6_Layer(l) == <<RWKV6_Attention(l), RWKV6_FNN(l)>>
RWKV6_Model(c) ==
  Stack([i \in 1..(2 * c.num_hidden_layers) |->
           RWKV6_Layer((i - 1) \div 2)[((i - 1) % 2) + 1]], "rope", NoHeads)

\* Nothing is broadcast, and every function keeps the last of the second
\* dimension, the only one there is when a batch is decoded.
RWKVFunctions ==
  [name \in DOMAIN StandardFunctions |-> Fn({}, IF name = "embed" THEN "all" ELSE "last")]
RWKV5_ForCausalLM(c) ==
  [Model(RWKVFunctions, RWKV5_Model(c), NoCache) EXCEPT
     !.rnn = RNNState(c.num_hidden_layers, {"ATT_X", "ATT_KV", "FFN_X"})]
RWKV6_ForCausalLM(c) ==
  [Model(RWKVFunctions, RWKV6_Model(c), NoCache) EXCEPT
     !.rnn = RNNState(c.num_hidden_layers, {"ATT_X", "ATT_KV", "FFN_X"})]

\* Qwen3.5: three of four layers are recurrent.
Qwen35LayerTypes(c) ==
  IF "layer_types" \in DOMAIN c.kwargs THEN c.kwargs["layer_types"]
  ELSE [i \in 1..c.num_hidden_layers |-> IF i % 4 = 0 THEN "full_attention" ELSE "linear_attention"]
\* However the keys are appended, a layer reads and extends its slot of the cache.
Qwen35AttentionForward(slot) == Keeps("kv", slot, {"kv"}, {"kv"})
Qwen35Attention(c, tp) == [q |-> c.num_attention_heads \div tp, kv |-> c.num_key_value_heads \div tp]
\* The states it reads before it computes, and sets again after it.
Qwen35StatesWritten == {"state", "conv"}
Qwen35GatedDeltaNet(l) == Keeps("rnn", l, {"state", "conv"}, Qwen35StatesWritten)
Qwen35DecoderLayer(type, category) ==
  IF type = "full_attention" THEN Qwen35AttentionForward(category) ELSE Qwen35GatedDeltaNet(category)
\* A layer is numbered among the layers of its type.
Qwen35Category(types, i) == Cardinality({j \in 1..(i - 1) : types[j] = types[i]})
Qwen35Model(c, tp) ==
  LET types == Qwen35LayerTypes(c)
  IN  Stack([i \in DOMAIN types |-> Qwen35DecoderLayer(types[i], Qwen35Category(types, i))], "second",
            Qwen35Attention(c, tp))
\* The functions with positions of their own, for texts with images.
Qwen35MropeFunctions ==
  [batch_prefill_mrope |-> Fn({}, "taken"), batch_decode_mrope |-> Fn({}, "all"),
   decode_mrope |-> Fn({}, "all"), batch_verify_mrope |-> Fn({}, "all")]
Qwen35Spec ==
  [embed |-> Embed, batch_prefill |-> Fn({}, "taken"), batch_decode |-> Fn({}, "all"),
   decode |-> Fn({}, "all"), batch_verify |-> Fn({}, "all")] @@ ImageEmbed @@ Qwen35MropeFunctions
Qwen35Layers(c, type) == Cardinality({i \in 1..c.num_hidden_layers : Qwen35LayerTypes(c)[i] = type})
\* create_rnn_state and create_paged_kv_cache: each for the layers of its type.
Qwen35State(c) == RNNState(Qwen35Layers(c, "linear_attention"), {"state", "conv"})
Qwen35Cache(c, tp) ==
  PagedKVCache(Qwen35Layers(c, "full_attention"), c.num_attention_heads, c.num_key_value_heads, tp)
Qwen35LMHeadModel(c, tp) ==
  [Model(Qwen35Spec, Qwen35Model(c, tp), Qwen35Cache(c, tp)) EXCEPT
     !.rnn = Qwen35State(c)]

-----------------------------------------------------------------------------
(* MODELS: the class of a family *)

\* The registry in the order of its entries, from the last ones back to the first.
OLMo2ToBge(c) ==
  LET tp == c.tensor_parallel_shards
  IN  CASE c.family = "olmo2" -> OLMo2ForCausalLM(c, tp)
        [] c.family = "nemotron" -> NemotronForCausalLM(c, tp)
        [] c.family = "bert-bge" -> BertModel
RWKV6ToOLMo(c) ==
  LET tp == c.tensor_parallel_shards
  IN  CASE c.family = "rwkv6" -> RWKV6_ForCausalLM(c)
        [] c.family = "chatglm" -> ChatGLMForCausalLM(c, tp)
        [] c.family = "eagle" -> EagleForCausalLM(c, tp)
        [] c.family = "bert" -> BertModel
        [] c.family = "medusa" -> MedusaModel
        [] c.family = "starcoder2" -> Starcoder2ForCausalLM(c, tp)
        [] c.family = "cohere" -> CohereForCausalLM(c, tp)
        [] c.family = "minicpm" -> MiniCPMForCausalLM(c, tp)
        [] c.family = "deepseek" -> DeepseekForCausalLM(c, tp)
        [] c.family = "gptj" -> GPTJForCausalLM(c, tp)
        [] c.family = "olmo" -> OLMoForCausalLM(c, tp)
        [] OTHER -> OLMo2ToBge(c)
Qwen35TextToLlava(c) ==
  LET tp == c.tensor_parallel_shards
  IN  CASE c.family = "qwen3_5_text" -> Qwen35LMHeadModel(c, tp)
        [] c.family = "qwen3_moe" -> Qwen3MoeForCausalLM(c, tp)
        [] c.family = "deepseek_v2" -> DeepseekV2ForCausalLM(c, tp)
        [] c.family = "deepseek_v3" -> DeepseekV2ForCausalLM(c, tp)
        [] c.family = "stablelm" -> StableLmForCausalLM(c, tp)
        [] c.family = "baichuan" -> BaichuanForCausalLM(c, tp)
        [] c.family = "internlm" -> InternLMForCausalLM(c, tp)
        [] c.family = "internlm2" -> InternLM2ForCausalLM(c, tp)
        [] c.family = "rwkv5" -> RWKV5_ForCausalLM(c)
        [] c.family = "orion" -> OrionForCausalLM(c, tp)
        [] c.family = "llava" -> LlavaForCausalLM(c, tp)
        [] OTHER -> RWKV6ToOLMo(c)
GPTBigCodeToQwen35(c) ==
  LET tp == c.tensor_parallel_shards
  IN  CASE c.family = "gpt_bigcode" -> GPTBigCodeForCausalLM(c, tp)
        [] c.family = "phi-msft" -> PhiForCausalLM(c, tp)
        [] c.family = "phi" -> PhiForCausalLM(c, tp)
        [] c.family = "phi3" -> Phi3ForCausalLM(c, tp)
        [] c.family = "phi3_v" -> Phi3VForCausalLM(c, tp)
        [] c.family = "qwen" -> QWenLMHeadModel(c, tp)
        [] c.family = "qwen2" -> QWen2LMHeadModel(c, tp)
        [] c.family = "qwen2_moe" -> Qwen2MoeForCausalLM(c, tp)
        [] c.family = "qwen3" -> Qwen3LMHeadModel(c, tp)
        [] c.family = "qwen3-embedding" -> Qwen3EmbeddingModel(c, tp)
        [] c.family = "qwen3_5" -> Qwen35LMHeadModel(c, tp)
        [] OTHER -> Qwen35TextToLlava(c)
\* The class of c's family: one of the first entries, or of those after them.
ModelOf(c) ==
  LET tp == c.tensor_parallel_shards
  IN  CASE c.family = "llama" -> LlamaForCausalLM(c, tp)
        [] c.family = "llama4" -> Llama4ForCausalLM(c, tp)
        [] c.family = "mistral" -> MistralForCausalLM(c, tp)
        [] c.family = "ministral3" -> Mistral3ForConditionalGeneration(c, tp)
        [] c.family = "gemma" -> GemmaForCausalLM(c, tp)
        [] c.family = "gemma2" -> Gemma2ForCausalLM(c, tp)
        [] c.family = "gemma3" -> Gemma3ForCausalLM(c, tp)
        [] c.family = "gemma3_text" -> Gemma3ForCausalLM(c, tp)
        [] c.family = "gpt2" -> GPT2LMHeadModel(c, tp)
        [] c.family = "mixtral" -> MixtralForCausalLM(c, tp)
        [] c.family = "gpt_neox" -> GPTNeoXForCausalLM(c, tp)
        [] OTHER -> GPTBigCodeToQwen35(c)
=============================================================================
