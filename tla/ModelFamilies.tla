---------------------------- MODULE ModelFamilies ----------------------------
(***************************************************************************)
(* The model families of python/mlc_llm/model: for each of them its         *)
(* attention, its MLP, its decoder layer with the shard strategies, and its *)
(* loader, in the vocabulary of ModelLayers.                               *)
(***************************************************************************)
EXTENDS ModelLayers

\* Heads, key-value heads and channels of one worker.
Q(c, tp) == c.heads \div tp
K(c, tp) == c.kv \div tp
I(c, tp) == c.inter \div tp
M(c, tp) == c.moe \div tp

StandardLayer(attn, mlp, c, tp) ==
  Layer(<<attn, mlp>>, StandardShards(Q(c, tp), K(c, tp), I(c, tp)), "sum", "each")
BiasedLayer(attn, mlp, c, tp) ==
  Layer(<<attn, mlp>>, BiasedShards(Q(c, tp), K(c, tp), I(c, tp)), "sum", "each")
Optional(bias, name) == IF bias THEN {name} ELSE {}

-----------------------------------------------------------------------------
(* Families built like Llama *)

LlamaAttention(c, tp) ==
  FusedAttention(c, c.kv % tp = 0 /\ c.kv >= tp, Q(c, tp), K(c, tp), {})
LlamaFFN(c, tp) == GatedMlp(c.inter, c.inter % tp = 0, I(c, tp), 2 * I(c, tp), GateUp)
LlamaDecoderLayer(c, tp) == StandardLayer(LlamaAttention(c, tp), LlamaFFN(c, tp), c, tp)

EagleDecoderLayer(c, tp) == StandardLayer(LlamaAttention(c, tp), LlamaFFN(c, tp), c, tp)

MistralAttention(c, tp) == FusedAttention(c, c.kv % tp = 0, Q(c, tp), K(c, tp), {})
MistralMLP(c, tp) == GatedMlp(c.inter, c.inter % tp = 0, I(c, tp), 2 * I(c, tp), GateUp)
MistralDecoderLayer(c, tp) == StandardLayer(MistralAttention(c, tp), MistralMLP(c, tp), c, tp)

Ministral3Attention(c, tp) == FusedAttention(c, c.kv % tp = 0, Q(c, tp), K(c, tp), {})
Ministral3MLP(c, tp) == GatedMlp(c.inter, c.inter % tp = 0, I(c, tp), 2 * I(c, tp), GateUp)
Ministral3DecoderLayer(c, tp) ==
  StandardLayer(Ministral3Attention(c, tp), Ministral3MLP(c, tp), c, tp)

OrionAttention(c, tp) ==
  FusedAttention(c, c.kv % tp = 0 /\ c.kv >= tp, Q(c, tp), K(c, tp), {})
OrionFFN(c, tp) == GatedMlp(c.inter, c.inter % tp = 0, I(c, tp), 2 * I(c, tp), GateUp)
OrionDecoderLayer(c, tp) == StandardLayer(OrionAttention(c, tp), OrionFFN(c, tp), c, tp)

\* attention_bias is left out: the loader finds no such tensor.
GemmaAttention(c, tp) ==
  FusedAttention(c, c.kv % tp = 0 /\ c.kv >= tp, Q(c, tp), K(c, tp), {})
GemmaMLP(c, tp) == GatedMlp(c.inter, c.inter % tp = 0, I(c, tp), 2 * I(c, tp), GateUp)
GemmaDecoderLayer(c, tp) == StandardLayer(GemmaAttention(c, tp), GemmaMLP(c, tp), c, tp)

\* _apply_post_matmul_norm normalizes after the allreduce.
Gemma2DecoderLayer(c, tp) == StandardLayer(GemmaAttention(c, tp), GemmaMLP(c, tp), c, tp)

OLMoAttention(c, tp) ==
  FusedAttention(c, c.kv % tp = 0 /\ c.kv >= tp, Q(c, tp), K(c, tp), {})
OLMoFFN(c, tp) == GatedMlp(c.inter, c.inter % tp = 0, I(c, tp), 2 * I(c, tp), GateUp)
OLMoDecoderLayer(c, tp) == StandardLayer(OLMoAttention(c, tp), OLMoFFN(c, tp), c, tp)

\* q_norm and k_norm have a weight per local head and no strategy.
OLMo2Attention(c, tp) ==
  LET a == FusedAttention(c, c.kv % tp = 0 /\ c.kv >= tp, Q(c, tp), K(c, tp), {})
  IN  [a EXCEPT !.params = @ \o <<Vector("q_heads_norm", Q(c, tp)), Vector("k_heads_norm", K(c, tp))>>]
OLMo2FFN(c, tp) == GatedMlp(c.inter, c.inter % tp = 0, I(c, tp), 2 * I(c, tp), GateUp)
\* The outputs are normalized before _apply_residual reduces them.
OLMo2DecoderLayer(c, tp) ==
  Layer(<<OLMo2Attention(c, tp), OLMo2FFN(c, tp)>>,
        StandardShards(Q(c, tp), K(c, tp), I(c, tp)), "late", "each")
OLMo2Loader(c) ==
  [q_heads_norm |-> [from |-> <<"q_norm">>, data |-> Part("q_norm", c.heads)],
   k_heads_norm |-> [from |-> <<"k_norm">>, data |-> Part("k_norm", c.kv)]] @@ StandardLoader(c)

PhiMHA3(c, tp) ==
  FusedAttention(c, c.heads % tp = 0 /\ c.kv % tp = 0, Q(c, tp), K(c, tp), {})
Phi3MLP(c, tp) == GatedMlp(c.inter, c.inter % tp = 0, I(c, tp), 2 * I(c, tp), GateUp)
\* The residual is divided among the workers and reduced with the output.
Phi3ParallelBlock(c, tp) == StandardLayer(PhiMHA3(c, tp), Phi3MLP(c, tp), c, tp)

StableLmAttention(c, tp) ==
  FusedAttention(c, c.kv % tp = 0, Q(c, tp), K(c, tp), Optional(c.bias, "qkv"))
StableLmMLP(c, tp) == GatedMlp(c.inter, c.inter % tp = 0, I(c, tp), 2 * I(c, tp), GateUp)
StableLmDecoderLayer(c, tp) == BiasedLayer(StableLmAttention(c, tp), StableLmMLP(c, tp), c, tp)

QWen2Attention(c, tp) == FusedAttention(c, c.kv % tp = 0, Q(c, tp), K(c, tp), {"qkv"})
QWen2MLP(c, tp) == GatedMlp(c.inter, c.inter % tp = 0, I(c, tp), 2 * I(c, tp), GateUp)
QWen2DecoderLayer(c, tp) == BiasedLayer(QWen2Attention(c, tp), QWen2MLP(c, tp), c, tp)

\* q_norm and k_norm are per head and the same for all heads.
Qwen3Attention(c, tp) ==
  FusedAttention(c, c.kv % tp = 0, Q(c, tp), K(c, tp), IF c.bias THEN {"qkv", "o"} ELSE {})
Qwen3MLP(c, tp) == GatedMlp(c.inter, c.inter % tp = 0, I(c, tp), 2 * I(c, tp), GateUp)
Qwen3DecoderLayer(c, tp) == BiasedLayer(Qwen3Attention(c, tp), Qwen3MLP(c, tp), c, tp)

InternLMAttention(c, tp) ==
  FusedAttention(c, c.heads % tp = 0, Q(c, tp), Q(c, tp), IF c.bias THEN {"qkv", "o"} ELSE {})
InternLMMLP(c, tp) == GatedMlp(c.inter, c.inter % tp = 0, I(c, tp), 2 * I(c, tp), GateUp)
\* The bias of o_proj has a strategy although it is as long on every worker.
InternLMDecoderLayer(c, tp) ==
  Layer(<<InternLMAttention(c, tp), InternLMMLP(c, tp)>>,
        [o_bias |-> Shard("_shard_o_bias", 0, <<>>)]
        @@ BiasedShards(Q(c, tp), Q(c, tp), I(c, tp)), "sum", "each")

InternLM2Attention(c, tp) ==
  FusedAttention(c, c.heads % tp = 0, Q(c, tp), K(c, tp), IF c.bias THEN {"qkv", "o"} ELSE {})
InternLM2MLP(c, tp) == GatedMlp(c.inter, c.inter % tp = 0, I(c, tp), 2 * I(c, tp), GateUp)
InternLM2DecoderLayer(c, tp) ==
  BiasedLayer(InternLM2Attention(c, tp), InternLM2MLP(c, tp), c, tp)
InternLM2Loader(c) ==
  [qkv |-> [from |-> <<"wqkv">>, data |-> ConvertWqkvLayout(Torch(c, "wqkv"), c.heads, c.kv)]]
  @@ ConcatGateUp(c)

BaichuanAttention(c, tp) == FusedAttention(c, c.heads % tp = 0, Q(c, tp), Q(c, tp), {})
BaichuanMLP(c, tp) == GatedMlp(c.inter, c.inter % tp = 0, I(c, tp), 2 * I(c, tp), GateUp)
BaichuanDecoderLayer(c, tp) == BiasedLayer(BaichuanAttention(c, tp), BaichuanMLP(c, tp), c, tp)

\* The configuration's intermediate size counts both halves.
QWenAttention(c, tp) == FusedAttention(c, c.heads % tp = 0, Q(c, tp), Q(c, tp), {"qkv"})
QWenMLP(c, tp) ==
  LET both == (2 * c.inter) \div tp
  IN  GatedMlp(c.inter, (2 * c.inter) % tp = 0, both \div 2, both, <<"up", "gate">>)
QWenBlock(c, tp) ==
  Layer(<<QWenAttention(c, tp), QWenMLP(c, tp)>>,
        [gate_up |-> Pair("_shard_mlp_gate_up_proj", ((2 * c.inter) \div tp) \div 2),
         down |-> Shard("_shard_mlp_c_proj", 1, <<>>),
         o |-> Shard("_shard_attn_c_proj", 1, <<>>)]
        @@ BiasedShards(Q(c, tp), Q(c, tp), I(c, tp)), "sum", "each")
QWenLoader(c) == [gate_up |-> Concat(c, <<"up_proj", "gate_proj">>)]

\* Whether the key-value heads can be divided is not checked, and the strategy
\* of the gated projection has no segments.
GLMAttention(c, tp) ==
  FusedAttention(c, c.heads % tp = 0, Q(c, tp), K(c, tp),
                 IF c.bias THEN {"qkv", "o"} ELSE {"qkv"})
GLMMLP(c, tp) == GatedMlp(c.inter, c.inter % tp = 0, I(c, tp), 2 * I(c, tp), GateUp)
GLMBlock(c, tp) ==
  Layer(<<GLMAttention(c, tp), GLMMLP(c, tp)>>,
        [qkv |-> Qkv("_shard_qkv_weight", Q(c, tp), K(c, tp)),
         qkv_bias |-> Qkv("_shard_qkv_bias", Q(c, tp), K(c, tp)),
         o |-> Shard("_shard_dense_weight", 1, <<>>),
         o_bias |-> Shard("_shard_dense_bias", 0, <<>>),
         gate_up |-> Shard("_shard_dense_h_to_4h_weight", 0, <<>>),
         down |-> Shard("_shard_dense_4h_to_h", 1, <<>>)], "sum", "each")

\* The two halves have a projection each; either has the strategy of both.
CohereAttention(c, tp) ==
  FusedAttention(c, c.heads % tp = 0 /\ c.kv % tp = 0, Q(c, tp), K(c, tp), {})
CohereMLP(c, tp) ==
  [ok |-> c.inter % tp = 0,
   params |-> <<Linear("gate", "channel", I(c, tp)), Linear("up", "channel", I(c, tp)),
                RowLinear("down", "channel", I(c, tp))>>,
   width |-> I(c, tp), size |-> c.inter,
   reads |-> {Read(x, x, c.inter, 0, I(c, tp)) : x \in {"gate", "up", "down"}},
   whole |-> {}, bias |-> FALSE]
CohereDecoderLayer(c, tp) ==
  Layer(<<CohereAttention(c, tp), CohereMLP(c, tp)>>,
        [gate |-> Pair("_shard_mlp_gate", I(c, tp)), up |-> Pair("_shard_mlp_up", I(c, tp))]
        @@ StandardShards(Q(c, tp), K(c, tp), I(c, tp)), "sum", "each")

\* The MLP is not divided, but its projections have strategies.
NemotronAttention(c, tp) ==
  FusedAttention(c, c.kv % tp = 0 /\ c.kv >= tp, Q(c, tp), K(c, tp), {})
NemotronMLP(c, tp) == PlainMlp(c.inter, TRUE, c.inter, FALSE)
NemotronDecoderLayer(c, tp) ==
  Layer(<<NemotronAttention(c, tp), NemotronMLP(c, tp)>>,
        [up |-> Shard("_shard_mlp_up", 1, <<>>)]
        @@ StandardShards(Q(c, tp), K(c, tp), I(c, tp)), "sum", "each")

\* The weights of q_norm and k_norm have a strategy but are not divided.
Gemma3Attention(c, tp) ==
  LET a == SplitAttention(c, c.kv % tp = 0 /\ c.kv >= tp, Q(c, tp), K(c, tp))
  IN  [a EXCEPT !.params = @ \o <<Vector("q_norm", 1), Vector("k_norm", 1)>>]
Gemma3MLP(c, tp) == GatedMlp(c.inter, c.inter % tp = 0, I(c, tp), 2 * I(c, tp), GateUp)
Gemma3DecoderLayer(c, tp) ==
  Layer(<<Gemma3Attention(c, tp), Gemma3MLP(c, tp)>>,
        [q |-> Shard("_shard_q", 0, <<>>), k |-> Shard("_shard_k", 0, <<>>),
         v |-> Shard("_shard_v", 0, <<>>), q_norm |-> Shard("_shard_q_norm", 0, <<>>),
         k_norm |-> Shard("_shard_k_norm", 0, <<>>)]
        @@ StandardShards(Q(c, tp), K(c, tp), I(c, tp)), "sum", "each")

-----------------------------------------------------------------------------
(* Families built like GPT *)

\* The strategies of an MLP with one projection and its bias.
PlainShards(c, tp, o, up, up_bias, down) ==
  [qkv |-> Qkv("_shard_qkv_weight", Q(c, tp), K(c, tp)),
   qkv_bias |-> Qkv("_shard_qkv_bias", Q(c, tp), K(c, tp)),
   o |-> Shard(o, 1, <<>>), up |-> Shard(up, 0, <<>>), up_bias |-> Shard(up_bias, 0, <<>>),
   down |-> Shard(down, 1, <<>>)]

GPT2Attention(c, tp) == FusedAttention(c, c.heads % tp = 0, Q(c, tp), Q(c, tp), {"qkv", "o"})
GPT2MLP(c, tp) == PlainMlp(c.inter, c.inter % tp = 0, I(c, tp), TRUE)
\* shard_bias divides the output biases, which the allreduce sums up again.
GPT2Block(c, tp) ==
  Layer(<<GPT2Attention(c, tp), GPT2MLP(c, tp)>>,
        PlainShards(c, tp, "_shard_attn_c_proj", "_shard_c_fc_weight", "_shard_c_fc_bias",
                    "_shard_mlp_c_proj"), "sum", "divided")
\* lm_head and the embedding are the same tensor.
GPT2Loader(c) == [lm_head |-> Concat(c, <<"embed_tokens">>)]

GPTNeoXAttention(c, tp) == FusedAttention(c, c.heads % tp = 0, Q(c, tp), Q(c, tp), {"qkv", "o"})
GPTNeoXMLP(c, tp) == PlainMlp(c.inter, c.inter % tp = 0, I(c, tp), TRUE)
\* With use_parallel_residual (c.parallel) the outputs are not reduced.
GPTNeoXLayer(c, tp) ==
  Layer(<<GPTNeoXAttention(c, tp), GPTNeoXMLP(c, tp)>>,
        PlainShards(c, tp, "_shard_dense", "_shard_dense_h_to_4h_weight",
                    "_shard_dense_h_to_4h_bias", "_shard_dense_4h_to_h"),
        IF c.parallel THEN "none" ELSE "sum", "divided")
GPTNeoXLoader(c) ==
  LET regroup(t) == [from |-> <<t>>, data |-> TransformQkvLayout(Torch(c, t), c.heads)]
  IN  [qkv |-> regroup("query_key_value"), qkv_bias |-> regroup("query_key_value_bias")]

\* One key-value head; only one worker.
GPTBigCodeAttention(c, tp) == FusedAttention(c, tp = 1, Q(c, tp), 1, {"qkv", "o"})
GPTBigCodeMLP(c, tp) == PlainMlp(c.inter, TRUE, c.inter, TRUE)
GPTBigCodeBlock(c, tp) ==
  Layer(<<GPTBigCodeAttention(c, tp), GPTBigCodeMLP(c, tp)>>,
        [qkv |-> Qkv("_shard_c_attn", Q(c, tp), 1), o |-> Shard("_shard_c_proj", 1, <<>>),
         up |-> Shard("_shard_mlp_c_fc", 0, <<>>), down |-> Shard("_shard_mlp_c_proj", 1, <<>>)],
        "none", "each")

PhiMHA(c, tp) ==
  FusedAttention(c, c.heads % tp = 0 /\ c.kv % tp = 0, Q(c, tp), K(c, tp), {"qkv", "o"})
PhiMLP(c, tp) == PlainMlp(c.inter, c.inter % tp = 0, I(c, tp), TRUE)
PhiParallelBlock(c, tp) ==
  Layer(<<PhiMHA(c, tp), PhiMLP(c, tp)>>,
        PlainShards(c, tp, "_shard_o_weight", "_shard_mlp_fc1_weight", "_shard_mlp_fc1_bias",
                    "_shard_mlp_fc2_weight"), "sum", "divided")
Phi1Loader(c) == ConcatQkv(c) @@ ConcatQkvBias(c)

Starcoder2Attention(c, tp) ==
  FusedAttention(c, c.heads % tp = 0, Q(c, tp), K(c, tp), IF c.bias THEN {"qkv", "o"} ELSE {})
Starcoder2MLP(c, tp) == PlainMlp(c.inter, c.inter % tp = 0, I(c, tp), c.bias)
Starcoder2DecoderLayer(c, tp) ==
  Layer(<<Starcoder2Attention(c, tp), Starcoder2MLP(c, tp)>>,
        [down_bias |-> Shard("_shard_mlp_c_proj_bias", 0, <<>>)]
        @@ PlainShards(c, tp, "_shard_o", "_shard_c_fc_weight", "_shard_c_fc_bias",
                       "_shard_mlp_c_proj"), "sum", "each")
Starcoder2Loader(c) == ConcatQkv(c) @@ ConcatQkvBias(c) @@ GPT2Loader(c)

-----------------------------------------------------------------------------
(* Mixtures of experts *)

\* fault: the dimension of a plain projection
ExpertShardsAsPlain(up, down, c, tp) ==
  [moe_gate_up |-> Shard(up, 1, <<M(c, tp), M(c, tp)>>), moe_down |-> Shard(down, 1, <<>>)]
ExpertShards(up, down, c, tp) ==
  [moe_gate_up |-> Shard(up, 1, <<M(c, tp), M(c, tp)>>), moe_down |-> Shard(down, 2, <<>>)]

\* Its attention is Llama's.
MixtralMoE(c, tp) == MixtureOfExperts(c.moe, c.moe % tp = 0, M(c, tp))
MixtralDecoderLayer(c, tp) ==
  Layer(<<LlamaAttention(c, tp), MixtralMoE(c, tp)>>,
        ExpertShards("_shard_mlp_up", "_shard_mlp_down", c, tp)
        @@ StandardShards(Q(c, tp), K(c, tp), I(c, tp)), "sum", "each")
MixtralLoader(c) == ConcatQkv(c) @@ ConcatExperts(c)

\* The division that is checked is that of intermediate_size.
Qwen2MoeMLP(c, tp) == SharedExpert(c.shared, c.inter % tp = 0, c.shared \div tp)
Qwen2MoeSparseMoeBlock(c, tp) ==
  LET moe == MixtureOfExperts(c.moe, c.moe % tp = 0, M(c, tp))
  IN  [moe EXCEPT !.params = @ \o <<Vector("shared_expert_gate", 1)>>,
                  !.whole = @ \cup {"shared_expert_gate"}]
Qwen2MoeDecoderLayer(c, tp) ==
  Layer(<<QWen2Attention(c, tp), Qwen2MoeSparseMoeBlock(c, tp), Qwen2MoeMLP(c, tp)>>,
        [shared_gate_up |-> Pair("_shard_shared_mlp_up", c.shared \div tp),
         shared_down |-> Shard("_shard_shared_mlp_down", 1, <<>>)]
        @@ ExpertShards("_shard_moe_mlp_up", "_shard_moe_mlp_down", c, tp)
        @@ BiasedShards(Q(c, tp), K(c, tp), I(c, tp)), "sum", "each")
Qwen2MoeLoader(c) == ConcatQkv(c) @@ ConcatQkvBias(c) @@ ConcatShared(c) @@ ConcatExperts(c)

Qwen3MoeSparseMoeBlock(c, tp) == MixtureOfExperts(c.moe, c.moe % tp = 0, M(c, tp))
Qwen3MoeDecoderLayer(c, tp) ==
  Layer(<<Qwen3Attention(c, tp), Qwen3MoeSparseMoeBlock(c, tp)>>,
        ExpertShards("_shard_moe_mlp_up", "_shard_moe_mlp_down", c, tp)
        @@ BiasedShards(Q(c, tp), K(c, tp), I(c, tp)), "sum", "each")
Qwen3MoeLoader(c) == ConcatQkv(c) @@ ConcatQkvBias(c) @@ ConcatExperts(c)

\* Without experts (c.moe = 0) a gated MLP.  The channels of the experts are
\* divided without a check, and so are the key-value heads.
MiniCPMAttention(c, tp) == FusedAttention(c, c.heads % tp = 0, Q(c, tp), K(c, tp), {})
MiniCPMMLP(c, tp) == GatedMlp(c.inter, c.inter % tp = 0, I(c, tp), 2 * I(c, tp), GateUp)
MiniCPMMoE(c, tp) == MixtureOfExperts(c.moe, TRUE, M(c, tp))
MiniCPMDecoderLayer(c, tp) ==
  Layer(<<MiniCPMAttention(c, tp), IF c.moe = 0 THEN MiniCPMMLP(c, tp) ELSE MiniCPMMoE(c, tp)>>,
        ExpertShards("_shard_mlp_up", "_shard_mlp_down", c, tp)
        @@ BiasedShards(Q(c, tp), K(c, tp), I(c, tp)), "sum", "each")
MiniCPMLoader(c) == StandardLoader(c) @@ ConcatExperts(c)

\* The first c.dense layers have a gated MLP, the others experts and one shared
\* expert.  Its size is divided by tp twice, and it has no strategy.  Dense and
\* sparse layers use the same names for strategies of tensors of different rank.
DeepseekAttention(c, tp) == FusedAttention(c, c.heads % tp = 0, Q(c, tp), K(c, tp), {})
DeepseekMLP(c, tp) == GatedMlp(c.inter, c.inter % tp = 0, I(c, tp), 2 * I(c, tp), GateUp)
DeepseekMoE(c, tp) ==
  <<MixtureOfExperts(c.moe, TRUE, M(c, tp)),
    SharedExpert(c.shared, c.inter % tp = 0, M(c, tp) \div tp)>>
DeepseekDecoderLayer(c, tp, l) ==
  Layer(<<DeepseekAttention(c, tp)>>
          \o (IF l >= c.dense THEN DeepseekMoE(c, tp) ELSE <<DeepseekMLP(c, tp)>>),
        ExpertShards("_shard_mlp_up", "_shard_mlp_down", c, tp)
        @@ BiasedShards(Q(c, tp), K(c, tp), I(c, tp)), "sum", "each")
DeepseekLoader(c) == StandardLoader(c) @@ ConcatShared(c) @@ ConcatExperts(c)

\* Latent attention: k and v of every head are made by kv_b, and once more by
\* w_uk and w_uv when the KV cache is read.  With q_lora_rank q is q_b_proj.
DeepseekV2Attention(c, tp) ==
  LET q == Q(c, tp)
      latent == {"w_uk", "w_uv", "kv_b"}
  IN  [ok |-> c.heads % tp = 0,
       params |-> <<Linear("q", "head", q), Vector("kv_a", 1), Linear("kv_b", "head", q),
                    Param("w_uk", "head", 3, 0, q, "none"), Param("w_uv", "head", 3, 0, q, "none"),
                    RowLinear("o", "head", q)>>,
       width |-> q, size |-> c.heads,
       reads |-> {Read("q", "q", c.heads, 0, q), Read("o", "o", c.heads, 0, q)}
                 \cup {Read(x, "kvb", c.heads, 0, q) : x \in latent},
       whole |-> {"kv_a"}, bias |-> FALSE]
DeepseekV2MLP(c, tp) == GatedMlp(c.inter, c.inter % tp = 0, I(c, tp), 2 * I(c, tp), GateUp)
DeepseekV2MoE(c, tp) ==
  <<MixtureOfExperts(c.moe, c.moe % tp = 0, M(c, tp)),
    SharedExpert(c.shared, c.moe % tp = 0, M(c, tp))>>
DeepseekV2DecoderLayer(c, tp, l) ==
  Layer(<<DeepseekV2Attention(c, tp)>>
          \o (IF l >= c.dense THEN DeepseekV2MoE(c, tp) ELSE <<DeepseekV2MLP(c, tp)>>),
        [q |-> Shard("_shard_q_weight", 0, <<>>), kv_b |-> Shard("_shard_kv_b_weight", 0, <<>>),
         w_uk |-> Shard("_shard_kv_b_weight_w_uk", 0, <<>>),
         w_uv |-> Shard("_shard_kv_b_weight_w_uv", 0, <<>>), o |-> Shard("_shard_o", 1, <<>>),
         shared_gate_up |-> Pair("_shard_shared_experts_gate_up", M(c, tp)),
         shared_down |-> Shard("_shard_shared_experts_down", 1, <<>>),
         gate_up |-> Pair("_shard_gate_up", I(c, tp)), down |-> Shard("_shard_down", 1, <<>>)]
        @@ ExpertShards("_shard_moe_gate_up", "_shard_moe_mlp_down", c, tp), "sum", "each")
DeepseekV2Loader(c) ==
  [w_uk |-> Concat(c, <<"kv_b_proj">>), w_uv |-> Concat(c, <<"kv_b_proj">>)]
  @@ ConcatGateUp(c) @@ ConcatShared(c) @@ ConcatExperts(c)

\* The experts are plain parameters with the input features first; the router
\* is divided like a projection although each worker chooses by its output.
Llama4TextAttention(c, tp) ==
  SplitAttention(c, c.kv % tp = 0 /\ c.kv >= tp, Q(c, tp), K(c, tp))
Llama4TextMLP(c, tp) == SharedExpert(c.shared, c.moe % tp = 0, M(c, tp))
Llama4TextExperts(c, tp) ==
  [MixtureOfExperts(c.moe, TRUE, M(c, tp)) EXCEPT !.params =
     <<Linear("router", "head", 2 \div tp), Param("moe_gate_up", "channel", 3, 2, 2 * M(c, tp), "none"),
       Param("moe_down", "channel", 3, 1, M(c, tp), "none")>>]
Llama4TextDecoderLayer(c, tp) ==
  Layer(<<Llama4TextAttention(c, tp), Llama4TextExperts(c, tp), Llama4TextMLP(c, tp)>>,
        [q |-> Shard("_shard_q", 0, <<>>), k |-> Shard("_shard_k", 0, <<>>),
         v |-> Shard("_shard_v", 0, <<>>), o |-> Shard("_shard_o", 1, <<>>),
         shared_gate_up |-> Pair("_shard_mlp_up", M(c, tp)),
         shared_down |-> Shard("_shard_mlp_down", 1, <<>>),
         moe_gate_up |-> Shard("_shard_expert_mlp_up", 2, <<M(c, tp), M(c, tp)>>),
         moe_down |-> Shard("_shard_expert_mlp_down", 1, <<>>),
         router |-> Shard("_shard_router", 0, <<>>)], "sum", "each")
Llama4Loader(c) == ConcatShared(c)

-----------------------------------------------------------------------------
(* The registry *)

\* Layer l of the model of a family.
DecoderLayer(c, tp, l) ==
  CASE c.family = "llama" -> LlamaDecoderLayer(c, tp)
    [] c.family = "eagle" -> EagleDecoderLayer(c, tp)
    [] c.family = "mistral" -> MistralDecoderLayer(c, tp)
    [] c.family = "ministral3" -> Ministral3DecoderLayer(c, tp)
    [] c.family = "orion" -> OrionDecoderLayer(c, tp)
    [] c.family = "gemma" -> GemmaDecoderLayer(c, tp)
    [] c.family = "gemma2" -> Gemma2DecoderLayer(c, tp)
    [] c.family = "gemma3" -> Gemma3DecoderLayer(c, tp)
    [] c.family = "olmo" -> OLMoDecoderLayer(c, tp)
    [] c.family = "olmo2" -> OLMo2DecoderLayer(c, tp)
    [] c.family = "phi3" -> Phi3ParallelBlock(c, tp)
    [] c.family = "stablelm" -> StableLmDecoderLayer(c, tp)
    [] c.family = "qwen2" -> QWen2DecoderLayer(c, tp)
    [] c.family = "qwen3" -> Qwen3DecoderLayer(c, tp)
    [] c.family = "internlm" -> InternLMDecoderLayer(c, tp)
    [] c.family = "internlm2" -> InternLM2DecoderLayer(c, tp)
    [] c.family = "baichuan" -> BaichuanDecoderLayer(c, tp)
    [] c.family = "qwen" -> QWenBlock(c, tp)
    [] c.family = "chatglm" -> GLMBlock(c, tp)
    [] c.family = "cohere" -> CohereDecoderLayer(c, tp)
    [] c.family = "nemotron" -> NemotronDecoderLayer(c, tp)
    [] c.family = "gpt2" -> GPT2Block(c, tp)
    [] c.family = "gpt_neox" -> GPTNeoXLayer(c, tp)
    [] c.family = "gpt_bigcode" -> GPTBigCodeBlock(c, tp)
    [] c.family \in {"phi", "phi-msft"} -> PhiParallelBlock(c, tp)
    [] c.family = "starcoder2" -> Starcoder2DecoderLayer(c, tp)
    [] c.family = "mixtral" -> MixtralDecoderLayer(c, tp)
    [] c.family = "qwen2_moe" -> Qwen2MoeDecoderLayer(c, tp)
    [] c.family = "qwen3_moe" -> Qwen3MoeDecoderLayer(c, tp)
    [] c.family = "minicpm" -> MiniCPMDecoderLayer(c, tp)
    [] c.family = "deepseek" -> DeepseekDecoderLayer(c, tp, l)
    [] c.family \in {"deepseek_v2", "deepseek_v3"} -> DeepseekV2DecoderLayer(c, tp, l)
    [] c.family = "llama4" -> Llama4TextDecoderLayer(c, tp)

\* The parameters that the loader of a family does not pass through.
LoaderOf(c) ==
  CASE c.family \in {"stablelm", "qwen2", "qwen3", "internlm"} ->
         StandardLoader(c) @@ ConcatQkvBias(c)
    [] c.family \in {"chatglm", "phi3", "phi-msft", "gpt_bigcode"} -> <<>>
    [] c.family \in {"cohere", "nemotron"} -> ConcatQkv(c)
    [] c.family \in {"baichuan", "gemma3"} -> ConcatGateUp(c)
    [] c.family = "olmo2" -> OLMo2Loader(c)
    [] c.family = "internlm2" -> InternLM2Loader(c)
    [] c.family = "qwen" -> QWenLoader(c)
    [] c.family = "gpt2" -> GPT2Loader(c)
    [] c.family = "gpt_neox" -> GPTNeoXLoader(c)
    [] c.family = "phi" -> Phi1Loader(c)
    [] c.family = "starcoder2" -> Starcoder2Loader(c)
    [] c.family = "mixtral" -> MixtralLoader(c)
    [] c.family = "qwen2_moe" -> Qwen2MoeLoader(c)
    [] c.family = "qwen3_moe" -> Qwen3MoeLoader(c)
    [] c.family = "minicpm" -> MiniCPMLoader(c)
    [] c.family = "deepseek" -> DeepseekLoader(c)
    [] c.family \in {"deepseek_v2", "deepseek_v3"} -> DeepseekV2Loader(c)
    [] c.family = "llama4" -> Llama4Loader(c)
    [] OTHER -> StandardLoader(c)
=============================================================================
