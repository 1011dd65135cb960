----------------------------- MODULE ModelLayers -----------------------------
(***************************************************************************)
(* What the model definitions (python/mlc_llm/model) are built from, as far *)
(* as distributing them is concerned: parameters and their shard           *)
(* strategies, the submodules of a decoder layer and what they compute, and *)
(* how the loaders make parameters of a checkpoint's tensors.               *)
(*                                                                         *)
(* A configuration c has heads attention heads, kv key-value heads, inter  *)
(* MLP channels, moe channels per expert and shared channels of the shared *)
(* experts; bias says whether the optional biases are there.  A layer is   *)
(* built for tp workers.  Parameters have the same names in all families   *)
(* (qkv, o, gate_up, down, ...).  Experts of one layer are alike, so one    *)
(* stands for all of them.                                                 *)
(***************************************************************************)
EXTENDS TensorParallel, TLC

-----------------------------------------------------------------------------
(* Parameters *)

NoShard == [fn |-> "", dim |-> 0, segs |-> <<>>]
Shard(fn, dim, segs) == [fn |-> fn, dim |-> dim, segs |-> segs]

\* A parameter of len elements along dimension dim of rank many.  quant says
\* whether it is quantized, and whether its elements are the output ("out")
\* or the input features ("in"), along which groups are formed; unit whether
\* they are heads, each of whole groups, or channels.
Param(name, unit, rank, dim, len, quant) ==
  [name |-> name, unit |-> unit, rank |-> rank, dim |-> dim, len |-> len,
   quant |-> quant, shard |-> NoShard]

Linear(name, unit, len)  == Param(name, unit, 2, 0, len, "out")  \* divided by rows
RowLinear(name, unit, len) == Param(name, unit, 2, 1, len, "in") \* by columns
Vector(name, len) == Param(name, "head", 1, 0, len, "none")
Experts(name, len) == Param(name, "channel", 3, 1, len, "out")
RowExperts(name, len) == Param(name, "channel", 3, 2, len, "in")

-----------------------------------------------------------------------------
(* Submodules: parameters and the sum of terms they compute.  Term j of a   *)
(* worker reads, of every read r, element r.at + ((j - 1) * r.n \div width)  *)
(* + 1 of the local parameter; the i-th of the size terms of the undivided  *)
(* model needs element ((i - 1) * r.of \div size) + 1 of projection r.part.  *)

Read(param, part, of, at, n) == [param |-> param, part |-> part, of |-> of, at |-> at, n |-> n]

\* Attention with fused q, k and v; biases is a subset of {"qkv", "o"}.
FusedAttention(c, ok, q, k, biases) ==
  LET fused(param, parts) == {Read(param, parts[1], c.heads, 0, q),
                              Read(param, parts[2], c.kv, q, k),
                              Read(param, parts[3], c.kv, q + k, k)}
  IN  [ok |-> ok,
       params |-> <<Linear("qkv", "head", q + 2 * k)>>
                  \o (IF "qkv" \in biases THEN <<Vector("qkv_bias", q + 2 * k)>> ELSE <<>>)
                  \o <<RowLinear("o", "head", q)>>
                  \o (IF "o" \in biases THEN <<Vector("o_bias", 1)>> ELSE <<>>),
       width |-> q, size |-> c.heads,
       reads |-> fused("qkv", <<"q", "k", "v">>) \cup {Read("o", "o", c.heads, 0, q)}
                 \cup (IF "qkv" \in biases THEN fused("qkv_bias", <<"bq", "bk", "bv">>) ELSE {}),
       whole |-> {}, bias |-> "o" \in biases]

\* Attention with a projection each for q, k and v.
SplitAttention(c, ok, q, k) ==
  [ok |-> ok,
   params |-> <<Linear("q", "head", q), Linear("k", "head", k), Linear("v", "head", k),
                RowLinear("o", "head", q)>>,
   width |-> q, size |-> c.heads,
   reads |-> {Read("q", "q", c.heads, 0, q), Read("k", "k", c.kv, 0, k),
              Read("v", "v", c.kv, 0, k), Read("o", "o", c.heads, 0, q)},
   whole |-> {}, bias |-> FALSE]

\* down(act(first) * second) with both halves in one parameter of len rows.
GatedMlp(size, ok, i, len, halves) ==
  [ok |-> ok,
   params |-> <<Linear("gate_up", "channel", len), RowLinear("down", "channel", i)>>,
   width |-> i, size |-> size,
   reads |-> {Read("gate_up", halves[1], size, 0, i), Read("gate_up", halves[2], size, i, i),
              Read("down", "down", size, 0, i)},
   whole |-> {}, bias |-> FALSE]

GateUp == <<"gate", "up">>

\* down(act(up)); biased when bias.
PlainMlp(size, ok, i, bias) ==
  [ok |-> ok,
   params |-> <<Linear("up", "channel", i)>>
              \o (IF bias THEN <<Vector("up_bias", i)>> ELSE <<>>)
              \o <<RowLinear("down", "channel", i)>>
              \o (IF bias THEN <<Vector("down_bias", 1)>> ELSE <<>>),
   width |-> i, size |-> size,
   reads |-> {Read("up", "up", size, 0, i), Read("down", "down", size, 0, i)}
             \cup (IF bias THEN {Read("up_bias", "bup", size, 0, i)} ELSE {}),
   whole |-> {}, bias |-> bias]

\* A gated MLP per expert, and the gate that chooses among the experts.
MixtureOfExperts(size, ok, i) ==
  [ok |-> ok,
   params |-> <<Vector("router", 2), Experts("moe_gate_up", 2 * i), RowExperts("moe_down", i)>>,
   width |-> i, size |-> size,
   reads |-> {Read("moe_gate_up", "mgate", size, 0, i), Read("moe_gate_up", "mup", size, i, i),
              Read("moe_down", "mdown", size, 0, i)},
   whole |-> {"router"}, bias |-> FALSE]

\* The gated MLP that every token takes besides its experts.
SharedExpert(size, ok, i) ==
  [ok |-> ok,
   params |-> <<Linear("shared_gate_up", "channel", 2 * i), RowLinear("shared_down", "channel", i)>>,
   width |-> i, size |-> size,
   reads |-> {Read("shared_gate_up", "sgate", size, 0, i), Read("shared_gate_up", "sup", size, i, i),
              Read("shared_down", "sdown", size, 0, i)},
   whole |-> {}, bias |-> FALSE]

\* A decoder layer: its parts with their shard strategies and the way their
\* outputs are combined: reduce is "sum" (allreduce), "late" (something not
\* linear is applied to the partial sums first) or "none"; an output bias is
\* added by each worker ("each") or divided among them ("divided").
Layer(parts, shards, reduce, bias) ==
  LET strategy(p) == IF p.name \in DOMAIN shards THEN [p EXCEPT !.shard = shards[p.name]] ELSE p
      all[n \in 0..Len(parts)] == IF n = 0 THEN <<>> ELSE all[n - 1] \o parts[n].params
  IN  [ok |-> \A n \in DOMAIN parts : parts[n].ok,
       params |-> [n \in DOMAIN all[Len(parts)] |-> strategy(all[Len(parts)][n])],
       blocks |-> {[width |-> parts[n].width, size |-> parts[n].size, reads |-> parts[n].reads,
                    whole |-> parts[n].whole, reduce |-> reduce,
                    bias |-> IF parts[n].bias THEN bias ELSE "none"] : n \in DOMAIN parts}]

Qkv(fn, q, k) == Shard(fn, 0, <<q, k, k>>)
\* fault: no segments
WholePair(fn, i) == Shard(fn, 0, <<>>)
\* Two projections in one parameter.
Pair(fn, i) == Shard(fn, 0, <<i, i>>)

\* The strategies that most families share.
StandardShards(q, k, i) ==
  [qkv |-> Qkv("_shard_qkv", q, k), o |-> Shard("_shard_o", 1, <<>>),
   gate_up |-> Pair("_shard_mlp_up", i), down |-> Shard("_shard_mlp_down", 1, <<>>)]

\* The same with a strategy for the bias of qkv.
BiasedShards(q, k, i) ==
  [qkv |-> Qkv("_shard_qkv_weight", q, k), qkv_bias |-> Qkv("_shard_qkv_bias", q, k)]
  @@ StandardShards(q, k, i)

-----------------------------------------------------------------------------
(* Checkpoints and loaders *)

\* The tensors of a HuggingFace checkpoint.
Torch(c, t) ==
  LET h == c.heads
      k == c.kv
      g == h \div k
      Interleaved(q, kp, v) == [n \in 1..(3 * h) |->
        <<(<<q, kp, v>>)[((n - 1) % 3) + 1], ((n - 1) \div 3) + 1>>]
  IN  CASE t = "q_proj" -> Part("q", h)   [] t = "q_bias" -> Part("bq", h)
        [] t = "k_proj" -> Part("k", k)   [] t = "k_bias" -> Part("bk", k)
        [] t = "v_proj" -> Part("v", k)   [] t = "v_bias" -> Part("bv", k)
        [] t = "qkv_proj" -> Part("q", h) \o Part("k", k) \o Part("v", k)
        [] t = "qkv_bias" -> Part("bq", h) \o Part("bk", k) \o Part("bv", k)
        [] t = "query_key_value" -> Interleaved("q", "k", "v")
        [] t = "query_key_value_bias" -> Interleaved("bq", "bk", "bv")
        [] t = "wqkv" -> [n \in 1..(h + 2 * k) |->
             LET kvh == (n - 1) \div (g + 2)
                 r == (n - 1) % (g + 2)
             IN  IF r < g THEN <<"q", kvh * g + r + 1>>
                 ELSE <<IF r = g THEN "k" ELSE "v", kvh + 1>>]
        [] t = "kv_b_proj" -> Part("kvb", h)
        [] t = "o_proj" -> Part("o", h)
        [] t = "gate_proj" -> Part("gate", c.inter)
        [] t = "up_proj" -> Part("up", c.inter)    [] t = "up_bias" -> Part("bup", c.inter)
        [] t = "down_proj" -> Part("down", c.inter)
        [] t = "gate_up_proj" -> Part("gate", c.inter) \o Part("up", c.inter)
        [] t = "expert_gate" -> Part("mgate", c.moe)
        [] t = "expert_up" -> Part("mup", c.moe)
        [] t = "expert_down" -> Part("mdown", c.moe)
        [] t = "expert_gate_up" -> Part("mgate", c.moe) \o Part("mup", c.moe)
        [] t = "shared_gate" -> Part("sgate", c.shared)
        [] t = "shared_up" -> Part("sup", c.shared)
        [] t = "shared_down" -> Part("sdown", c.shared)
        [] t = "router" -> Part("router", 2)
        [] t \in {"o_bias", "down_bias", "q_norm", "k_norm", "kv_a", "shared_expert_gate",
                  "embed_tokens", "norm", "lm_head"}
             -> Part(t, 1)
        [] OTHER -> <<>>

\* A parameter made of the checkpoint's tensors, concatenated.
Concat(c, from) ==
  LET cat[n \in 0..Len(from)] == IF n = 0 THEN <<>> ELSE cat[n - 1] \o Torch(c, from[n])
  IN  [from |-> from, data |-> cat[Len(from)]]

\* The tensor a parameter of the same meaning has in the checkpoint.
SameName == [qkv |-> "qkv_proj", qkv_bias |-> "qkv_bias", q |-> "q_proj", k |-> "k_proj",
             v |-> "v_proj", o |-> "o_proj", gate_up |-> "gate_up_proj", gate |-> "gate_proj",
             up |-> "up_proj", down |-> "down_proj", moe_gate_up |-> "expert_gate_up",
             moe_down |-> "expert_down", kv_b |-> "kv_b_proj"]

\* Parameters that are passed through.
PassThrough(c, name) ==
  Concat(c, <<IF name \in DOMAIN SameName THEN SameName[name] ELSE name>>)

ConcatQkv(c) == [qkv |-> Concat(c, <<"q_proj", "k_proj", "v_proj">>)]
ConcatQkvBias(c) == [qkv_bias |-> Concat(c, <<"q_bias", "k_bias", "v_bias">>)]
ConcatGateUp(c) == [gate_up |-> Concat(c, <<"gate_proj", "up_proj">>)]
ConcatExperts(c) == [moe_gate_up |-> Concat(c, <<"expert_gate", "expert_up">>)]
ConcatShared(c) == [shared_gate_up |-> Concat(c, <<"shared_gate", "shared_up">>)]

\* make_standard_hf_loader with its defaults.  A loader is the function of the
\* parameters it does not pass through.
StandardLoader(c) == ConcatQkv(c) @@ ConcatGateUp(c)
=============================================================================
