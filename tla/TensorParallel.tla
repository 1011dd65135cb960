--------------------------- MODULE TensorParallel ---------------------------
(***************************************************************************)
(* Tensors seen along the one dimension that tensor parallelism divides,   *)
(* and what the code does to them: ShardSingleDim                          *)
(* (support/tensor_parallel.py), the layouts of group quantization         *)
(* (quantization/group_quantization.py) and the regrouping of fused        *)
(* checkpoints by the loaders.                                             *)
(*                                                                         *)
(* A tensor is a sequence of elements <<part, i>>: the rows (or columns) of *)
(* head i, or of channel i of the MLP, of the projection "part".  The other *)
(* dimensions are never divided and are left out.                          *)
(***************************************************************************)
EXTENDS Integers, Sequences

\* The whole projection p with n heads or channels.
Part(p, n) == [i \in 1..n |-> <<p, i>>]

CeilDiv(a, b) == (a + b - 1) \div b

-----------------------------------------------------------------------------
(* Sharding *)

\* Sum of the first k segments.
Offset(segs, k) ==
  LET sum[i \in 0..Len(segs)] == IF i = 0 THEN 0 ELSE sum[i - 1] + segs[i]
  IN  sum[k]

\* The segments a strategy stands for, self.segs or [shape[self.dim]].
Segments(shard, len) == IF shard.segs = <<>> THEN <<len>> ELSE shard.segs

\* assert sum(segs) == shape[self.dim]
SegmentsFit(shard, len) == Offset(Segments(shard, len), Len(Segments(shard, len))) = len

\* Row w of the result of the generated function: of every segment, which is
\* shards times as long in the whole tensor, the w-th piece.
ShardOf(tensor, segs, shards, w) ==
  [j \in 1..Offset(segs, Len(segs)) |->
     LET k == CHOOSE k \in 1..Len(segs) : Offset(segs, k - 1) < j /\ j <= Offset(segs, k)
     IN  tensor[shards * Offset(segs, k - 1) + w * segs[k] + j - Offset(segs, k - 1)]]

-----------------------------------------------------------------------------
(* Group quantization along the dimension of the tensor *)

Pad == <<"pad", 0>>

\* The tensor cut into cells of the given size; the last ones are padded.
Cells(tensor, size, count) ==
  [i \in 1..count |-> [j \in 1..size |->
     LET k == (i - 1) * size + j IN IF k <= Len(tensor) THEN tensor[k] ELSE Pad]]

\* quantize_weight: the packed integers, perStorage in each, and a scale for
\* every group.
QuantizeWeight(tensor, group, perStorage) ==
  LET num_group == CeilDiv(Len(tensor), group)
  IN  [q_weight |-> Cells(tensor, perStorage, (group \div perStorage) * num_group),
       q_scale  |-> Cells(tensor, group, num_group)]

\* _dequantize: position j takes its integer from one cell and its scale from
\* another.  The value is only right when that scale is the one of its group.
Dequantize(q_weight, q_scale, j, group, perStorage) ==
  LET x == q_weight[((j - 1) \div perStorage) + 1][((j - 1) % perStorage) + 1]
      cell == q_scale[((j - 1) \div group) + 1]
  IN  IF x \in {cell[i] : i \in DOMAIN cell} THEN x ELSE Pad

\* The check of GroupQuantizeLinear.__init__ on its number of input features.
GroupsDivide(in, shards, group) == shards = 1 \/ ((in * shards) \div group) % shards = 0

-----------------------------------------------------------------------------
(* Layouts of fused checkpoints *)

\* GPT-NeoX stores q, k and v of each head together: transform_qkv_layout.
TransformQkvLayout(w, heads) ==
  [i \in 1..(3 * heads) |-> w[((i - 1) % heads) * 3 + ((i - 1) \div heads) + 1]]

\* InternLM2 stores, for each key-value head, its query heads, k and v:
\* _convert_wqkv_layout.
ConvertWqkvLayout(w, heads, kv) ==
  LET g == heads \div kv
      at(i) == IF i <= heads THEN ((i - 1) \div g) * (g + 2) + ((i - 1) % g) + 1
               ELSE ((i - heads - 1) % kv) * (g + 2) + g + ((i - heads - 1) \div kv) + 1
  IN  [i \in 1..(heads + 2 * kv) |-> w[at(i)]]
=============================================================================
