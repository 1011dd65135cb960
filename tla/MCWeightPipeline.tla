-------------------------- MODULE MCWeightPipeline --------------------------
(***************************************************************************)
(* Instances of WeightPipeline for TLC.                                    *)
(***************************************************************************)
EXTENDS WeightPipeline

Base == [family |-> "llama", layers |-> 1, tp |-> 1, pp |-> 1, heads |-> 4, kv |-> 2,
         inter |-> 8, moe |-> 8, shared |-> 8, bias |-> FALSE, parallel |-> FALSE, dense |-> 0,
         quant |-> FALSE, group |-> 4, per |-> 2, preshard |-> 0, presharded |-> FALSE,
         fileSize |-> 100, sorted |-> FALSE]

\* Families with as many key-value heads as heads, or with one.
Families == {"llama", "eagle", "mistral", "ministral3", "orion", "gemma", "gemma2", "gemma3", "olmo",
             "olmo2", "phi3", "stablelm", "qwen2", "qwen3", "internlm", "internlm2", "baichuan",
             "qwen", "chatglm", "cohere", "nemotron", "gpt2", "gpt_neox", "gpt_bigcode", "phi",
             "phi-msft", "starcoder2", "mixtral", "qwen2_moe", "qwen3_moe", "minicpm", "deepseek",
             "deepseek_v2", "llama4"}
MultiHead == {"internlm", "baichuan", "qwen", "gpt2", "gpt_neox", "deepseek_v2"}
Of(f) == [Base EXCEPT !.family = f,
                      !.kv = IF f \in MultiHead THEN 4 ELSE IF f = "gpt_bigcode" THEN 1 ELSE 2]

\* Every family on one worker, with and without its optional biases.
One == {[Of(f) EXCEPT !.quant = q, !.bias = b, !.moe = IF f = "minicpm" /\ b THEN 0 ELSE 8] :
          f \in Families, q \in BOOLEAN, b \in BOOLEAN}

\* Divided among two, or four.  Left out is what is loaded but computes
\* something else: families that divide what they should not, output biases
\* that every worker adds, and residuals that are not reduced.
Two == {[Of(f) EXCEPT !.tp = 2, !.quant = q] :
          f \in Families \ {"chatglm", "llama4"}, q \in BOOLEAN}
       \cup {[Of(f) EXCEPT !.tp = 2, !.bias = TRUE] : f \in {"stablelm", "internlm", "starcoder2"}}
       \cup {[Of("deepseek_v2") EXCEPT !.tp = 2, !.layers = 2, !.dense = 1],
             [Of("deepseek") EXCEPT !.layers = 2, !.dense = 1],
             [Of("deepseek") EXCEPT !.tp = 2, !.layers = 2, !.dense = 1],
             [Of("minicpm") EXCEPT !.tp = 2, !.moe = 0],
             [Of("llama") EXCEPT !.tp = 4, !.kv = 4, !.inter = 16, !.quant = TRUE]}

\* Heads, channels and groups that cannot be divided.
Odd == {[Of(f) EXCEPT !.tp = 2, !.kv = 1] : f \in {"llama", "mistral", "phi3", "starcoder2"}}
       \cup {[Of("llama") EXCEPT !.tp = 2, !.inter = n, !.quant = TRUE] : n \in {6, 7, 10}}
       \cup {[Of("mixtral") EXCEPT !.tp = 2, !.moe = 7]}

\* Presharded at conversion, at run time, or both.
Preshard == {[Of(f) EXCEPT !.tp = 2, !.quant = q, !.preshard = 2, !.presharded = TRUE] :
               f \in {"llama", "gpt2", "mixtral", "deepseek_v2", "nemotron"}, q \in BOOLEAN}
            \cup {[Of("llama") EXCEPT !.kv = 4, !.tp = t, !.preshard = n, !.presharded = r] :
                    t \in {1, 2}, n \in {0, 2, 4}, r \in BOOLEAN}
            \cup {[Of("llama") EXCEPT !.tp = 2, !.preshard = 4]}

\* Pipeline stages: two groups of one or two workers, also with a number of
\* layers that two does not divide, or too few.
Pipeline == {[Of(f) EXCEPT !.pp = 2, !.layers = n, !.tp = t] :
               f \in {"llama", "olmo", "olmo2"}, n \in {2, 3, 4}, t \in {1, 2}}
            \cup {[Of("llama") EXCEPT !.pp = 3, !.layers = 4], [Of("mistral") EXCEPT !.pp = 2],
                  [Of("llama") EXCEPT !.pp = 3, !.layers = 3],
                  [Of("nemotron") EXCEPT !.pp = 2, !.layers = 2],
                  [Of("llama") EXCEPT !.pp = 2, !.layers = 2, !.quant = TRUE],
                  [Of("llama") EXCEPT !.pp = 2, !.layers = 2, !.tp = 2, !.quant = TRUE],
                  [Of("llama") EXCEPT !.pp = 2, !.layers = 2, !.tp = 2, !.preshard = 2,
                                      !.presharded = TRUE]}

\* Checkpoints of several files.
Split == {[Of(f) EXCEPT !.layers = 2, !.fileSize = n, !.sorted = o] :
            f \in {"llama", "gpt2", "deepseek_v2"}, n \in 2..7, o \in BOOLEAN}

MainConfigs == One \cup Two \cup Odd \cup Preshard \cup Pipeline \cup Split
=============================================================================
