----------------------------- MODULE MCServing -----------------------------
(* Machines for ModelServing: every family with one worker and with two, on *)
(* machines that serve, and downloads and compilations by several processes *)
(* on machines that do not.                                                  *)
EXTENDS ModelServing

Base == [hidden_size |-> 8, num_attention_heads |-> 4, num_hidden_layers |-> 2, head_dim |-> 2]
Window == [max_position_embeddings |-> 8]
Gqa == [num_key_value_heads |-> 2]

\* Families with as many key-value heads as heads, and with fewer.
Equal == {"baichuan", "internlm", "qwen", "gpt_neox", "gptj"}
Standard == {"internlm2", "qwen2", "qwen2_moe", "qwen3", "qwen3_moe", "qwen3-embedding", "chatglm",
             "deepseek", "gemma", "minicpm", "mistral", "ministral3", "mixtral", "olmo", "olmo2",
             "orion", "phi", "stablelm", "starcoder2", "llama", "cohere", "phi3", "phi3_v", "eagle",
             "deepseek_v2", "deepseek_v3", "nemotron"}

Source(family) ==
  CASE family \in Equal -> Base @@ Window
    [] family \in {"gpt2", "gpt_bigcode"} -> Base @@ [n_positions |-> 8]
    [] family = "phi-msft" -> Base @@ Gqa @@ [n_positions |-> 8]
    [] family = "gemma2" -> Base @@ Gqa @@ Window @@ [sliding_window |-> 6]
    [] family = "gemma3" -> [text_config |-> Base @@ Gqa @@ Window @@ [sliding_window |-> 6]]
    [] family = "gemma3_text" -> Base @@ Gqa @@ Window @@ [sliding_window |-> 6]
    [] family = "llama4" -> [text_config |-> Base @@ Gqa]
    [] family = "llava" -> [text_config |-> Base @@ Gqa @@ Window, text_architecture |-> "llama"]
    [] family \in {"rwkv5", "rwkv6", "medusa"} -> Base
    [] family \in {"bert", "bert-bge"} -> Base @@ Window
    [] family \in {"qwen3_5", "qwen3_5_text"} ->
          [text_config |-> Base @@ Gqa @@ Window @@ [num_hidden_layers |-> 5]]
    [] OTHER -> Base @@ Gqa @@ Window

Described(family, overrides, edits) ==
  [type |-> family, source |-> Source(family), overrides |-> overrides, edits |-> edits]
Batch == [max_batch_size |-> 4]
Shards2 == [tensor_parallel_shards |-> 2]

Machine(model, engines) ==
  [model |-> model, engines |-> engines, url |-> FALSE, download |-> "ON", readonly |-> FALSE,
   there |-> FALSE, jit |-> "ON", same_fs |-> TRUE, gpu |-> 64, crashes |-> 0, len |-> 0]

\* Machines that serve one family.  Positions taken from the second dimension and
\* recurrent states are right for one sequence at a time.
OneAtATime == {"gpt2", "gpt_bigcode", "rwkv5", "rwkv6", "qwen3_5", "qwen3_5_text"}
OneWorker == OneAtATime \cup {"llava", "deepseek", "nemotron", "phi3_v", "bert", "bert-bge", "medusa"}
Length(family) ==
  IF family \in {"llama", "deepseek_v2", "rwkv5", "rwkv6"} THEN 4
  ELSE IF family \in OneAtATime \cup Embeds THEN 3 ELSE 2
Families == Equal \cup Standard \cup
            {"gpt2", "gpt_bigcode", "phi-msft", "gemma2", "gemma3", "gemma3_text", "llama4", "llava",
             "rwkv5", "rwkv6", "bert", "bert-bge", "qwen3_5", "qwen3_5_text", "medusa"}

Serving(family, shards) ==
  [Machine(Described(family, Batch @@ shards, <<>>),
           <<[mode |-> IF family \in OneAtATime THEN "interactive" ELSE "local"]>>)
     EXCEPT !.len = Length(family)]
MCServingMachines ==
  {Serving(f, <<>>) : f \in Families} \cup {Serving(f, Shards2) : f \in Families \ OneWorker}
  \cup {[Serving("qwen3-embedding", <<>>) EXCEPT
           !.model = Described("qwen3-embedding", [prefill_chunk_size |-> 2] @@ Batch, <<>>)]}

\* Machines that only load: policies, engine configurations and crashes.
Engines == {[mode |-> "local"], [mode |-> "server", max_num_sequence |-> 2],
            [mode |-> "interactive", max_single_sequence_length |-> 4],
            [mode |-> "server", max_single_sequence_length |-> 4, prefill_chunk_size |-> 2],
            [mode |-> "local", tensor_parallel_shards |-> 2],
            [mode |-> "server", max_single_sequence_length |-> -1]}
MCLoadingMachines ==
  LET llama == Described("llama", Batch, <<>>)
      edited == Described("llama", Batch, [prefill_chunk_size |-> 4])
      two == Machine(llama, <<[mode |-> "local"], [mode |-> "server"]>>)
      url == [two EXCEPT !.url = TRUE]
  IN  {Machine(m, <<e, f>>) : m \in {llama, edited}, e \in Engines, f \in Engines}
      \cup {[url EXCEPT !.download = d, !.readonly = r, !.there = t, !.jit = j] :
              d \in {"ON", "OFF", "READONLY"}, r \in BOOLEAN, t \in BOOLEAN,
              j \in {"ON", "OFF", "READONLY", "REDO"}}
      \cup {[url EXCEPT !.crashes = 1],
            [Machine(llama, <<[mode |-> "local"], [mode |-> "local"], [mode |-> "local"]>>)
               EXCEPT !.url = TRUE]}
      \cup {[Machine(llama, <<[mode |-> "local"]>>) EXCEPT
               !.url = TRUE, !.download = d, !.there = t, !.same_fs = FALSE] :
              d \in {"ON", "REDO"}, t \in BOOLEAN}
      \* with disturbances: files copied, directories deleted, crashes between
      \cup {[url EXCEPT !.same_fs = FALSE, !.jit = j] : j \in {"ON", "REDO"}}
      \cup {[url EXCEPT !.same_fs = s, !.download = "REDO"] : s \in BOOLEAN}
      \cup {[Machine(llama, <<[mode |-> "local"]>>) EXCEPT
               !.url = TRUE, !.same_fs = s, !.download = d, !.crashes = 1] :
              s \in BOOLEAN, d \in {"ON", "REDO"}}
      \cup {[Machine(Described("rwkv5", Batch, <<>>), <<[mode |-> "local", max_single_sequence_length |-> 4]>>)
               EXCEPT !.gpu = 64]}

MCInstances == MCServingMachines \cup MCLoadingMachines
=============================================================================
