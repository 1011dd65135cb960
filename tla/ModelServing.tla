---------------------------- MODULE ModelServing ----------------------------
(***************************************************************************)
(* The model wrapper of the engine (cpp/serve/model.cc) with the model it   *)
(* has loaded: which function of the library is called for which sequences, *)
(* what each token of a call then sees of the caches and at which           *)
(* positions, and which rows come back.  The embedding engine               *)
(* (serve/embedding_engine.py) calls the same functions.                    *)
(*                                                                         *)
(* A token is <<s, n, kind>>: the n-th input of sequence s, a text token     *)
(* "t" or an image "i", which is ImageLength tokens of the cache.  The text  *)
(* of a sequence is what the engine has fed to it.  The process that serves *)
(* is Server, with texts of at most inst.len inputs.                        *)
(***************************************************************************)
EXTENDS Deployment, SequencesExt

CONSTANTS Seqs,  \* the sequence ids
          Server \* the process that serves

VARIABLES seqs,      \* the sequences: text, cache entries and recurrent state
          prefilled, \* prefilled_seq_ids_
          delta,     \* mrope_delta_by_seq_id_
          onDevice,  \* mrope_delta_device_by_seq_id_
          consumed,  \* mrope_prefilled_length_by_seq_id_
          result     \* the rows of the last call, and those that were wanted

wrapper == <<prefilled, delta, onDevice, consumed>>
serving == <<seqs, prefilled, delta, onDevice, consumed, result>>

ImageLength == 4
\* An image of two by two tokens is as wide as two positions.
ImageSpan == IF inst.model.type = "qwen3_5" THEN 2 ELSE ImageLength

Images(text) == Cardinality({i \in DOMAIN text : text[i][3] = "i"})
TokensOf(text) == Len(text) + (ImageLength - 1) * Images(text)
Put(s, n, kinds) == [i \in DOMAIN kinds |-> <<s, n + i, kinds[i]>>]
Up(text, n) == SubSeq(text, 1, n)

NoResult == [rows |-> <<>>, wanted |-> <<>>]
Loaded == engine[Server]
Functions == Loaded.model.functions
Workers == Loaded.tp
HasKv == Loaded.model.cache.layers > 0
HasState == Loaded.model.rnn.layers > 0

-----------------------------------------------------------------------------
(* Recurrent states *)

\* CreateKVCache: how many states of a sequence are kept, at least one.
History == IF Loaded.limits.max_history_size > 1 THEN Loaded.limits.max_history_size ELSE 1

\* The states of a sequence in a ring, the slot of the current one, and how many
\* of those before it a sequence can go back to.  A state is what was read into it.
RingOf(value) ==
  IF HasState THEN [storage |-> [h \in 0..(History - 1) |-> IF h = 0 THEN value ELSE <<>>],
                    at |-> 0, available |-> 0]
  ELSE <<>>
\* The kernel of RNNState.get.
StateGet(ring) == ring.storage[ring.at]
\* The kernel of RNNState.set: the slot after the current one.
StateSet(ring, value) == [ring EXCEPT !.storage[(ring.at + 1) % History] = value]
\* The runtime: after a call with n tokens, and going back n calls.  What came with
\* other tokens cannot be taken back.
EndForward(ring, n) ==
  [ring EXCEPT !.at = (@ + 1) % History,
               !.available = IF n > 1 THEN 0 ELSE IF @ < History - 1 THEN @ + 1 ELSE @]
StatePop(ring, n) == [ring EXCEPT !.at = (@ + History - n) % History, !.available = @ - n]

-----------------------------------------------------------------------------
(* What a call computes *)

\* What worker 0 alone has is known to the others if the function broadcasts it.
Reaches(f, input) == Workers = 1 \/ input \in f.broadcasts

\* embed
Embedded(items) == IF Reaches(Functions.embed, "input_ids") THEN items ELSE [i \in DOMAIN items |-> <<>>]

\* The positions the cache has for the k-th input of the i-th sequence of a call.
QueryPosition(olds, news, i, k) ==
  TokensOf([j \in DOMAIN olds[i].kv |-> olds[i].kv[j][1]]) + TokensOf(Up(news[i], k - 1))

\* Those the model takes: in a batch of single tokens the second dimension is one.
Positions(olds, news, flat) ==
  [i \in DOMAIN news |-> [k \in DOMAIN news[i] |->
     QueryPosition(olds, news,
                   IF Loaded.model.positions = "second" /\ ~flat THEN 1 ELSE i, k)]]

\* One call with the inputs news for sequences with the caches olds, flattened into
\* one row of tokens or as a batch of single tokens.  A recurrent layer takes as
\* many states as the batch has rows.
Forward(f, olds, news, positions, flat) ==
  LET items == [i \in DOMAIN news |-> Embedded(news[i])]
      entries == [i \in DOMAIN news |-> [k \in DOMAIN news[i] |-> <<items[i][k], positions[i][k]>>]]
      kvs == [i \in DOMAIN news |-> IF HasKv THEN olds[i].kv \o entries[i] ELSE <<>>]
      get(i) == StateGet(olds[i].state)
      set(i, value) == StateSet(olds[i].state, value)
      before(i) == IF flat THEN get(1) \o FlattenSeq(SubSeq(items, 1, i - 1)) ELSE get(i)
      states == [i \in DOMAIN news |->
                   IF ~HasState THEN <<>>
                   ELSE EndForward(IF ~flat THEN set(i, get(i) \o items[i])
                                   ELSE IF i = 1 THEN set(1, get(1) \o FlattenSeq(items))
                                   ELSE olds[i].state, Len(items[i]))]
      row(i, k) == [token |-> items[i][k],
                    saw |-> IF ~HasKv THEN <<>> ELSE IF f.attends = "new" THEN Up(entries[i], k)
                            ELSE olds[i].kv \o Up(entries[i], k),
                    state |-> IF HasState THEN before(i) \o Up(items[i], k) ELSE <<>>]
      all == [i \in DOMAIN news |-> [k \in DOMAIN news[i] |-> row(i, k)]]
      last == [i \in DOMAIN news |-> row(i, Len(news[i]))]
      rows == CASE f.rows = "all" -> FlattenSeq(all)
                [] f.rows = "last" -> IF flat THEN <<last[Len(news)]>> ELSE last
                [] f.rows = "taken" -> IF Reaches(f, "logit_positions") THEN last ELSE <<>>
  IN  [kvs |-> kvs, states |-> states, rows |-> rows]

\* The row of the n-th input of a text: its tokens so far, each at its place.
RightRow(text, n) ==
  [token |-> text[n],
   saw |-> IF HasKv THEN [j \in 1..n |-> <<text[j], j - 1 + (ImageSpan - 1) * Images(Up(text, j - 1))>>]
           ELSE <<>>,
   state |-> IF HasState THEN Up(text, n) ELSE <<>>]

-----------------------------------------------------------------------------
(* Calls *)

Olds(ids) == [i \in DOMAIN ids |-> seqs[ids[i]]]
NewTexts(ids, news) == [i \in DOMAIN ids |-> seqs[ids[i]].text \o news[i]]

\* The caches after a call, its rows, and those the engine expects: the last of
\* every sequence or all.
Return(ids, news, out, every) ==
  LET texts == NewTexts(ids, news)
      wanted(i) == IF every THEN [k \in DOMAIN news[i] |-> RightRow(texts[i], Len(seqs[ids[i]].text) + k)]
                   ELSE <<RightRow(texts[i], Len(texts[i]))>>
  IN  /\ seqs' = [s \in DOMAIN seqs |->
                    IF s \in Range(ids)
                    THEN LET i == CHOOSE j \in DOMAIN ids : ids[j] = s
                         IN  [text |-> texts[i], kv |-> out.kvs[i], state |-> out.states[i]]
                    ELSE seqs[s]]
       /\ result' = [rows |-> out.rows, wanted |-> FlattenSeq([i \in DOMAIN ids |-> wanted(i)])]

\* AdvanceMropePrefilledLengths
Advance(ids, news) ==
  IF inst.model.type # "qwen3_5" THEN consumed
  ELSE [s \in Range(ids) |->
          LET i == CHOOSE j \in DOMAIN ids : ids[j] = s
          IN  (IF s \in DOMAIN consumed THEN consumed[s] ELSE 0) + TokensOf(news[i])] @@ consumed

HasMropeDelta(ids) == inst.model.type = "qwen3_5" /\ \E s \in Range(ids) : s \in DOMAIN delta
DeltaOf(s) == IF s \in DOMAIN delta THEN delta[s] ELSE 0
ConsumedOf(s) == IF s \in DOMAIN consumed THEN consumed[s] ELSE 0

\* A model with a function of its own for it extends what it has prefilled.
PrefillFunction(ids) ==
  LET extends == "extend" \in DOMAIN Functions /\ \E s \in Range(ids) : s \in prefilled
  IN  IF Len(ids) = 1 /\ Loaded.kind # "hybrid" THEN IF extends THEN "extend" ELSE "prefill"
      ELSE IF extends THEN "batch_extend" ELSE "batch_prefill"

BatchPrefill_(ids, news) ==
  LET olds == Olds(ids)
      out == Forward(Functions[PrefillFunction(ids)], olds, news, Positions(olds, news, TRUE), TRUE)
  IN  /\ Return(ids, news, out, FALSE)
      /\ prefilled' = IF "extend" \in DOMAIN Functions THEN prefilled \cup Range(ids) ELSE prefilled
      /\ UNCHANGED <<delta, onDevice>>

\* BuildQwen35MropeTensors and its continuation: where the k-th of the new inputs
\* of a sequence begins.
MropePosition(s, new, k) ==
  ConsumedOf(s) + DeltaOf(s) + k - 1 + (ImageSpan - 1) * Images(Up(new, k - 1))
\* The positions less than the tokens: deltas[seq] with an image.
MropeDelta(s, new) ==
  MropePosition(s, new, Len(new) + 1) - (ConsumedOf(s) + TokensOf(new))

BatchPrefillWithMrope(ids, news) ==
  LET image == \E i \in DOMAIN news : Images(news[i]) > 0
      positions == [i \in DOMAIN ids |-> [k \in DOMAIN news[i] |-> MropePosition(ids[i], news[i], k)]]
      out == Forward(Functions["batch_prefill_mrope"], Olds(ids), news, positions, TRUE)
      deltas == [s \in Range(ids) |-> MropeDelta(s, news[CHOOSE j \in DOMAIN ids : ids[j] = s])]
  IN  /\ consumed' = Advance(ids, news)
      /\ IF inst.model.type # "qwen3_5" \/ (~image /\ ~HasMropeDelta(ids))
         THEN BatchPrefill_(ids, news)
         ELSE /\ Return(ids, news, out, FALSE)
              /\ prefilled' = prefilled \cup Range(ids)
              /\ delta' = IF image THEN deltas @@ delta ELSE delta
              /\ onDevice' = IF image THEN [s \in DOMAIN onDevice \ Range(ids) |-> onDevice[s]] ELSE onDevice

\* BatchPrefillToLastHidden, then batch_select_last_hidden_states and get_logits; a
\* draft model has only the first.
BatchPrefillToLastHidden(ids, news) ==
  LET name == IF Len(ids) = 1 THEN "prefill_to_last_hidden_states"
              ELSE "batch_prefill_to_last_hidden_states"
      olds == Olds(ids)
      out == Forward(Functions[name], olds, news, Positions(olds, news, TRUE), TRUE)
      draft == "batch_select_last_hidden_states" \notin DOMAIN Functions
      ends == [i \in DOMAIN news |-> Len(FlattenSeq(SubSeq(news, 1, i)))]
      taken == IF Reaches(Functions["batch_select_last_hidden_states"], "logit_positions")
               THEN [i \in DOMAIN ids |-> out.rows[ends[i]]] ELSE <<>>
  IN  Return(ids, news, IF draft THEN out ELSE [out EXCEPT !.rows = taken], draft) /\ UNCHANGED wrapper

\* GetMropeDeltasForSeqIdsOnDevice: what is on the device is not copied again.
DeviceDelta(ids, i) ==
  IF Len(ids) = 1 /\ ids[1] \in DOMAIN onDevice THEN onDevice[ids[1]] ELSE DeltaOf(ids[i])

BatchDecode(ids, news) ==
  LET mrope == HasMropeDelta(ids)
      name == IF Len(ids) = 1 THEN IF mrope THEN "decode_mrope" ELSE "decode"
              ELSE IF mrope THEN "batch_decode_mrope" ELSE "batch_decode"
      olds == Olds(ids)
      query == Positions(olds, news, FALSE)
      positions == IF mrope THEN [i \in DOMAIN ids |-> <<query[i][1] + DeviceDelta(ids, i)>>] ELSE query
  IN  /\ Return(ids, news, Forward(Functions[name], olds, news, positions, FALSE), FALSE)
      /\ onDevice' = IF mrope /\ Len(ids) = 1 THEN (ids[1] :> DeviceDelta(ids, 1)) @@ onDevice
                     ELSE onDevice
      /\ UNCHANGED <<prefilled, delta, consumed>>

BatchDecodeToLastHidden(ids, news) ==
  LET name == IF Len(ids) = 1 THEN "decode_to_last_hidden_states"
              ELSE "batch_decode_to_last_hidden_states"
      olds == Olds(ids)
  IN  /\ Return(ids, news, Forward(Functions[name], olds, news, Positions(olds, news, FALSE), FALSE), FALSE)
      /\ UNCHANGED wrapper

\* GetMropeDeltasForTokenSpans
BatchVerify(ids, news) ==
  LET mrope == HasMropeDelta(ids)
      olds == Olds(ids)
      query == Positions(olds, news, TRUE)
      positions == [i \in DOMAIN ids |-> [k \in DOMAIN news[i] |->
                      query[i][k] + (IF mrope THEN DeltaOf(ids[i]) ELSE 0)]]
      f == Functions[IF mrope THEN "batch_verify_mrope" ELSE "batch_verify"]
  IN  Return(ids, news, Forward(f, olds, news, positions, TRUE), TRUE) /\ UNCHANGED wrapper

BatchVerifyToLastHidden(ids, news) ==
  LET olds == Olds(ids)
      f == Functions["batch_verify_to_last_hidden_states"]
  IN  /\ ~HasMropeDelta(ids)
      /\ Return(ids, news, Forward(f, olds, news, Positions(olds, news, TRUE), TRUE), TRUE)
      /\ UNCHANGED wrapper

-----------------------------------------------------------------------------
(* The caches *)

AddNewSequence(s) ==
  /\ seqs' = (s :> [text |-> <<>>, kv |-> <<>>, state |-> RingOf(<<>>)]) @@ seqs
  /\ UNCHANGED wrapper

\* fault: the child counts as a new sequence
ForkAsNew(parent, child, n) ==
  /\ seqs' = (child :> [seqs[parent] EXCEPT !.text = Up(@, n),
                                                !.kv = Up(@, IF HasKv THEN n ELSE 0)]) @@ seqs
  /\ UNCHANGED wrapper
\* With n inputs of the parent.
ForkSequence(parent, child, n) ==
  LET copy(f) == IF parent \in DOMAIN f THEN (child :> f[parent]) @@ f ELSE f
      length == TokensOf(Up(seqs[parent].text, n))
  IN  /\ seqs' = (child :> [text |-> Up(seqs[parent].text, n),
                            kv |-> Up(seqs[parent].kv, IF HasKv THEN n ELSE 0),
                            state |-> IF HasState THEN RingOf(StateGet(seqs[parent].state)) ELSE <<>>]) @@ seqs
      /\ prefilled' = prefilled \cup {child}
      /\ delta' = copy(delta) /\ onDevice' = copy(onDevice)
      /\ consumed' = IF parent \in DOMAIN consumed
                     THEN (child :> IF consumed[parent] < length THEN consumed[parent] ELSE length) @@ consumed
                     ELSE consumed

Without(f, s) == [x \in DOMAIN f \ {s} |-> f[x]]
RemoveSequence(s) ==
  /\ seqs' = Without(seqs, s)
  /\ prefilled' = prefilled \ {s}
  /\ delta' = Without(delta, s) /\ onDevice' = Without(onDevice, s) /\ consumed' = Without(consumed, s)

\* The last n inputs, which are text.
PopNFromKVCache(s, n) ==
  /\ seqs' = [seqs EXCEPT ![s].text = Up(@, Len(@) - n), ![s].kv = IF HasKv THEN Up(@, Len(@) - n) ELSE @,
                           ![s].state = IF HasState THEN StatePop(@, n) ELSE @]
  /\ consumed' = IF s \in DOMAIN consumed
                 THEN [consumed EXCEPT ![s] = IF @ > n THEN @ - n ELSE 0] ELSE consumed
  /\ UNCHANGED <<prefilled, delta, onDevice>>

Reset ==
  seqs' = <<>> /\ prefilled' = {} /\ delta' = <<>> /\ onDevice' = <<>> /\ consumed' = <<>>

-----------------------------------------------------------------------------
(* The embedding engine *)

\* The n-th of the inputs.
Input(n, length) == Put(<<"input", n>>, 0, [i \in 1..length |-> "t"])
Fresh == [kv |-> <<>>, state |-> RingOf(<<>>)]

\* _embed_encoder: one at a time, cut to the chunk; every token sees all of them.
EmbedEncoder(inputs, chunk) ==
  [i \in DOMAIN inputs |-> Up(inputs[i], IF Len(inputs[i]) > chunk THEN chunk ELSE Len(inputs[i]))]

\* _build_sub_batches: consecutive inputs as long as they fit together.
BuildSubBatches(inputs, chunk) ==
  FoldLeft(LAMBDA acc, input :
            IF acc # <<>> /\ Len(FlattenSeq(acc[Len(acc)])) + Len(input) <= chunk
            THEN [acc EXCEPT ![Len(acc)] = Append(@, input)] ELSE Append(acc, <<input>>), <<>>, inputs)

\* _batch_embed_decoder
BatchEmbedDecoder(batch) ==
  LET olds == [i \in DOMAIN batch |-> Fresh]
      out == Forward(Functions["batch_prefill_to_last_hidden_states"], olds, batch,
                     Positions(olds, batch, TRUE), TRUE)
  IN  [i \in DOMAIN batch |-> out.rows[Len(FlattenSeq(SubSeq(batch, 1, i)))]]

\* _sequential_embed_decoder: one input in chunks.
SequentialEmbedDecoder(input, chunk) ==
  LET chunks == [c \in 1..((Len(input) + chunk - 1) \div chunk) |->
                   SubSeq(input, (c - 1) * chunk + 1, IF c * chunk < Len(input) THEN c * chunk ELSE Len(input))]
      step(acc, new) ==
        LET out == Forward(Functions["prefill_to_last_hidden_states"], <<acc.old>>, <<new>>,
                           Positions(<<acc.old>>, <<new>>, TRUE), TRUE)
        IN  [old |-> [kv |-> out.kvs[1], state |-> out.states[1]], row |-> out.rows[Len(new)]]
  IN  FoldLeft(step, [old |-> Fresh, row |-> <<>>], chunks).row

\* _embed_decoder
EmbedDecoder(inputs, chunk) ==
  LET batches == BuildSubBatches(inputs, chunk)
      embed(b) == IF Len(FlattenSeq(b)) > chunk THEN <<SequentialEmbedDecoder(b[1], chunk)>>
                  ELSE BatchEmbedDecoder(b)
  IN  FlattenSeq([i \in DOMAIN batches |-> embed(batches[i])])

\* embed
EmbedInputs(lengths) ==
  LET c == libs[lib[Server]].config
      inputs == [n \in DOMAIN lengths |-> Input(n, lengths[n])]
      cut == [n \in DOMAIN inputs |->
                Up(inputs[n], IF Len(inputs[n]) > c.context_window_size THEN c.context_window_size
                              ELSE Len(inputs[n]))]
      chunk == c.prefill_chunk_size
  IN  /\ result' = IF inst.model.type \in {"bert", "bert-bge"}
                   THEN [rows |-> EmbedEncoder(inputs, chunk),
                         wanted |-> [n \in DOMAIN cut |-> Up(cut[n], IF Len(cut[n]) > chunk THEN chunk ELSE Len(cut[n]))]]
                   ELSE [rows |-> EmbedDecoder(cut, chunk),
                         wanted |-> [n \in DOMAIN cut |-> RightRow(cut[n], Len(cut[n]))]]
      /\ UNCHANGED <<seqs, prefilled, delta, onDevice, consumed>>

-----------------------------------------------------------------------------
(* The engine's calls *)

Embeds == {"bert", "bert-bge", "qwen3-embedding"}
Serves == inst.len > 0 /\ Server \in Procs /\ pc[Server] = "running"

\* The sequences of a call, in any order.
Batches == {ids \in SetToAllKPermutations(DOMAIN seqs) :
              Len(ids) \in 1..Loaded.limits.max_num_sequence}
\* What a call may bring: text, or an image with a token before or after it.
Kinds == {<<"t">>, <<"t", "t">>} \cup
         IF "image_embed" \in DOMAIN Functions THEN {<<"i">>, <<"t", "i">>, <<"i", "t">>} ELSE {}
News(ids, kinds) == [i \in DOMAIN ids |-> Put(ids[i], Len(seqs[ids[i]].text), kinds[i])]
Fits(ids, news) ==
  /\ \A i \in DOMAIN ids : Len(seqs[ids[i]].text) + Len(news[i]) <= inst.len
  /\ TokensOf(FlattenSeq(news)) <= Loaded.limits.prefill_chunk_size
\* An image, or what follows one, is prefilled before anything is decoded.
InOrder(ids, news) ==
  inst.model.type = "qwen3_5" /\ (HasMropeDelta(ids) \/ Images(FlattenSeq(news)) > 0) =>
    \A s \in Range(ids) : ConsumedOf(s) = TokensOf(seqs[s].text)
Begun(ids) == \A s \in Range(ids) : seqs[s].text # <<>>
Exports(names) == names \subseteq DOMAIN Functions

Call ==
  \E ids \in Batches :
    \/ \E kinds \in [DOMAIN ids -> Kinds] :
         LET news == News(ids, kinds)
             text == \A i \in DOMAIN kinds : Range(kinds[i]) = {"t"}
         IN  /\ Fits(ids, news)
             /\ \/ Exports({"batch_prefill"}) /\ InOrder(ids, news) /\ BatchPrefillWithMrope(ids, news)
                \/ /\ Exports({"batch_prefill_to_last_hidden_states"}) /\ text
                   /\ BatchPrefillToLastHidden(ids, news)
                \/ /\ Exports({"batch_verify"}) /\ Loaded.kind # "rnn_state" /\ text /\ Begun(ids)
                   /\ BatchVerify(ids, news)
                \/ /\ Exports({"batch_verify_to_last_hidden_states"}) /\ text /\ Begun(ids)
                   /\ BatchVerifyToLastHidden(ids, news)
    \/ LET news == News(ids, [i \in DOMAIN ids |-> <<"t">>])
       IN  /\ Fits(ids, news) /\ Begun(ids)
           /\ \/ Exports({"batch_decode"}) /\ BatchDecode(ids, news)
              \/ Exports({"batch_decode_to_last_hidden_states"}) /\ BatchDecodeToLastHidden(ids, news)

\* The runtime refuses to roll a recurrent state back further than its history, and
\* to fork it elsewhere than at its end; a sequence with an image is forked as a whole.
Manage ==
  /\ result' = NoResult
  /\ \/ \E s \in Seqs \ DOMAIN seqs : AddNewSequence(s)
     \/ \E parent \in DOMAIN seqs, child \in Seqs \ DOMAIN seqs :
          \E n \in 1..Len(seqs[parent].text) :
            /\ HasState \/ parent \in DOMAIN delta => n = Len(seqs[parent].text)
            /\ ForkSequence(parent, child, n)
     \/ \E s \in DOMAIN seqs : RemoveSequence(s)
     \/ \E s \in DOMAIN seqs : \E n \in 1..Len(seqs[s].text) :
          /\ HasState => n <= seqs[s].state.available
          /\ \A i \in (Len(seqs[s].text) - n + 1)..Len(seqs[s].text) : seqs[s].text[i][3] = "t"
          /\ PopNFromKVCache(s, n)
     \/ seqs # <<>> /\ Reset

Init ==
  /\ DeploymentInit
  /\ seqs = <<>> /\ prefilled = {} /\ delta = <<>> /\ onDevice = <<>> /\ consumed = <<>>
  /\ result = NoResult

Next ==
  \/ (\E p \in Procs : DeploymentStep(p)) /\ UNCHANGED serving
  \/ /\ Serves /\ UNCHANGED deployment
     /\ IF inst.model.type \in Embeds
        THEN \E n \in 1..3 : \E lengths \in [1..n -> 1..inst.len] : EmbedInputs(lengths)
        ELSE Call \/ Manage

Spec == Init /\ [][Next]_<<deployment, serving>>

-----------------------------------------------------------------------------
(* Properties *)

\* Every row the engine gets back was computed for the token it asks for, from the
\* tokens of that sequence alone, all of them, each once and at its own position,
\* whichever of its model's functions the wrapper chose for the batch, and whatever
\* was forked, popped, removed or reused before; and an embedding is that of its own
\* input.  What a batch may hold depends on the family: where positions come from
\* the second dimension, or states are recurrent, it is one sequence.
ResultsRight == result.rows = result.wanted
=============================================================================
