------------------------- MODULE PrefixCacheClient -------------------------
(***************************************************************************)
(* The prefix cache and its client, the engine: request state entries get  *)
(* a sequence id, match their prompt in the cache, run in batches that     *)
(* append to the KV cache and lazily extend the cached sequence, and end   *)
(* by finishing, being preempted or being aborted.  One action is one      *)
(* group of calls that the engine thread makes without doing anything else *)
(* to the cache in between.                                                *)
(***************************************************************************)
EXTENDS PrefixCache, TLC

CONSTANTS
    Entries,    \* the request state entries (roots: only they are cached)
    Prompts,    \* the token sequences a request can come with, with Eagle (TRUE) or without
    Tokens,     \* the tokens the model can produce
    Window,     \* the sliding window info of the model, or NoWindow
    Preempts,   \* FALSE: the KV cache has pages for all, nothing is preempted
    ChunkSizes, \* numbers of input tokens a prefill may take
    MaxBatch, MaxCommitted, MaxIds, MaxCounter   \* bounds of the model

ASSUME ChunkAssumption == ChunkSizes \subseteq Nat \ {0}
ASSUME BoundsAssumption == MaxBatch \in Nat
ASSUME PromptAssumption ==
    /\ DOMAIN Prompts \subseteq BOOLEAN
    /\ \A m \in DOMAIN Prompts : \A p \in Prompts[m] : p \in Seq(Tokens) /\ p # <<>>

VARIABLES
    eagle,  \* whether the engine prefills with EagleNewRequestPrefill, chosen once
    cache,  \* the prefix cache, the KV cache and the id manager
    buf,    \* token_ids_for_prefix_cache_update of each entry
    ents    \* the entries, each with its model state

vars == <<eagle, cache, buf, ents>>

\* An entry with its RequestModelState: the prompt, the inputs left to prefill,
\* the committed tokens and how many of them were reported to the prefix cache.
Entry(phase, id, prompt) ==
    [phase |-> phase, id |-> id, prompt |-> prompt, inputs |-> prompt,
     committed |-> <<>>, cached |-> 0]

Idle == Entry("none", NoSeq, <<>>)

Init ==
    /\ eagle \in DOMAIN Prompts
    /\ cache = EmptyCache
    /\ buf = [e \in Entries |-> <<>>]
    /\ ents = [e \in Entries |-> Idle]

IdAvailable == cache.available # <<>> \/ cache.idCnt < MaxIds

\* A new entry takes an id; it is not in the cache yet.
AddRequest(e, p) ==
    /\ ents[e].phase = "none" /\ IdAvailable
    /\ cache' = GetNewId(cache)
    /\ ents' = [ents EXCEPT ![e] = Entry("pending", NewId(cache), p)]
    /\ UNCHANGED buf

\* The entry leaves MatchPrefixCache with sequence id and without the first n
\* tokens of its inputs.
Matched(e, id, n) ==
    ents' = [ents EXCEPT ![e].phase = "alive", ![e].id = id,
                         ![e].inputs = SubSeq(@, n + 1, Len(@))]

\* MatchPrefixCache of NewRequestPrefill, then UpdateRequestToAlive.
MatchPrefixCache(e) ==
    LET id == ents[e].id
    IN  /\ ents[e].phase = "pending" /\ ~HasSequence(cache, id) /\ ~eagle
        /\ \E o \in InsertSequence(cache, buf, id, ents[e].inputs, Window) :
             LET r == o.res
             IN  IF r.reused # NoSeq
                 THEN /\ cache' = [RecycleId(o.c, id) EXCEPT
                            !.kv = Put(@, r.reused, DropLast(@[r.reused], r.pop))]
                      /\ Matched(e, r.reused, r.prefilled)
                 ELSE /\ cache' = [o.c EXCEPT
                            !.kv = Put(@, id, IF r.forked = NoSeq THEN <<>>
                                              ELSE ForkedAt(@[r.forked], r.prefilled))]
                      /\ Matched(e, id, r.prefilled)
        /\ UNCHANGED buf

\* MatchPrefixCache of EagleNewRequestPrefill: one token less is taken from the
\* matched sequence; the inputs lose prefilled tokens, one less after a reuse.
EagleMatchPrefixCache(e) ==
    LET id == ents[e].id
    IN  /\ ents[e].phase = "pending" /\ ~HasSequence(cache, id) /\ eagle
        /\ \E o \in InsertSequence(cache, buf, id, ents[e].inputs, Window) :
             LET r == o.res
                 RolledBack(c, s) == RollBackSequence(c, buf, s, 1)
             IN  IF r.reused # NoSeq
                 THEN /\ cache' = [RolledBack(RecycleId(o.c, id), r.reused) EXCEPT
                            !.kv = Put(@, r.reused, DropLast(@[r.reused], r.pop + 1))]
                      /\ Matched(e, r.reused, r.prefilled - 1)
                 ELSE IF r.forked # NoSeq
                 THEN /\ cache' = [RolledBack(o.c, id) EXCEPT
                            !.kv = Put(@, id, ForkedAt(@[r.forked], r.prefilled - 1))]
                      /\ Matched(e, id, r.prefilled)
                 ELSE /\ cache' = [o.c EXCEPT !.kv = Put(@, id, <<>>)]
                      /\ Matched(e, id, 0)
        /\ UNCHANGED buf

\* The tokens an entry can put into the KV cache in one action: a chunk of its
\* inputs, or, after the inputs, the last token it has committed.
Chunks(e) ==
    LET inputs == ents[e].inputs
    IN  IF inputs # <<>>
        THEN {SubSeq(inputs, 1, IF n < Len(inputs) THEN n ELSE Len(inputs)) : n \in ChunkSizes}
        ELSE {<<Last(ents[e].committed)>>}

\* Entry r after chunk: without inputs left, token t is sampled and committed.
Ran(r, chunk, t) ==
    LET left == SubSeq(r.inputs, Len(chunk) + 1, Len(r.inputs))
    IN  [r EXCEPT !.inputs = left,
                  !.committed = IF left = <<>> THEN Append(@, t) ELSE @]

\* What the post-process tells the prefix cache of r, which has become q: the
\* inputs just prefilled, and the committed tokens not yet reported except the last.
Reported(r, q, chunk) ==
    (IF r.inputs = <<>> THEN <<>> ELSE chunk)
        \o SubSeq(q.committed, r.cached + 1, Len(q.committed) - 1)

\* A batch in some order: a sequence of distinct alive entries.
Batches ==
    LET alive == {e \in Entries : ents[e].phase = "alive"}
    IN  {b \in UNION {[1..n -> alive] : n \in 1..MaxBatch} :
            \A i, j \in DOMAIN b : b[i] = b[j] => i = j}

\* fault
RunFromStart(toks, chunk) == chunk
\* The models append the tokens of a batch after those the sequence holds.
AppendKv(toks, chunk) == toks \o chunk

\* A prefill or decode action with its post-process: commit the extensions of
\* the previous action, append to the KV cache, sample, refill each entry's
\* buffer and register it as an extension of the cached sequence.
RunBatch(b) ==
    LET members == {b[i] : i \in DOMAIN b}
        owner(s) == CHOOSE e \in members : ents[e].id = s
    IN  \E chunk \in [members -> UNION {Chunks(e) : e \in members}],
           sampled \in [members -> Tokens] :
          LET after(e) == Ran(ents[e], chunk[e], sampled[e])
          IN  /\ \A e \in members : /\ chunk[e] \in Chunks(e)
                                    /\ Len(after(e).committed) <= MaxCommitted
              /\ cache' = [CommitSequenceExtention(cache, buf) EXCEPT
                     !.kv = [s \in DOMAIN cache.kv |->
                                IF \E e \in members : ents[e].id = s
                                THEN AppendKv(cache.kv[s], chunk[owner(s)]) ELSE cache.kv[s]],
                     !.pending = [i \in DOMAIN b |-> [seq |-> ents[b[i]].id, src |-> b[i]]]]
              /\ buf' = [e \in Entries |->
                            IF e \in members THEN Reported(ents[e], after(e), chunk[e])
                            ELSE buf[e]]
              /\ ents' = [e \in Entries |->
                            IF e \notin members THEN ents[e]
                            ELSE [after(e) EXCEPT !.cached =
                                    IF @ < Len(after(e).committed) - 1
                                    THEN Len(after(e).committed) - 1 ELSE @]]

\* RemoveRequestStateEntry of a finished entry that is in the prefix cache.
Finish(e) ==
    /\ ents[e].phase = "alive" /\ ents[e].inputs = <<>> /\ cache.counter < MaxCounter
    /\ cache' \in RecycleSequence(cache, buf, ents[e].id, TRUE)
    /\ ents' = [ents EXCEPT ![e] = Idle]
    /\ UNCHANGED buf

\* ... with a pinned system prompt: the sequence stays active, owned by nobody.
FinishPinned(e) ==
    /\ ents[e].phase = "alive" /\ ents[e].inputs = <<>>
    /\ ents' = [ents EXCEPT ![e] = Idle]
    /\ UNCHANGED <<cache, buf>>

\* PreemptLastRunningRequestStateEntry: the sequence is removed at once and the
\* entry starts again, with all its tokens as inputs, under a new id.
Preempt(e) ==
    /\ ents[e].phase = "alive" /\ Preempts
    /\ \E c \in RecycleSequence(cache, buf, ents[e].id, FALSE) :
         /\ cache' = GetNewId(c)
         /\ ents' = [ents EXCEPT ![e].phase = "pending", ![e].id = NewId(c),
                                 ![e].inputs = ents[e].prompt \o ents[e].committed,
                                 ![e].cached = 0]
    /\ UNCHANGED buf

\* AbortRequestImpl: a running entry's sequence is removed at once; an entry
\* that only waits is dropped, and its id is not given back.
Abort(e) ==
    /\ ents[e].phase # "none"
    /\ IF ents[e].phase = "alive"
       THEN cache' \in RecycleSequence(cache, buf, ents[e].id, FALSE)
       ELSE cache' = cache
    /\ ents' = [ents EXCEPT ![e] = Idle]
    /\ UNCHANGED buf

\* An action that lacks KV pages asks the cache for memory.
FreeMemory ==
    /\ cache' \in TryFreeMemory(cache)
    /\ UNCHANGED <<buf, ents>>

\* EngineImpl::Reset: all requests are aborted, then the engine state and the
\* models are reset.
Reset ==
    /\ cache' = EmptyCache
    /\ ents' = [e \in Entries |-> Idle]
    /\ UNCHANGED buf

Next ==
    /\ \/ \E e \in Entries :
             \/ \E p \in Prompts[eagle] : AddRequest(e, p)
             \/ MatchPrefixCache(e) \/ EagleMatchPrefixCache(e)
             \/ Finish(e) \/ FinishPinned(e) \/ Preempt(e) \/ Abort(e)
       \/ \E b \in Batches : RunBatch(b)
       \/ FreeMemory \/ Reset
    /\ UNCHANGED eagle

Spec == Init /\ [][Next]_vars

----------------------------------------------------------------------------
(* Properties                                                              *)

Ids(s) == {s[i] : i \in DOMAIN s}
Live == {e \in Entries : ents[e].phase # "none"}
Recycling == {s \in DOMAIN cache.states : cache.states[s] = "kRecycling"}

\* Types of the maps of the cache, of the id manager and of the entries.  (What
\* tokens they hold is the subject of CacheMatchesKv and PrefillContinuesKv.)
TypeOK ==
    /\ cache.states \in [DOMAIN cache.seqs -> {"kActive", "kRecycling"}]
    /\ cache.windows \in [DOMAIN cache.seqs -> {Window}]
    /\ DOMAIN cache.kv = DOMAIN cache.seqs
    /\ cache.counter \in Nat /\ cache.idCnt \in Nat
    /\ DOMAIN cache.seqs \subseteq 0..(cache.idCnt - 1)
    /\ cache.available \in Seq(0..(cache.idCnt - 1))
    /\ DOMAIN buf = Entries /\ DOMAIN ents = Entries
    /\ \A e \in Entries : /\ ents[e].phase \in {"none", "pending", "alive"}
                          /\ ents[e].id \in {NoSeq} \cup (0..(cache.idCnt - 1))

\* The two LRU maps are each other's inverse and hold exactly the recycling
\* sequences, so that the lookups and checks of TryFreeMemory, RecycleSequence
\* and ReuseRecyclingSequence never fail.
LruMapsAgree ==
    /\ DOMAIN cache.lrus = Recycling
    /\ \A s \in DOMAIN cache.lrus :
          /\ cache.lrus[s] \in 1..cache.counter
          /\ cache.lrus[s] \in DOMAIN cache.lruSeqs
          /\ cache.lruSeqs[cache.lrus[s]] = s
    /\ \A l \in DOMAIN cache.lruSeqs :
          /\ cache.lruSeqs[l] \in DOMAIN cache.lrus
          /\ cache.lrus[cache.lruSeqs[l]] = l

\* The cache keeps at most MaxRecycling sequences that no request uses.
RecyclingBounded ==
    MaxRecycling >= 0 => Cardinality(Recycling) <= MaxRecycling

\* Eviction works at the limit: the maps it reads agree and the limit is kept.
RecyclingSound == LruMapsAgree /\ RecyclingBounded

\* An entry that runs owns an active sequence, no two entries have the same id,
\* and an id that is handed out next is neither owned nor in the cache: a
\* sequence reused, evicted or recycled never comes to two requests.
ExclusiveIds ==
    /\ \A e \in Entries : ents[e].phase = "alive" =>
          /\ HasSequence(cache, ents[e].id)
          /\ cache.states[ents[e].id] = "kActive"
    /\ \A e \in Entries : ents[e].phase = "pending" => ~HasSequence(cache, ents[e].id)
    /\ \A e, f \in Live : ents[e].id = ents[f].id => e = f
    /\ \A i, j \in DOMAIN cache.available :
          cache.available[i] = cache.available[j] => i = j
    /\ Ids(cache.available) \cap DOMAIN cache.seqs = {}
    /\ \A e \in Live : ents[e].id \notin Ids(cache.available)

\* What the cache believes a sequence holds, once the uncommitted extensions
\* are applied, is what the KV cache holds: a prefix matched later is really
\* there.  Extensions are held by reference, so this fails if a buffer is
\* refilled before the extension it backs is committed.
CacheMatchesKv ==
    \A s \in DOMAIN cache.seqs :
        CommitSequenceExtention(cache, buf).seqs[s] = cache.kv[s]

\* A running entry continues where its sequence ends: the KV cache followed by
\* the inputs left is the prompt and the committed tokens (the last of them only
\* while it is an input again), no token missing and none twice.  (Eagle's
\* MatchPrefixCache breaks this when it forks: it drops one input too many.)
PrefillContinuesKv ==
    ~eagle => \A e \in Entries : ents[e].phase = "alive" =>
        cache.kv[ents[e].id] \o ents[e].inputs =
            ents[e].prompt \o (IF ents[e].inputs = <<>> THEN Front(ents[e].committed)
                               ELSE ents[e].committed)

\* No uncommitted extension waits for a sequence that has been recycled: the
\* ICHECK of CommitSequenceExtention holds.
ExtensionsOfActive ==
    \A i \in DOMAIN cache.pending :
        cache.pending[i].seq \in DOMAIN cache.seqs =>
            cache.states[cache.pending[i].seq] = "kActive"

\* Sequences belong to one request at a time, extensions to sequences in use.
OwnershipSound == ExclusiveIds /\ ExtensionsOfActive

\* A sequence that a request owns is taken away only from that request: in a
\* step that leaves the entry running on the same id, its KV cache never
\* shrinks, whatever is evicted, reused or forked for others.
RunningKvNeverShrinks ==
    [][\A e \in Entries :
          /\ ents[e].phase = "alive" /\ ents'[e].phase = "alive"
          /\ ents'[e].id = ents[e].id
          => /\ ents[e].id \in DOMAIN cache'.kv
             /\ IsPrefix(cache.kv[ents[e].id], cache'.kv[ents[e].id])]_vars

\* However much of the prompt the cache holds, MatchPrefixCache leaves an input
\* to prefill: the step that follows has logits to sample from.
MatchLeavesInput ==
    [][\A e \in Entries :
          ents[e].phase = "pending" /\ ents'[e].phase = "alive"
             => ents'[e].inputs # <<>>]_vars

\* Without non-tail forks (hybrid and recurrent models) a new sequence starts
\* from everything another sequence holds in the models, or from nothing.
TailForksOnly ==
    [][\A s \in DOMAIN cache'.kv \ DOMAIN cache.kv :
          \/ cache'.kv[s] = <<>>
          \/ \E t \in DOMAIN cache.kv : cache'.kv[s] = cache.kv[t]]_vars

\* What a step may do to the KV cache of the models.
KvSteps == RunningKvNeverShrinks /\ TailForksOnly

=============================================================================
