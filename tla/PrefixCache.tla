---------------------------- MODULE PrefixCache ----------------------------
(***************************************************************************)
(* The operations of PrefixCacheImpl (cpp/serve/prefix_cache.cc) over a    *)
(* record that holds the cache, together with what its remove callback     *)
(* touches: the KV cache of the models and EngineInternalIDManager.        *)
(*                                                                         *)
(*   seqs      radix_tree_, at the level of what it stores: the tokens of  *)
(*             every sequence (the paged tree itself is module RadixTree)  *)
(*   states    seq_states_                windows  seq_sliding_window_infos_*)
(*   lrus      recycling_seq_lrus_        lruSeqs  reversed_recycling_...  *)
(*   counter   lru_counter_                                                *)
(*   pending   uncommitted_extended_token_ids_: pairs of a sequence and    *)
(*             the owner of the token buffer that is held by reference     *)
(*   kv        tokens whose key/values the models hold, per sequence       *)
(*   available, idCnt    EngineInternalIDManager                           *)
(*                                                                         *)
(* An operation that the code leaves to the order of an unordered_map, or  *)
(* to the order in which the tree lists sequences, returns the set of its  *)
(* outcomes.  The definitions marked "fault" are wrong on purpose: put in  *)
(* the place of the operation below them, each must break a property.      *)
(***************************************************************************)
EXTENDS Integers, Sequences, FiniteSets, SequencesExt

CONSTANTS
    MaxRecycling,       \* max_num_recycling_seqs_: -1 is unbounded
    AllowNonTailForks,  \* allow_non_tail_forks_
    NoWindow            \* the window info of a sequence without sliding window

ASSUME MaxRecyclingAssumption == MaxRecycling \in Int /\ MaxRecycling >= -1
ASSUME ForkAssumption == AllowNonTailForks \in BOOLEAN

NoSeq == -1     \* "no sequence" in PrefixCacheMatchedResult

(* Maps with a growing and shrinking domain (std::unordered_map).          *)
Put(f, k, v) == [x \in DOMAIN f \cup {k} |-> IF x = k THEN v ELSE f[x]]
Erase(f, k)  == [x \in DOMAIN f \ {k} |-> f[x]]
EmptyMap     == [x \in {} |-> x]

EmptyCache ==
    [seqs |-> EmptyMap, states |-> EmptyMap, windows |-> EmptyMap,
     lrus |-> EmptyMap, lruSeqs |-> EmptyMap, counter |-> 0,
     pending |-> <<>>, kv |-> EmptyMap, available |-> <<>>, idCnt |-> 0]

----------------------------------------------------------------------------
(* EngineInternalIDManager                                                 *)

\* The id GetNewId returns ...
NewId(c) == IF c.available # <<>> THEN Last(c.available) ELSE c.idCnt

\* fault
GetNewIdWithoutPop(c) ==
    IF c.available # <<>> THEN c ELSE [c EXCEPT !.idCnt = c.idCnt + 1]
\* ... and the state it leaves.
GetNewId(c) ==
    IF c.available # <<>>
    THEN [c EXCEPT !.available = Front(c.available)]
    ELSE [c EXCEPT !.idCnt = c.idCnt + 1]

RecycleId(c, s) == [c EXCEPT !.available = Append(c.available, s)]

\* Model::RemoveSequence on every model, then the id goes back: the remove
\* callback the engine installs.
RemoveRequestFromModel(c, s) == [c EXCEPT !.kv = Erase(c.kv, s)]
RemoveCallback(c, s) == RecycleId(RemoveRequestFromModel(c, s), s)

----------------------------------------------------------------------------
(* The radix tree, as the map from sequences to tokens it implements.      *)

HasSequence(c, s) == s \in DOMAIN c.seqs

\* Length of the longest common prefix of two token sequences.
CommonLen(s, t) ==
    CHOOSE k \in 0..Len(s) :
        /\ k <= Len(t) /\ SubSeq(s, 1, k) = SubSeq(t, 1, k)
        /\ k = Len(s) \/ k = Len(t) \/ s[k + 1] # t[k + 1]

MatchedOffset(c, toks) ==
    CHOOSE n \in {0} \cup {CommonLen(toks, c.seqs[s]) : s \in DOMAIN c.seqs} :
        \A s \in DOMAIN c.seqs : CommonLen(toks, c.seqs[s]) <= n

MatchedSeqs(c, toks) ==
    {s \in DOMAIN c.seqs : CommonLen(toks, c.seqs[s]) = MatchedOffset(c, toks)}

\* fault
DropOneMore(toks, n) == SubSeq(toks, 1, Len(toks) - n - 1)
DropLast(toks, n) == SubSeq(toks, 1, Len(toks) - n)

\* The KV cache of a sequence forked at offset n.
ForkedAt(toks, n) == SubSeq(toks, 1, IF n < Len(toks) THEN n ELSE Len(toks))

----------------------------------------------------------------------------
(* PrefixCacheImpl                                                         *)

\* The vector of uncommitted extensions gets one more (sequence, reference).
ExtendSequence(c, s, owner) ==
    [c EXCEPT !.pending = Append(c.pending, [seq |-> s, src |-> owner])]

\* The tokens the uncommitted extensions of s add: what their buffers hold NOW.
Extension(c, buf, s) ==
    LET upTo[n \in 0..Len(c.pending)] ==
          IF n = 0 THEN <<>>
          ELSE upTo[n - 1] \o (IF c.pending[n].seq = s THEN buf[c.pending[n].src] ELSE <<>>)
    IN  upTo[Len(c.pending)]

\* fault
CommitFirstOnly(c, buf) ==
    [c EXCEPT !.seqs = [s \in DOMAIN c.seqs |->
                  IF c.pending # <<>> /\ c.pending[1].seq = s
                  THEN c.seqs[s] \o buf[c.pending[1].src] ELSE c.seqs[s]],
              !.pending = <<>>]

\* All extensions are applied; one whose sequence has been removed is skipped.
CommitSequenceExtention(c, buf) ==
    [c EXCEPT !.seqs = [s \in DOMAIN c.seqs |-> c.seqs[s] \o Extension(c, buf, s)],
              !.pending = <<>>]

\* A sequence joins the tree, the state map and the window map together.
NewSequence(c, s, toks, win) ==
    [c EXCEPT !.seqs = Put(c.seqs, s, toks),
              !.states = Put(c.states, s, "kActive"),
              !.windows = Put(c.windows, s, win)]

\* fault
ReuseKeepingStamp(c, s) ==
    [c EXCEPT !.states = Put(c.states, s, "kActive"), !.lrus = Erase(c.lrus, s)]
ReuseRecyclingSequence(c, s) ==
    [c EXCEPT !.states = Put(c.states, s, "kActive"),
              !.lrus = Erase(c.lrus, s),
              !.lruSeqs = Erase(c.lruSeqs, c.lrus[s])]

Result(offset, forked, reused, pop) ==
    [prefilled |-> offset, forked |-> forked, reused |-> reused, pop |-> pop]

\* Recycling sequences with the same window info.
Reusable(c, matched, win) ==
    {m \in matched : c.states[m] = "kRecycling" /\ c.windows[m] = win}

\* With a sliding window only an exact match is reused: no roll back.
Exact(c, matched, off, win) ==
    {m \in Reusable(c, matched, win) : Len(c.seqs[m]) = off}

\* Without, the shortest one, if more than nine tenths of it are kept.
Shortest(c, matched, off, win) ==
    {m \in Reusable(c, matched, win) :
        /\ \A k \in Reusable(c, matched, win) : Len(c.seqs[m]) <= Len(c.seqs[k])
        /\ 10 * off > 9 * Len(c.seqs[m])}

\* Any matched sequence without sliding window can be forked; a recurrent state
\* only at its tail.
Forkable(c, matched, off) ==
    {m \in matched : /\ c.windows[m] = NoWindow
                     /\ AllowNonTailForks \/ Len(c.seqs[m]) = off}

\* What InsertSequence does with the committed cache c, the matched prefix
\* length off and the matched sequences.
PlaceSequence(c, s, off, matched, win) ==
    LET exact    == IF win # NoWindow THEN Exact(c, matched, off, win) ELSE {}
        shortest == IF win = NoWindow THEN Shortest(c, matched, off, win) ELSE {}
        forkable == IF win = NoWindow THEN Forkable(c, matched, off) ELSE {}
    IN  CASE off > 0 /\ exact # {} ->
               {[c |-> ReuseRecyclingSequence(c, m),
                 res |-> Result(off, NoSeq, m, 0)] : m \in exact}
          [] off > 0 /\ shortest # {} ->
               {[c |-> [ReuseRecyclingSequence(c, m) EXCEPT
                            !.seqs = Put(c.seqs, m, SubSeq(c.seqs[m], 1, off))],
                 res |-> Result(off, NoSeq, m, Len(c.seqs[m]) - off)] : m \in shortest}
          [] off > 0 /\ exact = {} /\ shortest = {} /\ forkable # {} ->
               {[c |-> NewSequence(c, s, SubSeq(c.seqs[m], 1, off), win),
                 res |-> Result(off, m, NoSeq, 0)] : m \in forkable}
          [] OTHER ->
               {[c |-> NewSequence(c, s, <<>>, win), res |-> Result(0, NoSeq, NoSeq, 0)]}

\* fault
InsertWholePrompt(c, buf, s, toks, win) ==
    LET c1 == CommitSequenceExtention(c, buf)
    IN  PlaceSequence(c1, s, MatchedOffset(c1, toks), MatchedSeqs(c1, toks), win)

\* The last token of the prompt is never matched: it must be prefilled for the
\* model to produce logits.
InsertSequence(c, buf, s, toks, win) ==
    LET c1 == CommitSequenceExtention(c, buf)
        prefix == Front(toks)
    IN  PlaceSequence(c1, s, MatchedOffset(c1, prefix), MatchedSeqs(c1, prefix), win)

RollBackSequence(c, buf, s, n) ==
    LET c1 == CommitSequenceExtention(c, buf)
    IN  [c1 EXCEPT !.seqs = Put(c1.seqs, s, DropLast(c1.seqs[s], n))]

\* fault
RemoveKeepingWindow(c, s) ==
    RemoveCallback([c EXCEPT !.seqs = Erase(c.seqs, s), !.states = Erase(c.states, s)], s)
RemoveSequence(c, s) ==
    RemoveCallback([c EXCEPT !.seqs = Erase(c.seqs, s),
                             !.states = Erase(c.states, s),
                             !.windows = Erase(c.windows, s)], s)

\* reversed_recycling_seq_lrus_ is an unordered_map: its begin() is any entry.
Evict(c, s) ==
    [RemoveSequence(c, s) EXCEPT !.lrus = Erase(c.lrus, s),
                                 !.lruSeqs = Erase(c.lruSeqs, c.lrus[s])]
TryFreeMemory(c) == {Evict(c, c.lruSeqs[l]) : l \in DOMAIN c.lruSeqs}

MarkRecycling(c, s) ==
    [c EXCEPT !.states = Put(c.states, s, "kRecycling"),
              !.counter = c.counter + 1,
              !.lrus = Put(c.lrus, s, c.counter + 1),
              !.lruSeqs = Put(c.lruSeqs, c.counter + 1, s)]

RecycleSequence(c, buf, s, lazy) ==
    LET c1 == CommitSequenceExtention(c, buf)
    IN  IF lazy /\ MaxRecycling # 0
        THEN IF Cardinality(DOMAIN c1.lrus) = MaxRecycling
             THEN {MarkRecycling(c2, s) : c2 \in TryFreeMemory(c1)}
             ELSE {MarkRecycling(c1, s)}
        ELSE {RemoveSequence(c1, s)}
=============================================================================
