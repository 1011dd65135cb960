----------------------------- MODULE Speculation -----------------------------
(***************************************************************************)
(* Speculative decoding: a draft model proposes tokens and the main model  *)
(* verifies several of them at once.  Three modes are modelled: a small    *)
(* draft model (with a fixed or an automatic draft length, proposing a     *)
(* chain or a tree of tokens), Eagle (the draft model reads the hidden     *)
(* states of the main one, so its inputs are shifted by one token) and     *)
(* Medusa (extra heads, no KV cache of its own).                           *)
(*                                                                         *)
(* The engine runs in one thread, and a draft is proposed and verified in  *)
(* the same Step, so a Step is atomic.  Requests have one answer, the      *)
(* prefix cache is disabled and sequence ids are the requests; queues, ids *)
(* and answers in general are in Engine.  As there, a handler is a         *)
(* function from state to state and a failed ICHECK sets "failed".         *)
(*                                                                         *)
(* A token is named by the position it is right for: the text the main     *)
(* model gives by itself is 1, 2, 3, ...  A draft token that the main      *)
(* model will not agree with is Wrong; which ones agree is chosen when     *)
(* they are proposed.  Definitions marked "fault" are wrong on purpose.    *)
(***************************************************************************)
EXTENDS Integers, Sequences, FiniteSets, SequencesExt

CONSTANTS
    Requests,   \* the requests
    Configs     \* the configurations: records with the fields named below

ASSUME ConfigAssumption ==
    \A c \in Configs :
        /\ c.mode \in {"small_draft", "eagle", "medusa"}
        /\ c.promptTokens \in [Requests -> Nat \ {0}]
        /\ {c.maxTokens, c.maxTotal, c.maxNumSequence, c.chunkSize, c.pageSize, c.numPages,
            c.width} \subseteq Nat \ {0}
        /\ c.canAbort \in BOOLEAN
        \* 0 asks for the automatic length, which Eagle and Medusa do not support
        /\ c.draftLength \in Nat /\ (c.mode # "small_draft" => c.draftLength > 0)
        \* the tree width concerns the small draft model only
        /\ c.mode # "small_draft" => c.width = 1
        /\ c.numPages * c.pageSize >= c.maxTotal

VARIABLES
    config, \* one of Configs, chosen once
    es      \* the engine state

vars == <<config, es>>

Mode == config.mode                     \* speculative_mode
PromptTokens == config.promptTokens     \* [Requests -> Nat]: request->prompt_tokens
MaxTokens == config.maxTokens           \* generation_cfg->max_tokens
MaxTotal == config.maxTotal             \* max_total_sequence_length
MaxNumSequence == config.maxNumSequence \* max_num_sequence
ChunkSize == config.chunkSize           \* prefill_chunk_size
PageSize == config.pageSize             \* kv_cache_page_size
NumPages == config.numPages             \* pages of each KV cache
DraftLength == config.draftLength       \* spec_draft_length, 0 for automatic
Width == config.width                   \* spec_tree_width

Main == 1           \* the index of the main model
Drafter == 2        \* the index of the draft model
Wrong == 0          \* a draft token the main model does not agree with
Garbage == -1       \* a token sampled after something else than the text

----------------------------------------------------------------------------
(* State                                                                   *)

Prompt(r) == [i \in 1..PromptTokens[r] |-> i]

\* A request state entry with the states of its two models.
NewEntry(r) ==
    [status |-> "kPending", inputs |-> <<Prompt(r), Prompt(r)>>, committed |-> <<<<>>, <<>>>>,
     next |-> <<0, 0>>,     \* num_tokens_for_next_decode
     drafts |-> <<>>]       \* draft tokens, their slots and parents

EmptyState ==
    [waiting |-> <<>>, running |-> <<>>,
     entries |-> [r \in {} |-> <<>>],           \* request_states
     kv |-> [m \in {Main, Drafter} |-> [r \in {} |-> <<>>]],
     free |-> 1..2 * MaxNumSequence,            \* free_slots_
     refs |-> [slot \in {} |-> 0],              \* ref_count_
     length |-> DraftLength,                    \* estate->spec_draft_length
     failed |-> FALSE]

Put(f, k, v) == [x \in DOMAIN f \cup {k} |-> IF x = k THEN v ELSE f[x]]
Erase(f, k)  == [x \in DOMAIN f \ {k} |-> f[x]]
SumOver(f) == FoldFunction(LAMBDA x, y : x + y, 0, f)
CeilDiv(n, d) == (n + d - 1) \div d
AtMost(a, b) == IF a < b THEN a ELSE b

\* An ICHECK.
Check(s, ok) == [s EXCEPT !.failed = @ \/ ~ok]

\* A loop over a list, ended by a failed check.
Each(Op(_, _), s, list) == FoldLeft(LAMBDA t, x : IF t.failed THEN t ELSE Op(t, x), s, list)

\* GetRunningRequestStateEntries: alive, with nothing left to prefill.
Running(s) ==
    LET decodes(r) == s.entries[r].inputs[Main] = <<>>
    IN  SelectSeq(s.running, decodes)

----------------------------------------------------------------------------
(* The models.  Medusa heads keep no KV cache: their operations do nothing, *)
(* and space in them has no limit.                                         *)

HasKv(m) == m = Main \/ Mode # "medusa"

NumAvailablePages(s, m) ==
    IF HasKv(m)
    THEN NumPages - SumOver([r \in DOMAIN s.kv[m] |-> CeilDiv(Len(s.kv[m][r]), PageSize)])
    ELSE 2147483647     \* std::numeric_limits<int>::max()

TotalSequenceLength(s, m) == SumOver([r \in DOMAIN s.kv[m] |-> Len(s.kv[m][r])])

AddNewSequence(s, m, r) ==
    IF HasKv(m) THEN Check([s EXCEPT !.kv[m] = Put(@, r, <<>>)], r \notin DOMAIN s.kv[m]) ELSE s

RemoveSequence(s, m, r) ==
    IF HasKv(m) THEN Check([s EXCEPT !.kv[m] = Erase(@, r)], r \in DOMAIN s.kv[m]) ELSE s

\* A prefill, decode or verification appends tokens, in new pages if needed.
Feed(s, m, r, tokens) ==
    IF ~HasKv(m) THEN s
    ELSE IF r \notin DOMAIN s.kv[m] THEN Check(s, FALSE)
    ELSE LET t == [s EXCEPT !.kv[m][r] = @ \o tokens]
         IN  Check(t, NumAvailablePages(t, m) >= 0)

PopNFromKVCache(s, m, r, n) ==
    IF ~HasKv(m) THEN s
    ELSE IF n > Len(s.kv[m][r]) THEN Check(s, FALSE)
    ELSE [s EXCEPT !.kv[m][r] = SubSeq(@, 1, Len(@) - n)]

\* CommitAcceptedTokenTreeNodesToKVCache: of the last n tokens, a tree, the ones
\* on the way to the accepted node stay.
CommitTreeNodes(s, m, r, n, tokens) == Feed(PopNFromKVCache(s, m, r, n), m, r, tokens)

\* The token the main model gives after a text.
NextToken(text) == IF text = [i \in DOMAIN text |-> i] THEN Len(text) + 1 ELSE Garbage

----------------------------------------------------------------------------
(* Draft tokens and their slots                                            *)

\* The nodes from the root of the tree of drafts to node j, 0 being the last
\* committed token.
PathTo(drafts, j) ==
    LET path[k \in 0..Len(drafts)] ==
            IF k = 0 THEN <<>> ELSE Append(path[drafts[k].parent], k)
    IN  path[j]
TokensTo(drafts, j) == [i \in DOMAIN PathTo(drafts, j) |-> drafts[PathTo(drafts, j)[i]].token]

IsLeaf(drafts, j) == \A k \in DOMAIN drafts : drafts[k].parent # j
Leaves(drafts) == SelectSeq([j \in DOMAIN drafts |-> j], LAMBDA j : IsLeaf(drafts, j))

\* What the draft model proposes after a node, if "right" says which of its
\* proposals are right, level by level.
Guesses(s, r, parent, right) ==
    LET above == TokensTo(s.entries[r].drafts, parent)
        level == Len(above) + 1
        token == PromptTokens[r] + Len(s.entries[r].committed[Main]) + level
    IN  [k \in 1..Width |-> IF /\ \A i \in DOMAIN above : above[i] # Wrong
                               /\ level <= Len(right) /\ right[level] = k
                            THEN token ELSE Wrong]

\* AllocSlots and AddDraftToken: the proposals after one node share a slot.
\* Which of the free slots is taken does not matter.
AddDraftTokens(s, r, parent, right) ==
    IF s.free = {} THEN Check(s, FALSE)
    ELSE LET slot == Min(s.free)
             tokens == Guesses(s, r, parent, right)
         IN  [s EXCEPT !.free = @ \ {slot}, !.refs = Put(@, slot, 1),
                       !.entries[r].drafts = @ \o [k \in DOMAIN tokens |->
                            [token |-> tokens[k], slot |-> slot, parent |-> parent]]]

\* FreeSlots for one slot.
FreeSlot(s, slot) ==
    IF slot \notin DOMAIN s.refs THEN Check(s, FALSE)
    ELSE IF s.refs[slot] > 1 THEN [s EXCEPT !.refs[slot] = @ - 1]
    ELSE [s EXCEPT !.refs = Erase(@, slot), !.free = @ \cup {slot}]

\* RemoveAllDraftTokens: every slot once, in order, and FreeSlots.
RemoveAllDraftTokens(s, r) ==
    LET drafts == s.entries[r].drafts
        slots == FoldLeft(LAMBDA q, d : IF Contains(q, d.slot) THEN q ELSE Append(q, d.slot),
                          <<>>, drafts)
    IN  Each(FreeSlot, [s EXCEPT !.entries[r].drafts = <<>>], slots)

\* CommitToken, for a list of tokens.
CommitTokens(s, m, r, tokens) ==
    [s EXCEPT !.entries[r].committed[m] = @ \o tokens, !.entries[r].next[m] = @ + Len(tokens)]
CommitToBoth(s, r, tokens) == CommitTokens(CommitTokens(s, Main, r, tokens), Drafter, r, tokens)

----------------------------------------------------------------------------
(* Prefill                                                                 *)

Limit == AtMost(MaxNumSequence, ChunkSize)

\* Each running entry may have a draft to verify in the next step.
CanPrefill(s, m, num, len, pages) ==
    LET batch == Len(Running(s)) + num
    IN  /\ batch * (s.length + 1) <= Limit
        /\ len <= ChunkSize
        /\ pages + batch <= NumAvailablePages(s, m)
        /\ TotalSequenceLength(s, m) + len + 8 * batch <= MaxTotal

\* One request of the waiting queue: it is taken whole, or a chunk of it and
\* nothing after it, or nothing more.
Consider(s, m, a, r) ==
    LET inputs == Len(s.entries[r].inputs[m])
        pages  == a.pages + CeilDiv(inputs, PageSize)
        rest   == ChunkSize - a.len
        num    == Len(a.taken) + 1
    IN  IF a.stop \/ inputs = 0 THEN a
        ELSE IF CanPrefill(s, m, num, a.len + inputs, pages)
        THEN [a EXCEPT !.taken = Append(@, [r |-> r, len |-> inputs]),
                       !.len = @ + inputs, !.pages = pages]
        ELSE IF rest > 0 /\ rest < inputs
                /\ CanPrefill(s, m, num, ChunkSize, a.pages + CeilDiv(rest, PageSize))
        THEN [a EXCEPT !.taken = Append(@, [r |-> r, len |-> rest]), !.stop = TRUE]
        ELSE [a EXCEPT !.stop = TRUE]

\* What one model could prefill.
PrefillInputsFor(s, m) ==
    LET running == Running(s)
        a0 == [taken |-> <<>>, stop |-> FALSE, pages |-> Len(running),
               len |-> SumOver([i \in DOMAIN running |-> s.entries[running[i]].next[m]])]
    IN  FoldLeft(LAMBDA a, r : Consider(s, m, a, r), a0, s.waiting).taken

\* GetRequestStateEntriesToPrefill: what the main model could prefill, if the
\* draft model could do something too, cut at the last common input.
PrefillInputs(s) ==
    LET main == PrefillInputsFor(s, Main)
        draft == PrefillInputsFor(s, Drafter)
        n == AtMost(Len(main), Len(draft))
    IN  IF n = 0 \/ Len(Running(s)) > NumAvailablePages(s, Main) THEN <<>>
        ELSE [main EXCEPT ![n].len = AtMost(@, draft[n].len)]

UpdateRequestToAlive(s, r) ==
    [s EXCEPT !.entries[r].status = "kAlive",
              !.running = IF s.entries[r].status = "kPending" THEN Append(@, r) ELSE @]

\* Eagle and Medusa: the inputs of the draft model are shifted by one.
ShiftInputs(s, r) ==
    IF Mode = "small_draft" THEN s ELSE [s EXCEPT !.entries[r].inputs[Drafter] = Tail(@)]

\* One model prefills its part of the inputs of a request that was in state
\* "before".
PrefillEntry(s, m, before, in) ==
    LET r  == in.r
        x  == s.entries[r]
        s1 == IF before.entries[r].status # "kPending" THEN s
              ELSE IF m = Main THEN ShiftInputs(AddNewSequence(s, m, r), r)
              ELSE AddNewSequence(s, m, r)
        s2 == Check(s1, x.drafts = <<>>)
    IN  IF ~HasKv(m) THEN s2
        ELSE IF in.len > Len(x.inputs[m]) THEN Check(s, FALSE)
        ELSE Feed([s2 EXCEPT !.entries[r].inputs[m] = SubSeq(@, in.len + 1, Len(@))],
                  m, r, SubSeq(x.inputs[m], 1, in.len))

\* A token is sampled from the main model once all inputs are in.  Eagle models
\* get it as an input.
SampleFirst(s, in) ==
    LET r == in.r
        token == NextToken(s.kv[Main][r])
        s1 == CommitToBoth(s, r, <<token>>)
    IN  IF s.entries[r].inputs[Main] # <<>> THEN s
        ELSE IF Mode = "eagle" THEN [s1 EXCEPT !.entries[r].inputs[Drafter] = Append(@, token)]
        ELSE s1

\* UpdateRequestStatesWithDraftProposals: a slot is taken for every request of
\* the batch, and must be used.
FirstDraft(s, in, after) ==
    IF s.entries[in.r].inputs[Main] # <<>> THEN Check(s, FALSE)
    ELSE AddDraftTokens(s, in.r, Len(s.entries[in.r].drafts), after[in.r])

\* How many tokens are proposed right after a prefill or a verification.
DraftsAtOnce(s) == CASE Mode = "small_draft" -> 0 [] Mode = "eagle" -> 1 [] OTHER -> s.length

RemoveProcessed(s, in) ==
    IF s.entries[in.r].inputs[Main] = <<>> THEN [s EXCEPT !.waiting = RemoveFirst(@, in.r)] ELSE s

\* NewRequestPrefill and EagleNewRequestPrefill.  The small draft model prefills
\* what the main model does; then a token is sampled.  The Eagle model prefills
\* the text that follows each token of the main model, up to the sampled one.
PrefillStep(s, inputs, after) ==
    LET s1 == Each(LAMBDA t, in : UpdateRequestToAlive(t, in.r), s, inputs)
        s2 == Each(LAMBDA t, in : PrefillEntry(t, Main, s, in), s1, inputs)
        s3 == IF Mode = "small_draft" THEN s2 ELSE Each(SampleFirst, s2, inputs)
        s4 == Each(LAMBDA t, in : PrefillEntry(t, Drafter, s, in), s3, inputs)
        s5 == IF Mode = "small_draft" THEN Each(SampleFirst, s4, inputs)
              ELSE Each(LAMBDA t, i : Each(LAMBDA u, in : FirstDraft(u, in, after), t, inputs),
                        s4, [i \in 1..DraftsAtOnce(s) |-> i])
    IN  Each(RemoveProcessed, s5, inputs)

----------------------------------------------------------------------------
(* Preemption                                                              *)

\* The draft model's answer, with what it misses of the main model's.
CaughtUp(x) ==
    x.committed[Drafter]
        \o SubSeq(x.committed[Main], Len(x.committed[Drafter]) + 1, Len(x.committed[Main]))

\* PreemptLastRunningRequestStateEntry.  The last running request starts again,
\* with the tokens of its answer among its inputs.
PreemptLast(s) ==
    LET r == Last(s.running)
        x == s.entries[r]
        answer == [m \in {Main, Drafter} |-> IF m = Main THEN x.committed[Main] ELSE CaughtUp(x)]
        s1 == RemoveAllDraftTokens(s, r)
        s2 == RemoveSequence(RemoveSequence(s1, Main, r), Drafter, r)
    IN  [s2 EXCEPT !.entries[r] = [@ EXCEPT
                       !.status = "kPending", !.committed = <<answer[Main], answer[Drafter]>>,
                       !.inputs = <<Prompt(r) \o answer[Main], Prompt(r) \o answer[Drafter]>>,
                       !.next = <<0, 0>>],
                   !.running = Front(@),
                   !.waiting = IF x.inputs[Main] = <<>> THEN <<r>> \o @ ELSE @]

\* Requests are preempted until what remains fits.
PreemptUntil(Fits(_), s) ==
    FoldLeft(LAMBDA t, r : IF t.failed \/ Fits(t) THEN t ELSE PreemptLast(t), s, s.running)

----------------------------------------------------------------------------
(* Draft                                                                   *)

CanDraft(s) == Len(Running(s)) <= NumAvailablePages(s, Drafter)

\* The first round of a small draft model: it is fed the last token it knows and
\* the tokens that the main model decoded without it.
FeedLagging(s, r) ==
    LET x == s.entries[r]
        own == x.committed[Drafter]
        main == x.committed[Main]
        s1 == Check(s, Len(own) <= Len(main) /\ x.next[Drafter] = 1)
    IN  Feed([s1 EXCEPT !.entries[r].committed[Drafter] = CaughtUp(x),
                        !.entries[r].next[Drafter] = 0],
             Drafter, r, <<Last(own)>> \o SubSeq(main, Len(own) + 1, Len(main)))

\* The other rounds: it is fed the leaves of its tree.
FeedLeaves(s, r) ==
    LET x == s.entries[r]
        leaves == Leaves(x.drafts)
    IN  Feed(Check(s, Len(x.committed[Drafter]) = Len(x.committed[Main]) /\ x.drafts # <<>>),
             Drafter, r, [i \in DOMAIN leaves |-> x.drafts[leaves[i]].token])

\* One round of proposals for all requests of the batch.
DraftRound(s, batch, round, right) ==
    LET lag(r) == Len(s.entries[r].committed[Main]) - Len(s.entries[r].committed[Drafter]) + 1
        parents(r) == IF round = 0 THEN <<0>> ELSE Leaves(s.entries[r].drafts)
        \* a longer lag is prefilled by chunks, which is left out
        s1 == Check(s, round > 0 \/ SumOver([i \in DOMAIN batch |-> lag(batch[i])]) <= ChunkSize)
        s2 == Each(LAMBDA t, r : IF round = 0 THEN FeedLagging(t, r) ELSE FeedLeaves(t, r),
                   s1, batch)
    IN  Each(LAMBDA t, r : Each(LAMBDA u, j : AddDraftTokens(u, r, j, right[r]), t, parents(r)),
             s2, batch)

\* BatchDraft
BatchDraft(s, right) ==
    LET s1 == PreemptUntil(CanDraft, s)
        run == Running(s1)
        batch == SubSeq(run, 1, AtMost(Len(run), Limit \div (DraftLength + 1)))
    IN  Each(LAMBDA t, i : DraftRound(t, batch, i - 1, right),
             Check(s1, batch # <<>> /\ s1.length > 0), [i \in 1..s.length |-> i])

\* One round of an Eagle model: it is fed its last proposal.
EagleDraftRound(s, batch, right) ==
    LET fed(t, r) == LET drafts == t.entries[r].drafts
                     IN  IF drafts = <<>> THEN Check(t, FALSE)
                         ELSE Feed(t, Drafter, r, <<Last(drafts).token>>)
    IN  Each(LAMBDA t, r : AddDraftTokens(t, r, Len(t.entries[r].drafts), right[r]),
             Each(fed, s, batch), batch)

\* EagleBatchDraft: the first proposal is there already.
EagleBatchDraft(s, right) ==
    LET s1 == PreemptUntil(CanDraft, s)
        batch == Running(s1)
    IN  Each(LAMBDA t, i : EagleDraftRound(t, batch, right),
             Check(s1, Len(batch) \in 1..MaxNumSequence /\ s1.length > 0),
             [i \in 1..s.length - 1 |-> i])

----------------------------------------------------------------------------
(* Verification                                                            *)

\* The requests with a draft.
ToVerify(s) ==
    LET drafted(r) == s.entries[r].drafts # <<>>
    IN  SelectSeq(Running(s), drafted)

CanVerify(s) ==
    LET batch == ToVerify(s)
    IN  SumOver([i \in DOMAIN batch |-> CeilDiv(Len(s.entries[batch[i]].drafts), PageSize)])
            <= NumAvailablePages(s, Main)

\* BatchVerifyDraftTokensWithProbAfterTopP: from the last committed token the
\* walk goes to the child that the main model agrees with, and ends with a token
\* of the main model.
Accepted(text, drafts) ==
    LET walk(a, i) ==
            LET token == NextToken(text \o a.tokens)
                next == {j \in DOMAIN drafts : drafts[j].parent = a.node
                                               /\ drafts[j].token = token}
            IN  IF a.stop THEN a
                ELSE [tokens |-> Append(a.tokens, token), stop |-> next = {},
                      node |-> IF next = {} THEN a.node ELSE CHOOSE j \in next : TRUE]
    IN  FoldLeft(walk, [node |-> 0, tokens |-> <<>>, stop |-> FALSE],
                 [i \in 1..Len(drafts) + 1 |-> i])

\* fault: the draft model's KV cache is rolled back like the main model's,
\* although the last draft was never fed to it
RollBackVerified(drafts, accepted) == Len(drafts) + 1 - accepted

\* The tokens a draft model has in its KV cache after a chain of drafts was
\* verified, beyond the accepted ones.
RollBackLength(drafts, accepted) == Len(drafts) + 1 - accepted - 1

\* All drafts of a request are accepted: the last one has not been fed to the draft
\* model.
FullyAccepted(drafts, accepted) == accepted.node > 0 /\ IsLeaf(drafts, accepted.node)

\* The main model is fed the last committed token, as the draft model knows it,
\* and all drafts.
FeedDrafts(s, r) ==
    LET x == s.entries[r]
    IN  Feed(s, Main, r, <<Last(x.committed[Drafter])>> \o [j \in DOMAIN x.drafts |-> x.drafts[j].token])

\* What it agrees with is committed; the rest leaves both KV caches.
CommitAccepted(s, r, accepted) ==
    LET drafts == s.entries[r].drafts
        full == FullyAccepted(drafts, accepted)
        node == IF full THEN drafts[accepted.node].parent ELSE accepted.node
        s1 == CommitToBoth(CommitTreeNodes(s, Main, r, Len(drafts), TokensTo(drafts, accepted.node)),
                           r, accepted.tokens)
    IN  CASE Width > 1 -> CommitTreeNodes(s1, Drafter, r, Len(drafts) - Len(Leaves(drafts)),
                                          TokensTo(drafts, node))
          [] Width = 1 /\ full -> s1
          [] OTHER -> PopNFromKVCache(s1, Drafter, r, RollBackLength(drafts, Len(accepted.tokens)))

\* A decode of the draft model for the requests whose drafts were all accepted.
FeedLastAccepted(s, r, accepted) ==
    IF FullyAccepted(s.entries[r].drafts, accepted)
    THEN Feed(s, Drafter, r, <<accepted.tokens[Len(accepted.tokens) - 1]>>)
    ELSE s

\* The verification of a batch: one call of the main model for all of it.
VerifyBatch(s, batch) ==
    LET accepted == [r \in ToSet(batch) |->
                        Accepted(Append(s.kv[Main][r], Last(s.entries[r].committed[Drafter])),
                                 s.entries[r].drafts)]
    IN  Each(LAMBDA t, r : FeedLastAccepted(t, r, accepted[r]),
             Each(LAMBDA t, r : CommitAccepted(t, r, accepted[r]), Each(FeedDrafts, s, batch), batch),
             batch)

\* BatchVerify
BatchVerify(s) ==
    LET s1 == PreemptUntil(CanVerify, s)
        batch == ToVerify(s1)
        total == SumOver([i \in DOMAIN batch |-> Len(s1.entries[batch[i]].drafts) + 1])
        s2 == VerifyBatch(Check(s1, total <= Limit), batch)
        s3 == Each(RemoveAllDraftTokens, s2, batch)
    IN  Each(LAMBDA t, r : [t EXCEPT !.entries[r].next = <<1, 1>>], s3, batch)

\* After a verification Eagle is fed the token of the main model, and a proposal
\* follows; Medusa heads make all proposals at once.
EagleNextDraft(s, batch, after) ==
    LET s1 == IF Mode = "eagle"
              THEN Each(LAMBDA t, r : Feed(t, Drafter, r, <<Last(t.entries[r].committed[Drafter])>>),
                        s, batch)
              ELSE s
    IN  Each(LAMBDA t, i : Each(LAMBDA u, r : AddDraftTokens(u, r, Len(u.entries[r].drafts), after[r]),
                                t, batch),
             s1, [i \in 1..DraftsAtOnce(s) |-> i])

\* EagleBatchVerify
EagleBatchVerify(s, after) ==
    LET s1 == PreemptUntil(CanVerify, s)
        batch == Running(s1)
        s2 == VerifyBatch(s1, batch)
        s3 == Each(RemoveAllDraftTokens, s2, batch)
        s4 == EagleNextDraft(s3, batch, after)
    IN  Each(LAMBDA t, r : [t EXCEPT !.entries[r].next = <<0, 0>>], s4, batch)

----------------------------------------------------------------------------
(* Decoding without drafts, when the automatic length is 0                 *)

CanDecode(s) == Len(Running(s)) <= NumAvailablePages(s, Main)

\* The main model alone: the draft model falls behind.
DecodeEntry(s, r) ==
    LET x == s.entries[r]
        n == Len(x.committed[Main])
        s1 == Feed([s EXCEPT !.entries[r].next[Main] = 0], Main, r,
                   SubSeq(x.committed[Main], n + 1 - x.next[Main], n))
    IN  IF x.next[Main] \notin 1..n THEN Check(s, FALSE)
        ELSE IF s1.failed THEN s1
        ELSE CommitTokens(s1, Main, r, <<NextToken(s1.kv[Main][r])>>)

\* BatchDecode
BatchDecode(s) ==
    LET s1 == PreemptUntil(CanDecode, s)
        run == Running(s1)
        batch == SubSeq(run, 1, AtMost(Len(run), Limit))
    IN  Each(DecodeEntry, Check(s1, batch # <<>>), batch)

\* The draft length for n running requests.
CalculateDraftLength(n) ==
    LET len == CASE n < 10 -> 4 [] n < 20 -> 3 [] n < 30 -> 2 [] OTHER -> 0
    IN  IF n * (len + 1) > MaxNumSequence THEN 0 ELSE len

\* AutoSpecDecode chooses a length for the step: how many tokens are proposed.
ChooseLength(s) ==
    IF DraftLength > 0 THEN s
    ELSE [s EXCEPT !.length = CalculateDraftLength(Len(Running(s)))]

\* The actions after prefill, as CreateEngineActions arranges them, for requests
\* that run: first the proposals.
DraftStep(s, right) ==
    CASE Mode = "eagle" -> EagleBatchDraft(s, right)
      [] Mode = "small_draft" /\ s.length > 0 -> BatchDraft(s, right)
      [] OTHER -> s

\* Then their verification, or a decode if there are none.
VerifyStep(s, after) ==
    CASE s.failed -> s
      [] Mode # "small_draft" -> EagleBatchVerify(s, after)
      [] Mode = "small_draft" /\ s.length > 0 -> BatchVerify(s)
      [] OTHER -> BatchDecode(s)

----------------------------------------------------------------------------
(* Post-process                                                            *)

\* A finished request leaves the models, its slots are freed and its state is
\* gone.
Finish(s, r) ==
    LET s1 == RemoveAllDraftTokens(s, r)
        s2 == RemoveSequence(RemoveSequence(s1, Main, r), Drafter, r)
    IN  [s2 EXCEPT !.running = RemoveFirst(@, r), !.entries = Erase(@, r)]

\* ActionStepPostProcess: a request with new tokens ends at a stop token or at its
\* limit.
PostProcess(s, before, stops) ==
    LET over(r) == /\ Len(s.entries[r].committed[Main]) > Len(before.entries[r].committed[Main])
                   /\ r \in stops \/ Len(s.entries[r].committed[Main]) >= MaxTokens
    IN  IF s.failed THEN s ELSE Each(Finish, s, SelectSeq(s.running, over))

----------------------------------------------------------------------------
(* Actions                                                                 *)

\* Which proposals are right, for each request: a path in the tree of them, of a
\* length between two levels.
RightPaths(from, to) == [DOMAIN es.entries -> UNION {[1..n -> 1..Width] : n \in from..to}]
\* The ones of a draft action, which in Eagle start at the second level.
Drafted == CASE Mode = "small_draft" -> RightPaths(0, IF DraftLength > 0 THEN DraftLength ELSE 4)
             [] Mode = "eagle" -> RightPaths(1, DraftLength)
             [] OTHER -> RightPaths(0, 0)
\* The ones made right after a prefill or a verification.
DraftedAfter == RightPaths(0, DraftsAtOnce(es))

Init ==
    /\ config \in Configs
    /\ es = EmptyState

\* A request may be sent again once it has ended.
AddRequest(r) ==
    /\ r \notin DOMAIN es.entries
    /\ es' = [es EXCEPT !.waiting = Append(@, r), !.entries = Put(@, r, NewEntry(r))]

\* AbortRequestImpl.  The slots of drafts are not freed, so requests are aborted
\* only where none are held between steps.
AbortRequest(r) ==
    /\ config.canAbort
    /\ r \in DOMAIN es.entries
    /\ LET s1 == IF es.entries[r].status = "kAlive"
                 THEN RemoveSequence(RemoveSequence(es, Main, r), Drafter, r) ELSE es
       IN  es' = [s1 EXCEPT !.running = RemoveFirst(@, r), !.waiting = RemoveFirst(@, r),
                            !.entries = Erase(@, r)]

Prefill ==
    LET inputs == PrefillInputs(es)
    IN  /\ inputs # <<>>
        /\ \E stops \in SUBSET DOMAIN es.entries, after \in DraftedAfter :
               es' = PostProcess(PrefillStep(es, inputs, after), es, stops)

\* A step that finds something running must do something with it.
Decode ==
    /\ PrefillInputs(es) = <<>>
    /\ es.running # <<>>
    /\ \E stops \in SUBSET DOMAIN es.entries, right \in Drafted, after \in DraftedAfter :
           \E drafted \in {DraftStep(ChooseLength(es), right)} :
           \E s \in {VerifyStep(drafted, after)} :
               LET done == \E r \in DOMAIN s.entries :
                               s.entries[r].committed[Main] # es.entries[r].committed[Main]
                   t == Check([s EXCEPT !.length = DraftLength], done \/ s.running = <<>>)
               IN  es' = PostProcess(t, es, stops)

Next ==
    /\ ~es.failed
    /\ \/ \E r \in Requests : AddRequest(r) \/ AbortRequest(r)
       \/ Prefill
       \/ Decode
    /\ UNCHANGED config

Spec == Init /\ [][Next]_vars

----------------------------------------------------------------------------
(* Properties                                                              *)

Text(from, to) == [i \in 1..to - from + 1 |-> from + i - 1]

\* The text of a request so far, prompt included.
TextLength(r) == PromptTokens[r] + Len(es.entries[r].committed[Main])

\* The answer is what the main model would have given by itself, and the draft
\* model knows a beginning of it.
AnswersRight ==
    \A r \in DOMAIN es.entries :
        LET x == es.entries[r]
        IN  /\ x.committed[Main] = Text(PromptTokens[r] + 1, TextLength(r))
            /\ x.committed[Main] # <<>> => x.committed[Drafter] # <<>>
            /\ IsPrefix(x.committed[Drafter], x.committed[Main])

\* What the KV caches hold: the text without its last token, or as far as a
\* chunked prefill has come; in the small draft model what it knows of it, and in
\* the Eagle model the text without its first token.
KvRight ==
    /\ \A m \in {Main, Drafter} :
           HasKv(m) => DOMAIN es.kv[m] = {r \in DOMAIN es.entries : es.entries[r].status = "kAlive"}
    /\ \A r \in DOMAIN es.kv[Main] :
           LET x == es.entries[r]
               part == x.inputs[Main] # <<>>
               len == IF part THEN TextLength(r) - Len(x.inputs[Main]) ELSE TextLength(r) - 1
               known == PromptTokens[r] + Len(x.committed[Drafter]) - 1
           IN  /\ es.kv[Main][r] = Text(1, len)
               /\ Mode = "small_draft" => es.kv[Drafter][r] = Text(1, IF part THEN len ELSE known)
               /\ Mode = "eagle" => es.kv[Drafter][r] = Text(2, TextLength(r))

\* Every slot is free, or taken once by the drafts of one request.
SlotsRight ==
    LET slots(r) == {es.entries[r].drafts[j].slot : j \in DOMAIN es.entries[r].drafts}
    IN  /\ es.free = (1..2 * MaxNumSequence) \ DOMAIN es.refs
        /\ \A slot \in DOMAIN es.refs :
               Cardinality({r \in DOMAIN es.entries : slot \in slots(r)}) = es.refs[slot]

\* Speculative decoding changes nothing but speed: no check of the engine or of
\* the KV caches fails, every answer is the main model's own, both KV caches hold
\* what they should between steps whatever was accepted, rolled back, caught up or
\* preempted, and no draft slot is lost or shared (BatchDraft, BatchVerify and
\* their Eagle versions, DraftTokenWorkspaceManager).
SpeculationSound == ~es.failed /\ AnswersRight /\ KvRight /\ SlotsRight
=============================================================================
