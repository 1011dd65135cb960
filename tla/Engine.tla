------------------------------- MODULE Engine -------------------------------
(***************************************************************************)
(* The engine between two calls of its thread: the waiting and the running *)
(* queue, the state of every request (one entry, or a root entry for the   *)
(* prompt and n entries for the generations), the id manager and what the  *)
(* models hold for each sequence id.  The engine runs in one thread, so    *)
(* AddRequest, AbortRequest, Reset and Step are atomic; Step is the first  *)
(* of prefill and decode that has something to do, with its post-process.  *)
(*                                                                         *)
(* Tokens are counted, not named.  The prefix cache is disabled here (it   *)
(* has its own module), there is one model and no sliding window.  A       *)
(* handler is a function from engine state to engine state, and a failed   *)
(* ICHECK of the code, or of the models it calls, sets the flag "failed",  *)
(* after which nothing happens: the process is gone.  Definitions marked   *)
(* "fault" are wrong on purpose.                                           *)
(***************************************************************************)
EXTENDS Integers, Sequences, FiniteSets, SequencesExt

CONSTANTS
    Requests,       \* the requests, each submitted at most once
    Configs         \* the configurations: records with the fields named below

ASSUME ConfigAssumption ==
    \A c \in Configs :
        /\ c.promptTokens \in [Requests -> Nat \ {0}]
        /\ c.generations \in [Requests -> Nat \ {0}]
        /\ {c.maxTokens, c.maxSingle, c.maxTotal, c.maxNumSequence, c.chunkSize, c.pageSize,
            c.numPages} \subseteq Nat \ {0}
        /\ {c.hybrid, c.canAbort} \subseteq BOOLEAN
        \* the KV cache is created for max_total_sequence_length tokens
        /\ c.numPages * c.pageSize >= c.maxTotal

VARIABLES
    config, \* one of Configs, chosen once
    es,     \* the engine state
    ends    \* per request, the final outputs sent back through the callback

vars == <<config, es, ends>>

PromptTokens == config.promptTokens     \* [Requests -> Nat]: request->prompt_tokens
Generations == config.generations       \* [Requests -> Nat]: generation_cfg->n
MaxTokens == config.maxTokens           \* generation_cfg->max_tokens
MaxSingle == config.maxSingle           \* max_single_sequence_length
MaxTotal == config.maxTotal             \* max_total_sequence_length
MaxNumSequence == config.maxNumSequence \* max_num_sequence
ChunkSize == config.chunkSize           \* prefill_chunk_size
PageSize == config.pageSize             \* kv_cache_page_size
NumPages == config.numPages             \* pages of the KV cache
Hybrid == config.hybrid                 \* prefill_mode is kHybrid
CanAbort == config.canAbort             \* whether clients abort requests

----------------------------------------------------------------------------
(* State                                                                   *)

\* A request state entry.  Entry 1 of a request is its root.
NewEntry(id, inputs) ==
    [status |-> "kPending", id |-> id, inputs |-> inputs, committed |-> 0,
     next |-> 0]    \* num_tokens_for_next_decode

EmptyState ==
    [waiting |-> <<>>, running |-> <<>>,
     states |-> [r \in {} |-> <<>>],            \* request_states
     available |-> <<>>, idCnt |-> 0,           \* id_manager
     kv |-> [id \in {} |-> 0],                  \* tokens held per sequence
     changed |-> TRUE, cached |-> <<>>,         \* running_rsentries_changed, cached_...
     failed |-> FALSE]

Put(f, k, v) == [x \in DOMAIN f \cup {k} |-> IF x = k THEN v ELSE f[x]]
Erase(f, k)  == [x \in DOMAIN f \ {k} |-> f[x]]

\* An ICHECK.
Check(s, ok) == [s EXCEPT !.failed = @ \/ ~ok]

Entry(s, e) == s.states[e[1]][e[2]]
SetEntry(s, e, x) == [s EXCEPT !.states[e[1]][e[2]] = x]
\* The entries of a request, as pairs, in order.
EntriesOf(s, r) == [i \in 1..Len(s.states[r]) |-> <<r, i>>]
Children(s, e) == IF e[2] = 1 THEN 2..Len(s.states[e[1]]) ELSE {}
IsLeaf(s, e) == Children(s, e) = {}

Without(q, r) ==
    LET other(x) == x # r
    IN  SelectSeq(q, other)

\* The entries that can decode: alive leaves without inputs left.
Decodable(s) ==
    LET runs(e) == /\ Entry(s, e).status = "kAlive" /\ IsLeaf(s, e)
                   /\ Entry(s, e).inputs = 0
    IN  SelectSeq(FlattenSeq([i \in DOMAIN s.running |-> EntriesOf(s, s.running[i])]), runs)

\* GetRunningRequestStateEntries: computed again only if the flag says so.
RunningEntries(s) == IF s.changed THEN Decodable(s) ELSE s.cached
Refreshed(s) == [s EXCEPT !.cached = RunningEntries(s), !.changed = FALSE]

----------------------------------------------------------------------------
(* The id manager and the models                                           *)

NewId(s) == IF s.available # <<>> THEN Last(s.available) ELSE s.idCnt
GetNewId(s) == IF s.available # <<>> THEN [s EXCEPT !.available = Front(@)]
               ELSE [s EXCEPT !.idCnt = @ + 1]
RecycleId(s, id) == [s EXCEPT !.available = Append(@, id)]

CeilDiv(n, d) == (n + d - 1) \div d
SumOver(f) == FoldFunction(LAMBDA x, y : x + y, 0, f)

\* A forked sequence shares the pages of its parent and only its own tokens count.
NumAvailablePages(s) == NumPages - SumOver([id \in DOMAIN s.kv |-> CeilDiv(s.kv[id], PageSize)])
TotalSequenceLength(s) == SumOver(s.kv)
AddSequence(s, id) == Check([s EXCEPT !.kv = Put(@, id, 0)], id \notin DOMAIN s.kv)
ForkSequence(s, parent, id) == Check(AddSequence(s, id), parent \in DOMAIN s.kv)
RemoveSequence(s, id) == Check([s EXCEPT !.kv = Erase(@, id)], id \in DOMAIN s.kv)
AppendTokens(s, id, n) ==
    IF id \in DOMAIN s.kv THEN [s EXCEPT !.kv[id] = @ + n] ELSE Check(s, FALSE)

----------------------------------------------------------------------------
(* Prefill                                                                 *)

\* The entries of the waiting queue that may be prefilled: they have inputs, and
\* their parent, if any, has been prefilled.
Candidates(s) ==
    LET ready(e) == /\ Entry(s, e).inputs > 0
                    /\ e[2] > 1 => /\ s.states[e[1]][1].status # "kPending"
                                   /\ s.states[e[1]][1].inputs = 0
    IN  SelectSeq(FlattenSeq([i \in DOMAIN s.waiting |-> EntriesOf(s, s.waiting[i])]), ready)

HasPrefillSpace(s, pages, batch, len) ==
    /\ pages + batch <= NumAvailablePages(s)
    /\ TotalSequenceLength(s) + len + 8 * batch <= MaxTotal

\* fault
CanPrefillNewOnly(s, num, len, pages) ==
    /\ num <= MaxNumSequence /\ num <= ChunkSize
    /\ len <= ChunkSize
    /\ HasPrefillSpace(s, pages, Len(RunningEntries(s)) + num, len)
CanPrefill(s, num, len, pages) ==
    LET batch == Len(RunningEntries(s)) + num
    IN  /\ batch <= MaxNumSequence /\ batch <= ChunkSize
        /\ len <= ChunkSize
        /\ HasPrefillSpace(s, pages, batch, len)

PrefillInput(e, len, kids) == [e |-> e, len |-> len, kids |-> kids]

\* fault: goes on with the requests behind one that does not fit
ConsiderNext(s, a, e) ==
    LET inputs == Entry(s, e).inputs
        pages  == a.pages + CeilDiv(inputs, PageSize)
    IN  IF CanPrefill(s, a.num + 1, a.len + inputs, pages)
        THEN [a EXCEPT !.sel = Append(@, PrefillInput(e, inputs, 0)),
                       !.num = @ + 1, !.len = @ + inputs, !.pages = pages]
        ELSE a
\* One candidate: it is taken whole, with as many children as can be activated;
\* or a chunk of it is taken and nothing after it; or nothing more is taken.
Consider(s, a, e) ==
    LET inputs == Entry(s, e).inputs
        len    == a.len + inputs
        pages  == a.pages + CeilDiv(inputs, PageSize)
        kids   == {k \in 0..Cardinality(Children(s, e)) :
                        CanPrefill(s, a.num + 1 + k, len, pages)}
        rest   == ChunkSize - a.len
    IN  IF a.stop THEN a
        ELSE IF kids # {}
        THEN LET k == Max(kids)
             IN  [a EXCEPT !.sel = Append(@, PrefillInput(e, inputs, k)),
                           !.num = @ + 1 + k, !.len = len, !.pages = pages]
        ELSE IF rest > 0 /\ rest < inputs
                /\ CanPrefill(s, a.num + 1, ChunkSize, a.pages + CeilDiv(rest, PageSize))
        THEN [a EXCEPT !.sel = Append(@, PrefillInput(e, rest, 0)), !.stop = TRUE]
        ELSE [a EXCEPT !.stop = TRUE]

\* GetRequestStateEntriesToPrefill: in hybrid mode the running entries join.
EntriesToPrefill(s) ==
    LET running == RunningEntries(s)
        a0  == [sel |-> <<>>, num |-> 0, pages |-> Len(running), stop |-> FALSE,
                len |-> SumOver([i \in DOMAIN running |-> Entry(s, running[i]).next])]
        sel == FoldLeft(LAMBDA a, e : Consider(s, a, e), a0, Candidates(s)).sel
        decodes == [i \in DOMAIN running |-> PrefillInput(running[i], 0, 0)]
    IN  IF Len(running) > NumAvailablePages(s) \/ sel = <<>> THEN <<>>
        ELSE IF Hybrid THEN sel \o decodes ELSE sel

\* An entry becomes alive, and its request running if no other entry was alive.
UpdateRequestToAlive(s, e) ==
    LET r == e[1]
        first == /\ Entry(s, e).status = "kPending"
                 /\ \A i \in DOMAIN s.states[r] : s.states[r][i].status # "kAlive"
    IN  [SetEntry(s, e, [Entry(s, e) EXCEPT !.status = "kAlive"]) EXCEPT
            !.running = IF first THEN Append(@, r) ELSE @]

\* The entry's sequence is created in the models if the entry was pending, and
\* gets a chunk of the inputs, or the tokens to decode.
PrefillEntry(s, before, in) ==
    LET e  == in.e
        x  == Entry(s, e)
        n  == IF x.inputs = 0 THEN x.next ELSE in.len
        s1 == IF Entry(before, e).status # "kPending" THEN s
              ELSE IF e[2] = 1 THEN AddSequence(s, x.id)
              ELSE ForkSequence(s, s.states[e[1]][1].id, x.id)
    IN  AppendTokens(SetEntry(Check(s1, n > 0), e,
            IF x.inputs = 0 THEN [x EXCEPT !.next = 0] ELSE [x EXCEPT !.inputs = @ - n]), x.id, n)

\* CommitToken: one more token, to be processed by the next decode.
CommitToken(s, e) ==
    SetEntry(s, e, [Entry(s, e) EXCEPT !.committed = @ + 1, !.next = @ + 1])

\* A child gets its first token from the logits of its parent.  The first ones
\* are forked and alive; the others get the token as an input for a later
\* prefill as well.
SampleChild(s, c, activate) ==
    LET s1 == CommitToken(s, c)
    IN  IF activate
        THEN ForkSequence(SetEntry(s1, c, [Entry(s1, c) EXCEPT !.status = "kAlive"]),
                          s.states[c[1]][1].id, Entry(s, c).id)
        ELSE SetEntry(s1, c, [Entry(s1, c) EXCEPT !.inputs = @ + 1])

\* Sampling for an entry whose inputs are all prefilled: for itself, or for its
\* children that have no token yet.
Sample(s, in) ==
    LET fresh == {c \in Children(s, in.e) : /\ s.states[in.e[1]][c].status = "kPending"
                                           /\ s.states[in.e[1]][c].committed = 0}
        rank(c) == Cardinality({d \in fresh : d <= c})
        order == SetToSortSeq(fresh, <)
    IN  IF Entry(s, in.e).inputs > 0 THEN s
        ELSE IF IsLeaf(s, in.e) THEN CommitToken(s, in.e)
        ELSE FoldLeft(LAMBDA t, c : SampleChild(t, <<in.e[1], c>>, rank(c) <= in.kids), s, order)

\* A request leaves the waiting queue when nothing of it waits.
RemoveProcessed(s, r) ==
    IF \E i \in DOMAIN s.states[r] :
            s.states[r][i].status = "kPending" \/ s.states[r][i].inputs > 0
    THEN s ELSE [s EXCEPT !.waiting = RemoveFirst(@, r)]

\* The requests of a list of entries, each once, in order.
RequestsOf(entries) ==
    FoldLeft(LAMBDA q, e : IF Contains(q, e[1]) THEN q ELSE Append(q, e[1]), <<>>, entries)

\* NewRequestPrefill after the selection.
PrefillStep(s, sel) ==
    LET s1 == FoldLeft(LAMBDA t, in : UpdateRequestToAlive(t, in.e), Refreshed(s), sel)
        s2 == FoldLeft(LAMBDA t, in : PrefillEntry(t, s, in), s1, sel)
        s3 == FoldLeft(Sample, s2, sel)
        s4 == FoldLeft(RemoveProcessed, s3, RequestsOf([i \in DOMAIN sel |-> sel[i].e]))
    IN  [s4 EXCEPT !.changed = TRUE]

----------------------------------------------------------------------------
(* Decode                                                                  *)

\* fault
RestartPrompt(r, i, x) == IF i = 1 THEN PromptTokens[r] ELSE x.committed
\* The inputs of a preempted entry: its prompt, if it is a root, and its answer.
RestartInputs(r, i, x) == (IF i = 1 THEN PromptTokens[r] ELSE 0) + x.committed

\* fault
StaysPreempted(s, q, r, i) == q
\* Where a preempted request waits: at the front, or where it already is.
WaitsAgain(s, q, r, i) ==
    IF s.states[r][i].inputs = 0 /\ i = Len(s.states[r]) THEN <<r>> \o q ELSE q

\* PreemptLastRunningRequestStateEntry.  The last alive entry of the last running
\* request starts again, with its tokens as inputs and a new id.
PreemptLast(s) ==
    LET r == Last(s.running)
        i == Max({j \in DOMAIN s.states[r] : s.states[r][j].status = "kAlive"})
        x == s.states[r][i]
        s1 == GetNewId(RemoveSequence(s, x.id))
        y == [x EXCEPT !.status = "kPending", !.next = 0, !.id = NewId(RemoveSequence(s, x.id)),
                       !.inputs = RestartInputs(r, i, x)]
    IN  [entry |-> <<r, i>>,
         state |-> [s1 EXCEPT
            !.states[r][i] = y, !.changed = TRUE,
            !.running = IF i = 1 THEN Front(@) ELSE @,
            !.waiting = WaitsAgain(s, @, r, i)]]

CanDecode(s, num) == num <= NumAvailablePages(s)

\* fault
AllStillRun(run, e) == run
\* The entries to decode without a preempted one.
StillRun(run, e) == IF run # <<>> /\ Last(run) = e THEN Front(run) ELSE run

\* One round of the loop that makes room: p is the engine state with the entries
\* to decode.
MakeRoom(p) ==
    IF p.state.failed \/ CanDecode(p.state, Len(p.run)) THEN p
    ELSE IF p.state.running = <<>> \/ \A x \in Range(p.state.states[Last(p.state.running)]) :
                                           x.status # "kAlive"
    THEN [p EXCEPT !.state = Check(@, FALSE)]
    ELSE LET q == PreemptLast(p.state)
         IN  [state |-> q.state,
              run |-> StillRun(p.run, q.entry)]

\* The loop: every round that changes something preempts one entry.
RoomMade(s) ==
    LET bound == SumOver([r \in DOMAIN s.states |-> Len(s.states[r])]) + 1
        after[k \in 0..bound] == IF k = 0 THEN [state |-> Refreshed(s), run |-> RunningEntries(s)]
                                 ELSE MakeRoom(after[k - 1])
    IN  after[bound]

\* The tokens of an entry that are not in the KV cache yet go there and a new
\* one is sampled.
DecodeEntry(s, e) ==
    LET x  == Entry(s, e)
        s1 == AppendTokens(SetEntry(s, e, [x EXCEPT !.next = 0]), x.id, x.next)
    IN  CommitToken(Check(s1, x.next \in 1..x.committed), e)

DecodeStep(s) ==
    LET p == RoomMade(s)
        limit == IF MaxNumSequence < ChunkSize THEN MaxNumSequence ELSE ChunkSize
        run == SubSeq(p.run, 1, IF Len(p.run) < limit THEN Len(p.run) ELSE limit)
    IN  IF p.state.failed THEN p.state
        ELSE FoldLeft(DecodeEntry, Check(p.state, run # <<>>), run)

----------------------------------------------------------------------------
(* Post-process                                                            *)

\* RemoveRequestStateEntry: not in the prefix cache, so from the models.
RemoveEntry(s, e) == RecycleId(RemoveSequence(s, Entry(s, e).id), Entry(s, e).id)

MarkFinished(s, e) == RemoveEntry(SetEntry(s, e, [Entry(s, e) EXCEPT !.status = "kFinished"]), e)

\* A leaf has finished; with the last of its siblings the parent, and with the
\* root the request.  A request still in the waiting queue would be left there
\* with a pointer to its erased state.
FinishEntry(s, e) ==
    LET r  == e[1]
        s1 == MarkFinished(s, e)
        over == \A c \in 2..Len(s1.states[r]) : s1.states[r][c].status = "kFinished"
        s2 == IF e[2] # 1 /\ over THEN MarkFinished(s1, <<r, 1>>) ELSE s1
    IN  IF ~over THEN [s1 EXCEPT !.changed = TRUE]
        ELSE [Check(s2, Contains(s2.running, r) /\ ~Contains(s2.waiting, r)) EXCEPT
                 !.running = RemoveFirst(@, r), !.states = Erase(@, r), !.changed = TRUE]

\* The leaves of request r that got tokens since the state before.
Grown(before, s, r) ==
    LET grown(e) == IsLeaf(s, e) /\ Entry(s, e).committed > Entry(before, e).committed
    IN  SelectSeq(EntriesOf(s, r), grown)

\* max_tokens or the length limit is reached (GetDeltaRequestReturn).
AtLimit(s, e) ==
    \/ Entry(s, e).committed >= MaxTokens
    \/ PromptTokens[e[1]] + Entry(s, e).committed >= MaxSingle

\* What ActionStepPostProcess can lead to: of the leaves with new tokens those at
\* a limit finish, and any of the others, if it has sampled a stop token.
PostProcess(before, s, processed) ==
    LET grown == FlattenSeq([i \in DOMAIN processed |-> Grown(before, s, processed[i])])
        over  == {e \in Range(grown) : AtLimit(s, e)}
        ended(done) == SelectSeq(grown, LAMBDA e : e \in done)
    IN  {FoldLeft(FinishEntry, s, ended(over \cup stopped)) : stopped \in SUBSET Range(grown)}

----------------------------------------------------------------------------
(* Actions                                                                 *)

Init ==
    /\ config \in Configs
    /\ es = EmptyState
    /\ ends = [r \in Requests |-> <<>>]

\* fault: sent after the request has left the running queue
UsageToRunning(s) == {r \in DOMAIN es.states \ DOMAIN s.states : Contains(s.running, r)}
\* The requests that get their final usage in a step: those that it ends.
UsageTo(s) == DOMAIN es.states \ DOMAIN s.states
\* The outcome of an engine step; after a failed check nothing else is observed.
Becomes(s) ==
    IF s.failed THEN es' = Check(es, FALSE) /\ UNCHANGED <<config, ends>>
    ELSE /\ es' = s
         /\ ends' = [r \in Requests |->
                IF r \in UsageTo(s) THEN Append(ends[r], "usage")
                ELSE ends[r]]
         /\ UNCHANGED config

\* A prompt that is too long is refused; otherwise the request waits, with an
\* entry for its prompt and one for each of several generations.
AddRequest(r) ==
    LET num == IF Generations[r] = 1 THEN 1 ELSE 1 + Generations[r]
        withId(p, i) == [state |-> GetNewId(p.state),
                         entries |-> Append(p.entries,
                            NewEntry(NewId(p.state), IF i = 1 THEN PromptTokens[r] ELSE 0))]
        made == FoldLeft(withId, [state |-> es, entries |-> <<>>], [i \in 1..num |-> i])
    IN  /\ ~es.failed /\ r \notin DOMAIN es.states /\ ends[r] = <<>>
        /\ IF PromptTokens[r] >= MaxSingle
           THEN ends' = [ends EXCEPT ![r] = Append(@, "length")] /\ UNCHANGED es
           ELSE /\ es' = [made.state EXCEPT !.waiting = Append(@, r),
                                            !.states = Put(@, r, made.entries)]
                /\ UNCHANGED ends
        /\ UNCHANGED config

\* AbortRequestImpl: the entries of a running request lose their sequences and
\* ids, from the last to the first; the ids of one that only waits are kept.
Aborted(s, r) ==
    LET drop(t, e) == IF Entry(s, e).status # "kAlive" THEN RecycleId(t, Entry(s, e).id)
                      ELSE RemoveEntry(t, e)
        s1 == IF Contains(s.running, r) THEN FoldLeft(drop, s, Reverse(EntriesOf(s, r))) ELSE s
    IN  [s1 EXCEPT !.running = RemoveFirst(@, r), !.waiting = RemoveFirst(@, r),
                   !.states = Erase(@, r), !.changed = TRUE]

AbortRequest(r) ==
    /\ CanAbort /\ ~es.failed /\ r \in DOMAIN es.states
    /\ es' = Aborted(es, r)
    /\ ends' = [ends EXCEPT ![r] = Append(@, "abort")]
    /\ UNCHANGED config

\* Everything is aborted and the engine state and the models are reset.
Reset ==
    /\ CanAbort /\ ~es.failed /\ es # EmptyState
    /\ es' = EmptyState
    /\ ends' = [r \in Requests |-> IF r \in DOMAIN es.states THEN Append(ends[r], "abort")
                                    ELSE ends[r]]
    /\ UNCHANGED config

Prefill ==
    LET sel == EntriesToPrefill(es)
        s   == PrefillStep(es, sel)
    IN  /\ ~es.failed /\ sel # <<>>
        /\ \E t \in PostProcess(es, s, RequestsOf([i \in DOMAIN sel |-> sel[i].e])) : Becomes(t)

Decode ==
    LET s == DecodeStep(es)
    IN  /\ ~es.failed /\ EntriesToPrefill(es) = <<>> /\ es.running # <<>>
        /\ \E t \in PostProcess(es, s, s.running) : Becomes(t)

Step == Prefill \/ Decode

Next ==
    \/ \E r \in Requests : AddRequest(r) \/ AbortRequest(r)
    \/ Reset
    \/ Step

\* The background loop calls Step again and again: weak fairness of Step, which
\* has something to do exactly when CanStep holds.  (Otherwise a call refreshes
\* the list of running entries, which is empty then, and nothing else.)
CanStep == ~es.failed /\ (es.running # <<>> \/ EntriesToPrefill(es) # <<>>)
Spec == Init /\ [][Next]_vars /\ ([]<>~CanStep \/ []<><<Step>>_vars)

----------------------------------------------------------------------------
(* Properties                                                              *)

AllEntries == UNION {Range(EntriesOf(es, r)) : r \in DOMAIN es.states}
Unfinished == {e \in AllEntries : Entry(es, e).status # "kFinished"}
Alive == {e \in AllEntries : Entry(es, e).status = "kAlive"}

\* Types of the queues, the request states and the id manager.
TypeOK ==
    /\ es.waiting \in Seq(Requests) /\ es.running \in Seq(Requests)
    /\ DOMAIN es.states \subseteq Requests
    /\ es.available \in Seq(0..(es.idCnt - 1)) /\ es.idCnt \in Nat
    /\ \A e \in AllEntries :
          /\ Entry(es, e).status \in {"kPending", "kAlive", "kFinished"}
          /\ Entry(es, e).id \in 0..(es.idCnt - 1)
          /\ {Entry(es, e).inputs, Entry(es, e).committed, Entry(es, e).next} \subseteq Nat

\* No ICHECK of the engine or of the models fails: in particular a step always
\* finds an action for the running requests, and a sequence is added, forked and
\* removed only when that is possible.
ChecksHold == ~es.failed

\* "Return an unused id": the ids of unfinished entries are different and none of
\* them is free, no id is free twice, and the models hold exactly the sequences
\* of the alive entries.
UniqueIds ==
    /\ \A e, f \in Unfinished : Entry(es, e).id = Entry(es, f).id => e = f
    /\ \A e \in Unfinished : ~Contains(es.available, Entry(es, e).id)
    /\ IsInjective(es.available)
    /\ DOMAIN es.kv = {Entry(es, e).id : e \in Alive}

\* The queues say what the entries say: each lists a request once, the running
\* queue the requests with an alive entry, the waiting queue those with
\* something to prefill, and no request is in neither.
QueuesAgree ==
    /\ IsInjective(es.waiting) /\ IsInjective(es.running)
    /\ Range(es.running) = {e[1] : e \in Alive}
    /\ Range(es.waiting) = {e[1] : e \in {x \in Unfinished :
            Entry(es, x).status = "kPending" \/ Entry(es, x).inputs > 0}}
    /\ DOMAIN es.states = Range(es.running) \cup Range(es.waiting)

\* Every token is put into the KV cache once: what the models hold, what is left
\* to prefill and what the next decode processes make up the entry's text.
KvMatches ==
    \A e \in Alive :
        LET x == Entry(es, e)
            text == (IF e[2] = 1 THEN PromptTokens[e[1]] ELSE 0) + x.committed
        IN  es.kv[x.id] + (IF x.inputs > 0 THEN x.inputs ELSE x.next) = text

\* What a step takes on fits: the pages promised to prefills and decodes are
\* there, and so are places for the sequences that decode, and for their tokens
\* when prefills join them (two ICHECKs of the prefill action).
StepFits ==
    /\ NumAvailablePages(es) >= 0
    /\ Len(Decodable(es)) <= MaxNumSequence
    /\ SumOver([i \in DOMAIN Decodable(es) |-> Entry(es, Decodable(es)[i]).next]) <= ChunkSize

\* The cached list of running entries is the list that would be computed, unless
\* the flag says otherwise: no step that changes it forgets the flag.
CachedRunning == RunningEntries(es) = Decodable(es)

\* Ids, queues and the cached list stay consistent through prefill, decode,
\* preemption, forks, abort and reset.
StateAgrees == TypeOK /\ UniqueIds /\ QueuesAgree /\ CachedRunning

\* A waiting request is never overtaken: a step that prefills something of one
\* also prefills something of each request before it in the queue.
Prefilled(r) ==
    r \in DOMAIN es'.states => \E i \in DOMAIN es.states[r] :
        es'.states[r][i].status # es.states[r][i].status \/ es'.states[r][i].inputs < es.states[r][i].inputs
NoOvertaking ==
    [][(Prefill /\ ~es'.failed) => \A j \in DOMAIN es.waiting : \A i \in 1..j :
            Prefilled(es.waiting[j]) => Prefilled(es.waiting[i])]_vars

\* Every request ends: it is answered to its end, refused, or aborted.
Served == \A r \in Requests : r \in DOMAIN es.states ~> ends[r] # <<>>
=============================================================================
