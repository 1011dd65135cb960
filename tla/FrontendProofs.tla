--------------------------- MODULE FrontendProofs ---------------------------
(***************************************************************************)
(* Proofs about the Python engines, for any number of calls, any request    *)
(* ids and any requests: calls, table of streams and engine agree on who is *)
(* served (ServedAreListening).                                             *)
(*                                                                          *)
(* The difficulty is that an output is handed to whoever listens under its  *)
(* id, or takes from the common queue, and not to the call it was made for. *)
(* The invariant ServingInv therefore counts: in each group of calls that   *)
(* can take each other's outputs, no more calls are known to the engine     *)
(* than wait for an end (EndsSuffice).  An undisturbed call is the only one *)
(* of its group that may wait (QuietAlone), so what comes is its own, and   *)
(* the end that takes it out of the table is the end of its own request.    *)
(***************************************************************************)
EXTENDS Frontend, TLAPS, FiniteSetTheorems, SequenceTheorems

----------------------------------------------------------------------------
(* Types                                                                   *)

Toks == {EchoToken, SuffixToken} \cup [from : Calls, gen : Nat, pos : Nat]
Texts == Seq(Toks)
Outs == [text : Texts, reason : {NoReason, "stop", "abort"}]
Chunks == [final : BOOLEAN, outputs : Seq(Outs)]
Items == [kind : {"chunk", "stop", "error"}, chunk : Chunks]
Instrs == [op : {"add", "abort", "reset"}, id : Ids, call : Calls \cup {None}]
Batches == [id : Ids, call : Calls, final : BOOLEAN, outs : Seq(Outs)]

\* What the engine has emitted and no call has taken yet, oldest first.
Coming == syncQueue \o outputs

ScenarioTypes == [kind |-> kind, id |-> id, req |-> req] \in Scenarios
PcTypes == pc \in [Calls -> {"idle", "run"} \cup Unfinished \cup Ended]
TableTypes == streamers \in [Ids -> Calls \cup {None}]
StreamTypes == stream \in [Calls -> Seq(Items)]
HeldTypes ==
  /\ held = [c \in Calls |-> held[c]]
  /\ \A c \in Calls : held[c] \in [Gens(c) -> Texts]
AnswerTypes ==
  /\ reasons = [c \in Calls |-> reasons[c]] /\ answer = [c \in Calls |-> answer[c]]
  /\ \A c \in Calls : DOMAIN reasons[c] = Gens(c)
MadeTypes ==
  /\ made = [c \in Calls |-> made[c]]
  /\ \A c \in Calls : made[c] \in [Gens(c) -> [tokens : 0..req[c].max_tokens, over : BOOLEAN, again : BOOLEAN]]
EngineTypes == engine \in [Ids -> Calls \cup {None}]
InstrTypes == instrs \in Seq(Instrs)
QueueTypes ==
  /\ outputs \in Seq(Batches) /\ syncQueue \in Seq(Batches)
  /\ kind = "async" => syncQueue = <<>>
ControlTypes == terminated \in BOOLEAN /\ control \in 0..MaxControl /\ disturbed \subseteq Calls

Types ==
  /\ ScenarioTypes /\ PcTypes /\ TableTypes /\ StreamTypes /\ HeldTypes /\ AnswerTypes
  /\ MadeTypes /\ EngineTypes /\ InstrTypes /\ QueueTypes /\ ControlTypes

\* Instructions, requests and outputs name their call.
Named ==
  /\ \A p \in DOMAIN instrs : instrs[p].op = "add" =>
       instrs[p].call \in Calls /\ instrs[p].id = id[instrs[p].call]
  /\ \A i \in Ids : engine[i] # None => id[engine[i]] = i
  /\ \A p \in DOMAIN Coming : Coming[p].id = id[Coming[p].call]
                            /\ DOMAIN Coming[p].outs = Gens(Coming[p].call)

----------------------------------------------------------------------------
(* The invariant                                                           *)

\* Calls that have begun and not ended normally.
Begun == {"run", "closing", "failed", "closed"}

\* The calls that c can meet: those with its id, or all that share the queue.
Group(c) == {d \in Calls : kind = "async" => id[d] = id[c]}

AddOf(c, p) == instrs[p].op = "add" /\ instrs[p].call = c
Queued(c) == \E p \in DOMAIN instrs : AddOf(c, p)
Emits(c) == \E p \in DOMAIN Coming : Coming[p].call = c

\* The engine has to do with the call, or something it made is on its way.
Present(c) == Queued(c) \/ engine[id[c]] = c \/ Emits(c)

\* The engine still has to end the call, or the end is on its way.
EndsFor(c) == \E p \in DOMAIN Coming : Coming[p].call = c /\ Coming[p].final
Owed(c) == Queued(c) \/ engine[id[c]] = c \/ EndsFor(c)

HasStop(c) == \E j \in DOMAIN stream[c] : stream[c][j].kind = "stop"

\* A call that has begun and has not been told its end.
Waiting(c) == pc[c] \in Begun /\ ~HasStop(c)

\* A call goes through the engine once, and ends with its final output.
Through(c) ==
  /\ \A p, q \in DOMAIN instrs : AddOf(c, p) /\ AddOf(c, q) => p = q
  /\ Queued(c) => engine[id[c]] # c /\ ~Emits(c)
  /\ \A p \in DOMAIN Coming : Coming[p].call = c /\ Coming[p].final =>
       /\ engine[id[c]] # c
       /\ \A q \in DOMAIN Coming : Coming[q].call = c => q <= p

\* Nothing happens for a call before it begins.
Unbegun(c) ==
  /\ Present(c) => pc[c] \in Begun \cup {"done"}
  /\ pc[c] \in {"idle", "echo"} => stream[c] = <<>>

InOrder == \A c \in Calls : Through(c) /\ Unbegun(c)

\* A call that is not disturbed is the only one of its group that has begun and not
\* ended normally.
QuietAlone ==
  \A c \in Quiet : pc[c] \in Begun =>
    \A d \in Group(c) \ {c} : pc[d] \notin Begun

\* A call in the table has not been told its end, nor an error.
TableOpen ==
  \A c \in Calls : streamers[id[c]] = c =>
     /\ kind = "async"
     /\ \A j \in DOMAIN stream[c] : stream[c][j].kind = "chunk"

\* As many calls of a group wait for an end as the engine has to do with.
EndsSuffice ==
  \A c \in Calls :
    Cardinality({d \in Group(c) : Present(d)}) <= Cardinality({d \in Group(c) : Waiting(d)})

\* A quiet call that listens for its end will get it.
EndComes ==
  \A c \in Quiet : pc[c] = "run" =>
     /\ Waiting(c) => Owed(c) /\ Listened(c)
     /\ \A j \in DOMAIN stream[c] : stream[c][j].kind # "error"

\* An abort of id i is queued behind the place p.
AbortAfter(i, p) == \E q \in DOMAIN instrs : q > p /\ instrs[q].op = "abort" /\ instrs[q].id = i

\* The request of c has a listener, or its abort is queued.
Orphanless(c) ==
  /\ engine[id[c]] = c => Listened(c) \/ AbortAfter(id[c], 0)
  /\ \A p \in DOMAIN instrs : AddOf(c, p) => Listened(c) \/ AbortAfter(id[c], p)

ServingInv ==
  /\ Types /\ Named /\ InOrder /\ QuietAlone /\ TableOwned /\ TableOpen
  /\ EndsSuffice /\ EndComes /\ (\A c \in Quiet : Orphanless(c))

----------------------------------------------------------------------------
(* Types                                                                   *)

\* The types say what TypeOK says, and more.
LEMMA TypesGiveTypeOK ==
  ASSUME Types PROVE TypeOK
<1>1. ASSUME NEW c \in Calls, NEW g \in Gens(c) PROVE made[c][g].tokens \in 0..req[c].max_tokens
  <2>1. made[c][g] \in [tokens : 0..req[c].max_tokens, over : BOOLEAN, again : BOOLEAN]
    BY DEF Types, MadeTypes
  <2> QED
    BY <2>1
<1>2. \A c \in Calls : DOMAIN reasons[c] = Gens(c)
  BY DEF Types, AnswerTypes
<1> QED
  BY <1>1, <1>2 DEF Types, TypeOK, ScenarioTypes, PcTypes, TableTypes, EngineTypes, ControlTypes

\* Kinds, ids and requests are those of a scenario.
LEMMA ScenarioFacts ==
  ASSUME ScenarioTypes
  PROVE  /\ kind \in {"async", "sync"} /\ id \in [Calls -> Ids]
         /\ \A c \in Calls : req[c].n \in Nat \ {0} /\ req[c].max_tokens \in Nat
         /\ kind = "sync" => \A c, d \in Calls : c # d => id[c] # id[d]
<1> DEFINE s == [kind |-> kind, id |-> id, req |-> req]
<1>1. s \in Scenarios
  BY DEF ScenarioTypes
<1>2. s.kind = kind /\ s.id = id /\ s.req = req
  OBVIOUS
<1> HIDE DEF s
<1> QED
  BY <1>1, <1>2, FrontendAssumption

\* The initial state is well typed.
LEMMA InitTypes == Init => Types
<1> SUFFICES ASSUME Init PROVE Types
  OBVIOUS
<1>1. ScenarioTypes
  <2>1. PICK s \in Scenarios : kind = s.kind /\ id = s.id /\ req = s.req
    BY DEF Init
  <2> QED
    BY <2>1, FrontendAssumption DEF ScenarioTypes
<1>2. PcTypes
  BY DEF Init, PcTypes
<1>3. TableTypes /\ EngineTypes
  BY DEF Init, TableTypes, EngineTypes
<1>4. StreamTypes
  BY DEF Init, StreamTypes
<1>5. HeldTypes
  <2>1. held = [c \in Calls |-> [g \in Gens(c) |-> <<>>]] /\ <<>> \in Texts
    BY DEF Init, Texts
  <2> QED
    BY <2>1 DEF HeldTypes
<1>6. AnswerTypes
  <2>1. /\ reasons = [c \in Calls |-> [g \in Gens(c) |-> NoReason]]
        /\ answer = [c \in Calls |-> EmptyAnswer(req[c])]
    BY DEF Init
  <2>2. ASSUME NEW c \in Calls PROVE DOMAIN reasons[c] = Gens(c)
    <3>1. reasons[c] = [g \in Gens(c) |-> NoReason]
      BY <2>1
    <3> QED
      BY <3>1
  <2> QED
    BY <2>1, <2>2 DEF AnswerTypes
<1>7. MadeTypes
  <2>1. /\ made = [c \in Calls |-> [g \in Gens(c) |-> [tokens |-> 0, over |-> FALSE, again |-> FALSE]]]
        /\ \A c \in Calls : [tokens |-> 0, over |-> FALSE, again |-> FALSE] \in [tokens : 0..req[c].max_tokens, over : BOOLEAN, again : BOOLEAN]
    BY <1>1, ScenarioFacts DEF Init
  <2> QED
    BY <2>1 DEF MadeTypes
<1>8. InstrTypes /\ QueueTypes
  BY DEF Init, InstrTypes, QueueTypes
<1>9. ControlTypes
  <2>1. terminated = FALSE /\ control = 0 /\ disturbed = {}
    BY DEF Init
  <2>2. control \in 0..MaxControl
    BY <2>1, FrontendAssumption
  <2> QED
    BY <2>1, <2>2 DEF ControlTypes
<1> QED
  BY <1>1, <1>2, <1>3, <1>4, <1>5, <1>6, <1>7, <1>8, <1>9 DEF Types

\* What a step leaves alone keeps its type.
LEMMA TypesKept ==
  ASSUME Types, UNCHANGED <<kind, id, req>>
  PROVE  /\ ScenarioTypes'
         /\ UNCHANGED pc => PcTypes'
         /\ UNCHANGED streamers => TableTypes'
         /\ UNCHANGED stream => StreamTypes'
         /\ UNCHANGED held => HeldTypes'
         /\ UNCHANGED <<reasons, answer>> => AnswerTypes'
         /\ UNCHANGED made => MadeTypes'
         /\ UNCHANGED engine => EngineTypes'
         /\ UNCHANGED instrs => InstrTypes'
         /\ UNCHANGED <<outputs, syncQueue>> => QueueTypes'
         /\ UNCHANGED <<terminated, control, disturbed>> => ControlTypes'
<1>1. UNCHANGED held => HeldTypes'
  BY DEF Types, HeldTypes, Gens
<1>2. UNCHANGED made => MadeTypes'
  BY DEF Types, MadeTypes, Gens
<1>3. UNCHANGED <<reasons, answer>> => AnswerTypes'
  BY DEF Types, AnswerTypes, Gens
<1> QED
  BY <1>1, <1>2, <1>3 DEF Types, ScenarioTypes, PcTypes, TableTypes, StreamTypes, EngineTypes,
     InstrTypes, QueueTypes, ControlTypes

\* _generate keeps the table, the instructions and the streams well typed.
LEMMA GenerateTypes ==
  ASSUME Types, NEW c \in Calls, Generate(c)
  PROVE  /\ PcTypes' /\ TableTypes' /\ StreamTypes' /\ InstrTypes'
         /\ disturbed' \subseteq Calls
         /\ syncQueue' \in {syncQueue, <<>>} /\ (kind = "async" => syncQueue' = syncQueue)
<1>0. id[c] \in Ids
  BY ScenarioFacts DEF Types
<1>1. ErrorItem \in Items
  BY DEF FinalChunk, Chunks, ErrorItem, Item, Items
<1>2. [op |-> "add", id |-> id[c], call |-> c] \in Instrs
  BY <1>0 DEF Instrs
<1>3. PcTypes'
  BY DEF Generate, Types, PcTypes, Ended
<1>4. disturbed' \subseteq Calls
  BY DEF Generate, Types, ControlTypes, NowDisturbed, Disturbs
<1>5. InstrTypes'
  BY <1>2 DEF Generate, GenerateAsync, GenerateSync, Types, InstrTypes
<1>6. StreamTypes'
  <2>1. <<ErrorItem>> \in Seq(Items)
    BY <1>1
  <2> QED
    BY <2>1 DEF Generate, GenerateAsync, GenerateSync, Types, StreamTypes
<1>7. TableTypes'
  BY <1>0 DEF Generate, GenerateAsync, GenerateSync, Types, TableTypes
<1>8. syncQueue' \in {syncQueue, <<>>} /\ (kind = "async" => syncQueue' = syncQueue)
  BY DEF Generate, GenerateAsync, GenerateSync
<1> QED
  BY <1>3, <1>4, <1>5, <1>6, <1>7, <1>8

\* Before it is known to the engine a call begins, or it only changes its answer.
Prelude(c) ==
  /\ UNCHANGED <<kind, id, req, held, reasons, engine, made, outputs, terminated, control>>
  /\ pc[c] \in {"idle", "echo"}
  /\ \/ Generate(c) /\ UNCHANGED answer
     \/ /\ UNCHANGED <<streamers, instrs, stream, syncQueue, disturbed>>
        /\ \E x \in {"echo", "unused"} : pc' = [pc EXCEPT ![c] = x]
        /\ \E a : answer' = [answer EXCEPT ![c] = a]

\* Every way to start a call is a Prelude step.
LEMMA StartIsPrelude ==
  ASSUME Types, NEW c \in Calls, Start(c) \/ Refuse(c) \/ AfterEcho(c)
  PROVE  Prelude(c)
<1>1. CASE Start(c)
  <2>1. CASE req[c].echo
    BY <1>1, <2>1 DEF Start, Prelude, ctrlVars
  <2>2. CASE ~req[c].echo
    BY <1>1, <2>2 DEF Start, Prelude, ctrlVars
  <2> QED
    BY <2>1, <2>2
<1>2. CASE Refuse(c)
  <2>1. answer' = [answer EXCEPT ![c] = answer[c]]
    BY <1>2 DEF Refuse, Types, AnswerTypes
  <2> QED
    BY <1>2, <2>1 DEF Refuse, Prelude, ctrlVars, engineVars
<1>3. CASE AfterEcho(c)
  BY <1>3 DEF AfterEcho, Prelude, ctrlVars
<1> QED
  BY <1>1, <1>2, <1>3

\* A start keeps the types.
LEMMA StartTypes ==
  ASSUME Types, NEW c \in Calls, Prelude(c)
  PROVE  Types'
<1>1. UNCHANGED <<kind, id, req, held, reasons, engine, made, outputs, terminated, control>>
  BY DEF Prelude
<1>2. CASE Generate(c) /\ UNCHANGED answer
  <2>1. QueueTypes'
    <3>1. <<>> \in Seq(Batches) /\ kind' = kind /\ outputs' = outputs
      BY <1>1
    <3>2. syncQueue' \in {syncQueue, <<>>} /\ (kind = "async" => syncQueue' = syncQueue)
      BY <1>2, GenerateTypes
    <3> QED
      BY <3>1, <3>2 DEF Types, QueueTypes
  <2>2. ControlTypes'
    BY <1>1, <1>2, GenerateTypes DEF Types, ControlTypes
  <2> QED
    BY <1>1, <1>2, <2>1, <2>2, GenerateTypes, TypesKept DEF Types
<1>3. CASE ~(Generate(c) /\ UNCHANGED answer)
  <2>1. PcTypes'
    BY <1>1, <1>3 DEF Prelude, Types, PcTypes, Unfinished, Ended
  <2>2. AnswerTypes'
    <3>1. PICK a : answer' = [answer EXCEPT ![c] = a]
      BY <1>3 DEF Prelude
    <3>2. answer' = [d \in Calls |-> answer'[d]]
      BY <3>1 DEF Types, AnswerTypes
    <3> QED
      BY <1>1, <3>2 DEF Types, AnswerTypes, Gens
  <2> QED
    BY <1>1, <1>3, <2>1, <2>2, TypesKept DEF Types, Prelude
<1> QED
  BY <1>2, <1>3

\* A function on an initial segment of the numbers is a sequence.
LEMMA FunctionIsSeq ==
  ASSUME NEW S, NEW n \in Nat, NEW f \in [1..n -> S]
  PROVE  f \in Seq(S) /\ Len(f) = n
<1>1. f \in Seq(S)
  BY SeqDef
<1>2. DOMAIN f = 1..n
  OBVIOUS
<1> QED
  BY <1>1, <1>2, LenProperties

\* What an engine puts out for a call.
EmittedFor(c, b) ==
  /\ b \in Batches /\ b.call = c /\ b.id = id[c] /\ b.outs \in [Gens(c) -> Outs]

\* An output with one entry per generation is a batch of its call.
LEMMA EmittedIsBatch ==
  ASSUME ScenarioTypes, NEW c \in Calls, NEW b, NEW outs \in [Gens(c) -> Outs], NEW final \in BOOLEAN,
         b = [id |-> id[c], call |-> c, final |-> final, outs |-> outs]
  PROVE  EmittedFor(c, b)
<1>1. req[c].n \in Nat /\ id[c] \in Ids
  BY ScenarioFacts
<1>2. outs \in Seq(Outs)
  BY <1>1, FunctionIsSeq DEF Gens
<1> QED
  BY <1>1, <1>2 DEF EmittedFor, Batches

\* The engine emits b for the request of c that it holds.
Emission(c, b) ==
  /\ EmittedFor(c, b) /\ engine[id[c]] = c
  /\ engine' = [engine EXCEPT ![id[c]] = IF b.final THEN None ELSE c]
  /\ outputs' = Append(outputs, b)
  /\ MadeTypes'

\* The first instruction is done.
Pops(op) == instrs # <<>> /\ Head(instrs).op = op /\ instrs' = Tail(instrs)

\* What a step of the engine does to instructions, requests and outputs.
EngineDoes ==
  \/ RunAdd
  \/ /\ UNCHANGED <<engine, outputs, made>>
     /\ Pops("reset") \/ (Pops("abort") /\ engine[Head(instrs).id] = None)
  \/ \E c \in Calls, b \in Batches :
       /\ Emission(c, b)
       /\ UNCHANGED instrs \/ (Pops("abort") /\ b.final /\ Head(instrs).id = id[c])

\* An abort emits the last output of the call.
LEMMA AbortEmits ==
  ASSUME Types, Named, UNCHANGED <<kind, id, req>>, NEW i \in Ids, engine[i] # None,
         engine' = [engine EXCEPT ![i] = None],
         outputs' = Append(outputs, AbortOutput(engine[i])),
         made' = Abandon(engine[i])
  PROVE  /\ engine[i] \in Calls /\ i = id[engine[i]]
         /\ AbortOutput(engine[i]) \in Batches /\ AbortOutput(engine[i]).final
         /\ Emission(engine[i], AbortOutput(engine[i]))
<1> DEFINE c == engine[i]
           b == AbortOutput(c)
<1>1. c \in Calls /\ id[c] = i
  BY DEF Types, EngineTypes, Named
<1> HIDE DEF c
<1>2. b.final = TRUE /\ EmittedFor(c, b)
  <2>1. Output(<<>>, "abort") \in Outs
    BY DEF Outs, Output, Texts
  <2>2. [g \in Gens(c) |-> Output(<<>>, "abort")] \in [Gens(c) -> Outs]
    BY <2>1
  <2>3. EmittedFor(c, b)
    BY <1>1, <2>2, EmittedIsBatch DEF Types, AbortOutput
  <2> QED
    BY <2>3 DEF AbortOutput
<1>3. MadeTypes'
  <2> DEFINE m == [g \in Gens(c) |-> [tokens |-> made[c][g].tokens, over |-> TRUE,
                                       again |-> made[c][g].again \/ made[c][g].over]]
  <2>1. made' = [made EXCEPT ![c] = m]
    BY <1>1 DEF Abandon, c, Types, MadeTypes
  <2>2. m \in [Gens(c) -> [tokens : 0..req[c].max_tokens, over : BOOLEAN, again : BOOLEAN]]
    <3>1. made[c] \in [Gens(c) -> [tokens : 0..req[c].max_tokens, over : BOOLEAN, again : BOOLEAN]]
      BY <1>1 DEF Types, MadeTypes
    <3> QED
      BY <3>1
  <2> HIDE DEF m
  <2>3. \A d \in Calls : made'[d] = IF d = c THEN m ELSE made[d]
    BY <1>1, <2>1 DEF Types, MadeTypes
  <2>4. made' = [d \in Calls |-> made'[d]]
    BY <1>1, <2>1 DEF Types, MadeTypes
  <2>5. \A d \in Calls : Gens(d)' = Gens(d)
    BY DEF Gens
  <2>6. ASSUME NEW d \in Calls PROVE made'[d] \in [Gens(d) -> [tokens : 0..req[d].max_tokens, over : BOOLEAN, again : BOOLEAN]]
    BY <2>2, <2>3 DEF Types, MadeTypes
  <2> QED
    BY <2>4, <2>5, <2>6 DEF MadeTypes
<1>4. Emission(c, b)
  BY <1>1, <1>2, <1>3 DEF Emission, c
<1>5. b \in Batches
  BY <1>2 DEF EmittedFor
<1> QED
  BY <1>1, <1>2, <1>4, <1>5 DEF c

\* What a step makes of the request of c, with a move for each generation.
StepOutput(c, move, final) ==
  [id |-> id[c], call |-> c, final |-> final,
   outs |-> [g \in Gens(c) |->
      Output(IF move[g] \in {"token", "last"} THEN <<Token(c, g, made[c][g].tokens + 1)>> ELSE <<>>,
             IF move[g] \in {"last", "stop"} THEN "stop" ELSE NoReason)]]

StepMoves(c, move, final) ==
  /\ move \in [Gens(c) -> {"nothing", "token", "last", "stop"}] /\ final \in BOOLEAN
  /\ \A g \in Gens(c) : move[g] \in Moves(c, g)
  /\ made' = [made EXCEPT ![c] = [g \in Gens(c) |-> Advance(made[c][g], move[g])]]
  /\ final = \A g \in Gens(c) : made'[c][g].over

\* A step emits an output of the call.
LEMMA StepEmits ==
  ASSUME Types, Named, UNCHANGED <<kind, id, req>>, NEW i \in Ids, EngineStep(i)
  PROVE  /\ engine[i] \in Calls /\ i = id[engine[i]] /\ UNCHANGED instrs
         /\ \E move, final :
              LET b == StepOutput(engine[i], move, final)
              IN  StepMoves(engine[i], move, final) /\ Emission(engine[i], b) /\ b \in Batches
<1> DEFINE c == engine[i]
<1>1. c \in Calls /\ id[c] = i /\ UNCHANGED instrs
  BY DEF Types, EngineTypes, Named, EngineStep
<1>0. made[c] \in [Gens(c) -> [tokens : 0..req[c].max_tokens, over : BOOLEAN, again : BOOLEAN]]
  BY <1>1 DEF Types, MadeTypes
<1>2. PICK move \in [Gens(c) -> {"nothing", "token", "last", "stop"}] :
        /\ \A g \in Gens(c) : move[g] \in Moves(c, g)
        /\ made' = [made EXCEPT ![c] = [g \in Gens(c) |-> Advance(@[g], move[g])]]
        /\ LET over == \A g \in Gens(c) : made'[c][g].over IN
             /\ outputs' = Append(outputs,
                  [id |-> i, call |-> c, final |-> over,
                   outs |-> [g \in Gens(c) |->
                      Output(IF move[g] \in {"token", "last"}
                             THEN <<Token(c, g, made[c][g].tokens + 1)>> ELSE <<>>,
                             IF move[g] \in {"last", "stop"} THEN "stop" ELSE NoReason)]])
             /\ engine' = [engine EXCEPT ![i] = IF over THEN None ELSE c]
  BY DEF EngineStep
<1> DEFINE final == \A g \in Gens(c) : made'[c][g].over
           b == StepOutput(c, move, final)
           m == [g \in Gens(c) |-> Advance(made[c][g], move[g])]
<1> HIDE DEF c
<1>3. made' = [made EXCEPT ![c] = m]
  BY <1>1, <1>2 DEF Types, MadeTypes
<1>4. m \in [Gens(c) -> [tokens : 0..req[c].max_tokens, over : BOOLEAN, again : BOOLEAN]]
  <2> SUFFICES ASSUME NEW g \in Gens(c)
               PROVE  Advance(made[c][g], move[g]) \in [tokens : 0..req[c].max_tokens, over : BOOLEAN, again : BOOLEAN]
    BY Zenon
  <2>1. made[c][g] \in [tokens : 0..req[c].max_tokens, over : BOOLEAN, again : BOOLEAN]
    BY <1>0
  <2>2. move[g] \in Moves(c, g) /\ req[c].max_tokens \in Nat
    BY <1>1, <1>2, ScenarioFacts DEF Types
  <2>3. /\ made[c][g].tokens \in 0..req[c].max_tokens
        /\ made[c][g].over \in BOOLEAN /\ made[c][g].again \in BOOLEAN
    BY <2>1
  <2>4. move[g] \in {"token", "last"} => made[c][g].tokens + 1 \in 0..req[c].max_tokens
    BY <2>2, <2>3 DEF Moves
  <2> QED
    BY <2>3, <2>4 DEF Advance
<1> HIDE DEF m
<1>5. \A d \in Calls : made'[d] = IF d = c THEN m ELSE made[d]
  BY <1>1, <1>3 DEF Types, MadeTypes
<1>6. MadeTypes'
  <2>1. made' = [d \in Calls |-> made'[d]]
    BY <1>1, <1>3 DEF Types, MadeTypes
  <2>2. \A d \in Calls : Gens(d)' = Gens(d)
    BY DEF Gens
  <2>3. ASSUME NEW d \in Calls PROVE made'[d] \in [Gens(d) -> [tokens : 0..req[d].max_tokens, over : BOOLEAN, again : BOOLEAN]]
    BY <1>4, <1>5 DEF Types, MadeTypes
  <2> QED
    BY <2>1, <2>2, <2>3 DEF MadeTypes
<1>7. EmittedFor(c, b)
  <2>1. ASSUME NEW g \in Gens(c)
        PROVE  Output(IF move[g] \in {"token", "last"} THEN <<Token(c, g, made[c][g].tokens + 1)>> ELSE <<>>,
                      IF move[g] \in {"last", "stop"} THEN "stop" ELSE NoReason) \in Outs
    <3>1. made[c][g].tokens + 1 \in Nat /\ g \in Nat
      <4>1. made[c][g] \in [tokens : 0..req[c].max_tokens, over : BOOLEAN, again : BOOLEAN]
        BY <1>0
      <4> QED
        BY <1>1, <4>1, ScenarioFacts DEF Types, Gens
    <3>2. Token(c, g, made[c][g].tokens + 1) \in Toks
      BY <1>1, <3>1 DEF Token, Toks
    <3>3. <<Token(c, g, made[c][g].tokens + 1)>> \in Texts /\ <<>> \in Texts
      BY <3>2 DEF Texts
    <3> QED
      BY <3>3 DEF Outs, Output
  <2>2. final \in BOOLEAN
    OBVIOUS
  <2> HIDE DEF final
  <2>3. b.outs \in [Gens(c) -> Outs]
    BY <2>1 DEF StepOutput
  <2> QED
    BY <1>1, <2>2, <2>3, EmittedIsBatch DEF StepOutput, Types
<1>8. StepMoves(c, move, final)
  <2>1. final \in BOOLEAN
    OBVIOUS
  <2>2. final = \A g \in Gens(c) : made'[c][g].over
    OBVIOUS
  <2> HIDE DEF final
  <2> QED
    BY <1>2, <1>3, <2>1, <2>2 DEF StepMoves, m
<1>9. outputs' = Append(outputs, b) /\ engine' = [engine EXCEPT ![id[c]] = IF final THEN None ELSE c]
  BY <1>1, <1>2 DEF StepOutput
<1>10. b.final = final
  BY DEF StepOutput
<1>11. Emission(c, b)
  <2> HIDE DEF b, final
  <2> QED
    BY <1>1, <1>6, <1>7, <1>9, <1>10 DEF Emission, c
<1>12. b \in Batches
  BY <1>7 DEF EmittedFor
<1> HIDE DEF final
<1> QED
  BY <1>1, <1>8, <1>11, <1>12 DEF c

\* The engine does one of three things.
LEMMA EngineCases ==
  ASSUME Types, Named, Engine
  PROVE  /\ UNCHANGED <<kind, callVars, streamers, syncQueue, ctrlVars, disturbed>>
         /\ EngineDoes
<1>1. UNCHANGED <<kind, callVars, streamers, syncQueue, ctrlVars, disturbed>>
  BY DEF Engine
<1>2. UNCHANGED <<kind, id, req>>
  BY <1>1 DEF callVars
<1> SUFFICES EngineDoes
  BY <1>1
<1>3. CASE RunAdd
  BY <1>3 DEF EngineDoes
<1>4. CASE RunAbort
  <2> DEFINE i == Head(instrs).id
             c == engine[i]
  <2>1. Pops("abort") /\ i \in Ids
    <3>1. Pops("abort")
      BY <1>4 DEF RunAbort, Pops
    <3>2. Head(instrs) \in Instrs
      BY <3>1 DEF Pops, Types, InstrTypes
    <3> QED
      BY <3>1, <3>2 DEF Instrs
  <2>2. CASE c = None
    <3>1. UNCHANGED <<engine, outputs, made>>
      BY <1>4, <2>2 DEF RunAbort
    <3> QED
      BY <2>1, <2>2, <3>1 DEF EngineDoes
  <2>3. CASE c # None
    <3>1. /\ engine' = [engine EXCEPT ![id[c]] = None]
          /\ outputs' = Append(outputs, AbortOutput(c))
          /\ made' = Abandon(c)
      BY <1>4, <2>3 DEF RunAbort
    <3>2. id[c] = i
      BY <2>1, <2>3 DEF Named
    <3> HIDE DEF i
    <3>3. /\ c \in Calls /\ i = id[c] /\ AbortOutput(c) \in Batches /\ AbortOutput(c).final
          /\ Emission(c, AbortOutput(c))
      BY <1>2, <2>1, <2>3, <3>1, <3>2, AbortEmits
    <3> HIDE DEF c
    <3> QED
      BY <2>1, <3>3 DEF EngineDoes, i
  <2> QED
    BY <2>2, <2>3
<1>5. CASE RunReset
  <2>1. CASE \A i \in Ids : engine[i] = None
    <3>1. Pops("reset") /\ UNCHANGED <<engine, outputs, made>>
      BY <1>5, <2>1 DEF RunReset, Pops
    <3> QED
      BY <3>1 DEF EngineDoes
  <2>2. CASE ~\A i \in Ids : engine[i] = None
    <3>1. PICK i \in Ids : /\ engine[i] # None
                           /\ engine' = [engine EXCEPT ![i] = None]
                           /\ outputs' = Append(outputs, AbortOutput(engine[i]))
                           /\ made' = Abandon(engine[i])
                           /\ UNCHANGED instrs
      BY <1>5, <2>2 DEF RunReset
    <3> DEFINE c == engine[i]
    <3>2. /\ c \in Calls /\ AbortOutput(c) \in Batches /\ Emission(c, AbortOutput(c))
      BY <1>2, <3>1, AbortEmits
    <3> HIDE DEF c
    <3> QED
      BY <3>1, <3>2 DEF EngineDoes
  <2> QED
    BY <2>1, <2>2
<1>6. ASSUME NEW i \in Ids, EngineStep(i) PROVE EngineDoes
  <2> DEFINE c == engine[i]
  <2>1. c \in Calls /\ UNCHANGED instrs
    BY <1>2, <1>6, StepEmits
  <2>2. PICK move, final : LET b == StepOutput(c, move, final)
                           IN  Emission(c, b) /\ b \in Batches
    BY <1>2, <1>6, StepEmits
  <2> HIDE DEF c
  <2> QED
    BY <2>1, <2>2 DEF EngineDoes
<1> QED
  BY <1>1, <1>3, <1>4, <1>5, <1>6 DEF Engine

\* A step of the engine keeps the types.
LEMMA EngineKeepsTypes ==
  ASSUME Types, Named, Engine
  PROVE  Types'
<1>1. UNCHANGED <<kind, id, req, pc, stream, held, reasons, answer, streamers, syncQueue,
                  terminated, control, disturbed>>
  BY EngineCases DEF callVars, ctrlVars
<1>2. EngineDoes
  BY EngineCases
<1>3. CASE RunAdd
  <2>1. EngineTypes'
    <3>1. Head(instrs) \in Instrs
      BY <1>3 DEF RunAdd, Types, InstrTypes
    <3> QED
      BY <1>3, <3>1 DEF RunAdd, Types, EngineTypes, Instrs
  <2>2. InstrTypes'
    BY <1>3 DEF RunAdd, Types, InstrTypes
  <2> QED
    BY <1>1, <1>3, <2>1, <2>2, TypesKept DEF RunAdd, Types
<1>4. CASE /\ UNCHANGED <<engine, outputs, made>>
           /\ Pops("reset") \/ Pops("abort")
  <2>1. InstrTypes'
    BY <1>4 DEF Pops, Types, InstrTypes
  <2> QED
    BY <1>1, <1>4, <2>1, TypesKept DEF Types
<1>5. ASSUME NEW c \in Calls, NEW b \in Batches, Emission(c, b), UNCHANGED instrs \/ Pops("abort")
      PROVE  Types'
  <2>1. InstrTypes'
    BY <1>5 DEF Pops, Types, InstrTypes
  <2>2. EngineTypes'
    BY <1>5 DEF Emission, Types, EngineTypes
  <2>3. QueueTypes'
    BY <1>1, <1>5 DEF Emission, Types, QueueTypes
  <2>4. MadeTypes'
    BY <1>5 DEF Emission
  <2> QED
    BY <1>1, <2>1, <2>2, <2>3, <2>4, TypesKept DEF Types
<1> QED
  BY <1>2, <1>3, <1>4, <1>5 DEF EngineDoes

----------------------------------------------------------------------------
(* Texts                                                                   *)

\* What a text streamer keeps and what it emits.
LEMMA TextFacts ==
  ASSUME Types, NEW c \in Calls, NEW b \in Batches, NEW keep \in Keeps(c, b.outs)
  PROVE  /\ Detokenized(c, b.outs, keep) \in Chunks
         /\ NewHeld(c, b.outs, keep) = [held EXCEPT ![c] = NewHeld(c, b.outs, keep)[c]]
         /\ NewHeld(c, b.outs, keep)[c] \in [Gens(c) -> Texts]
<1> DEFINE outs == b.outs
           Z == Zipped(c, outs)
           Out(g) == Output(Emitted(c, outs, g, keep[g]), outs[g].reason)
<1>1. outs \in Seq(Outs) /\ req[c].n \in Nat
  BY ScenarioFacts DEF Types, Batches
<1> HIDE DEF outs
<1>2. /\ Z \subseteq Gens(c) /\ Z \subseteq DOMAIN outs
      /\ \E n \in Nat : Z = 1..n
  BY <1>1 DEF Zipped, SmallerOf, Gens
<1>3. ASSUME NEW g \in Z
      PROVE  /\ Pending(c, outs, g) \in Texts /\ outs[g] \in Outs
             /\ Emitted(c, outs, g, keep[g]) \in Texts /\ Kept(c, outs, g, keep[g]) \in Texts
  <2>1. outs[g] \in Outs /\ held[c][g] \in Texts
    BY <1>1, <1>2 DEF Types, HeldTypes
  <2>2. outs[g].text \in Texts
    BY <2>1 DEF Outs
  <2> DEFINE P == Pending(c, outs, g)
             E == Emitted(c, outs, g, keep[g])
  <2>3. P \in Texts
    BY <2>1, <2>2 DEF Pending, Texts
  <2>4. keep[g] \in Nat /\ keep[g] <= Len(P)
    BY FrontendAssumption DEF Keeps, outs
  <2>5. Len(P) \in Nat
    BY <2>3 DEF Texts
  <2>6. E \in Texts /\ Len(E) <= Len(P)
    <3> HIDE DEF P
    <3>1. SubSeq(P, 1, Len(P) - keep[g]) \in Texts /\ Len(SubSeq(P, 1, Len(P) - keep[g])) <= Len(P)
      BY <2>3, <2>4, <2>5 DEF Texts
    <3>2. E = P \/ E = SubSeq(P, 1, Len(P) - keep[g])
      BY DEF Emitted, P
    <3> HIDE DEF E
    <3>3. CASE E = P
      BY <2>3, <2>5, <3>3
    <3>4. CASE E = SubSeq(P, 1, Len(P) - keep[g])
      BY <3>1, <3>4, Zenon
    <3> QED
      BY <3>2, <3>3, <3>4
  <2>7. Kept(c, outs, g, keep[g]) \in Texts
    <3> HIDE DEF P
    <3>1. SubSeq(P, Len(P) - keep[g] + 1, Len(P)) \in Texts
      BY <2>3, <2>4, <2>5 DEF Texts
    <3> QED
      BY <3>1 DEF Kept, P
  <2> QED
    BY <2>1, <2>3, <2>6, <2>7
<1>4. ASSUME NEW g \in Z PROVE Out(g) \in Outs
  BY <1>3 DEF Outs, Output
<1>5. [g \in Z |-> Out(g)] \in Seq(Outs)
  <2>1. PICK n \in Nat : Z = 1..n
    BY <1>2
  <2> HIDE DEF Out
  <2>2. [g \in Z |-> Out(g)] \in [1..n -> Outs]
    BY <1>4, <2>1
  <2> QED
    BY <2>2, FunctionIsSeq
<1>6. Detokenized(c, outs, keep) \in Chunks
  BY <1>5 DEF Detokenized, Chunk, Chunks
<1> DEFINE h == [g \in Gens(c) |-> IF g \in Z THEN Kept(c, outs, g, keep[g]) ELSE held[c][g]]
<1>7. h \in [Gens(c) -> Texts]
  <2>1. held[c] \in [Gens(c) -> Texts]
    BY DEF Types, HeldTypes
  <2> HIDE DEF Z
  <2> QED
    BY <1>3, <2>1
<1>8. NewHeld(c, outs, keep) = [held EXCEPT ![c] = h]
  BY DEF NewHeld, Types, HeldTypes
<1> HIDE DEF h
<1>9. NewHeld(c, outs, keep)[c] = h
  BY <1>8 DEF Types, HeldTypes
<1> QED
  BY <1>6, <1>7, <1>8, <1>9 DEF outs

\* What a batch adds to a stream are stream items.
LEMMA ItemsAreItems ==
  ASSUME NEW chunk \in Chunks, NEW final
  PROVE  ItemsOf(chunk, final) \in Seq(Items)
<1>1. FinalChunk \in Chunks
  BY DEF FinalChunk, Chunks
<1>2. ChunkItem(chunk) \in Items /\ ChunkItem(FinalChunk) \in Items /\ StopItem \in Items
  BY <1>1 DEF ChunkItem, StopItem, Item, Items
<1> QED
  BY <1>2 DEF ItemsOf

\* Call c takes the batch b.
Takes(c, b) ==
  \E keep \in Keeps(c, b.outs) :
    /\ stream' = [stream EXCEPT ![c] = stream[c] \o ItemsOf(Detokenized(c, b.outs, keep), b.final)]
    /\ held' = NewHeld(c, b.outs, keep)

\* Taking a batch keeps streams and held tokens well typed.
LEMMA TakesTypes ==
  ASSUME Types, UNCHANGED <<kind, id, req>>, NEW c \in Calls, NEW b \in Batches, Takes(c, b)
  PROVE  StreamTypes' /\ HeldTypes'
<1>1. PICK keep \in Keeps(c, b.outs) :
        /\ stream' = [stream EXCEPT ![c] = stream[c] \o ItemsOf(Detokenized(c, b.outs, keep), b.final)]
        /\ held' = NewHeld(c, b.outs, keep)
  BY DEF Takes
<1>2. /\ Detokenized(c, b.outs, keep) \in Chunks
      /\ held' = [held EXCEPT ![c] = held'[c]]
      /\ held'[c] \in [Gens(c) -> Texts]
  BY <1>1, TextFacts
<1>3. StreamTypes'
  <2> DEFINE new == ItemsOf(Detokenized(c, b.outs, keep), b.final)
  <2>1. new \in Seq(Items)
    BY <1>2, ItemsAreItems
  <2> HIDE DEF new
  <2>2. stream[c] \o new \in Seq(Items)
    BY <2>1 DEF Types, StreamTypes
  <2>3. stream' = [stream EXCEPT ![c] = stream[c] \o new]
    BY <1>1 DEF new
  <2> QED
    BY <2>2, <2>3 DEF Types, StreamTypes
<1>4. HeldTypes'
  <2>1. held' = [d \in Calls |-> held'[d]] /\ \A d \in Calls : d # c => held'[d] = held[d]
    BY <1>2 DEF Types, HeldTypes
  <2>2. \A d \in Calls : Gens(d)' = Gens(d)
    BY DEF Gens
  <2>3. ASSUME NEW d \in Calls PROVE held'[d] \in [Gens(d) -> Texts]
    BY <1>2, <2>1 DEF Types, HeldTypes
  <2> QED
    BY <2>1, <2>2, <2>3 DEF HeldTypes
<1> QED
  BY <1>3, <1>4

\* The oldest output is taken by a call, or by nobody.
HandsOut ==
  /\ Coming # <<>> /\ Coming' = Tail(Coming)
  /\ UNCHANGED <<kind, id, req, pc, reasons, answer, instrs, engine, made, terminated, control, disturbed>>
  /\ LET b == Head(Coming) IN
       \/ /\ kind = "async" /\ streamers[b.id] = None
          /\ UNCHANGED <<stream, held, streamers>>
       \/ \E c \in Calls :
            /\ kind = "async" /\ streamers[b.id] = c
            /\ Takes(c, b) /\ streamers' = PopFinished(b.id, b.final)
       \/ \E c \in Calls :
            /\ kind = "sync" /\ pc[c] = "run" /\ stream[c] = <<>>
            /\ Takes(c, b) /\ UNCHANGED streamers

\* The queue of MLCEngine gets what the engine has put out.
Forwards ==
  /\ Coming' = Coming
  /\ UNCHANGED <<kind, callVars, streamers, instrs, engine, made, ctrlVars, disturbed>>

\* What is on its way is a sequence of batches.
LEMMA ComingTypes ==
  ASSUME Types
  PROVE  /\ Coming \in Seq(Batches)
         /\ syncQueue = <<>> => Coming = outputs
         /\ Len(Coming) \in Nat /\ DOMAIN Coming = 1..Len(Coming)
         /\ \A p \in DOMAIN Coming : Coming[p] \in Batches /\ Coming[p].call \in Calls
                                    /\ Coming[p].id \in Ids
<1>1. /\ Coming \in Seq(Batches)
      /\ syncQueue = <<>> => Coming = outputs
  BY DEF Types, QueueTypes, Coming
<1>2. Len(Coming) \in Nat /\ DOMAIN Coming = 1..Len(Coming)
  BY <1>1, LenProperties
<1>3. \A p \in DOMAIN Coming : Coming[p] \in Batches
  BY <1>1
<1> QED
  BY <1>1, <1>2, <1>3 DEF Batches

\* A callback hands out the oldest batch, or forwards it to the common queue.
LEMMA DeliverCases ==
  ASSUME Types, Deliver
  PROVE  QueueTypes' /\ (HandsOut \/ Forwards)
<1> DEFINE b == Head(outputs)
<1>1. /\ UNCHANGED <<kind, id, req, pc, reasons, answer, instrs, engine, made, terminated, control, disturbed>>
      /\ outputs # <<>> /\ outputs' = Tail(outputs)
  BY DEF Deliver, ctrlVars
<1>2. b \in Batches /\ outputs \in Seq(Batches) /\ outputs' \in Seq(Batches) /\ syncQueue \in Seq(Batches)
  BY <1>1 DEF Types, QueueTypes
<1>3. CASE AsyncCallback(b)
  <2>1. kind = "async" /\ syncQueue = <<>> /\ syncQueue' = <<>>
    BY <1>3 DEF AsyncCallback, Types, QueueTypes
  <2>2. QueueTypes'
    BY <1>2, <2>1 DEF QueueTypes
  <2>3. Coming = outputs /\ Coming' = outputs'
    BY <1>2, <2>1 DEF Coming
  <2>4. Coming # <<>> /\ Coming' = Tail(Coming) /\ Head(Coming) = b
    BY <1>1, <2>3
  <2> HIDE DEF b
  <2>5. CASE streamers[b.id] = None
    <3>1. UNCHANGED <<stream, held, streamers>>
      BY <1>3, <2>5 DEF AsyncCallback
    <3> QED
      BY <1>1, <2>1, <2>2, <2>4, <2>5, <3>1 DEF HandsOut
  <2>6. CASE streamers[b.id] # None
    <3> DEFINE c == streamers[b.id]
    <3>1. c \in Calls
      BY <1>2, <2>6 DEF Types, TableTypes, Batches
    <3>2. /\ streamers' = PopFinished(b.id, b.final)
          /\ \E keep \in Keeps(c, b.outs) :
             /\ stream' = [stream EXCEPT ![c] = @ \o ItemsOf(Detokenized(c, b.outs, keep), b.final)]
             /\ held' = NewHeld(c, b.outs, keep)
      BY <1>3, <2>6 DEF AsyncCallback
    <3> HIDE DEF c
    <3>3. Takes(c, b)
      <4>1. PICK keep \in Keeps(c, b.outs) :
             /\ stream' = [stream EXCEPT ![c] = @ \o ItemsOf(Detokenized(c, b.outs, keep), b.final)]
             /\ held' = NewHeld(c, b.outs, keep)
        BY <3>2
      <4>2. stream' = [stream EXCEPT ![c] = stream[c] \o ItemsOf(Detokenized(c, b.outs, keep), b.final)]
        BY <3>1, <4>1 DEF Types, StreamTypes
      <4> QED
        BY <4>1, <4>2 DEF Takes
    <3> QED
      BY <1>1, <2>1, <2>2, <2>4, <3>1, <3>2, <3>3 DEF HandsOut, c
  <2> QED
    BY <2>5, <2>6
<1>4. CASE SyncCallback(b)
  <2>1. kind = "sync" /\ syncQueue' = Append(syncQueue, b) /\ UNCHANGED <<stream, held, streamers>>
    BY <1>4 DEF SyncCallback
  <2>2. QueueTypes'
    BY <1>1, <1>2, <2>1 DEF QueueTypes
  <2>3. Append(syncQueue, b) \o Tail(outputs) = syncQueue \o outputs
    BY <1>1, <1>2
  <2>4. Coming' = Coming
    BY <1>1, <2>1, <2>3 DEF Coming
  <2> QED
    BY <1>1, <2>1, <2>2, <2>4 DEF Forwards, callVars, ctrlVars
<1> QED
  BY <1>3, <1>4 DEF Deliver

\* A text streamer of call c raises on the oldest batch.
Raises(c) ==
  /\ Coming # <<>> /\ Coming' = Tail(Coming)
  /\ UNCHANGED <<kind, id, req, stream, held, reasons, answer, engine, made, terminated, control, disturbed>>
  /\ kind = "sync" /\ pc[c] = "run" /\ stream[c] = <<>> /\ PutRaises(c, Head(Coming).outs)
  /\ pc' = [pc EXCEPT ![c] = "failed"] /\ DoAbort(id[c])

\* Taking from the common queue hands out the oldest batch, or raises.
LEMMA SyncGetCases ==
  ASSUME Types, NEW c \in Calls, SyncGet(c)
  PROVE  QueueTypes' /\ (HandsOut \/ Raises(c))
<1> DEFINE b == Head(syncQueue)
<1>1. /\ UNCHANGED <<kind, id, req, reasons, answer, engine, made, outputs, terminated, control, disturbed>>
      /\ kind = "sync" /\ pc[c] = "run" /\ stream[c] = <<>>
      /\ syncQueue # <<>> /\ syncQueue' = Tail(syncQueue)
  BY DEF SyncGet, ctrlVars
<1>2. outputs \in Seq(Batches) /\ syncQueue \in Seq(Batches) /\ syncQueue' \in Seq(Batches) /\ b \in Batches
  BY <1>1 DEF Types, QueueTypes
<1>3. QueueTypes'
  BY <1>1, <1>2 DEF QueueTypes
<1>4. Coming # <<>> /\ Coming' = Tail(Coming) /\ Head(Coming) = b
  <2>1. /\ syncQueue \o outputs # <<>> /\ Tail(syncQueue) \o outputs = Tail(syncQueue \o outputs)
        /\ Head(syncQueue \o outputs) = Head(syncQueue)
    BY <1>1, <1>2
  <2> QED
    BY <1>1, <2>1 DEF Coming
<1>5. CASE ~PutRaises(c, b.outs)
  <2>0. UNCHANGED <<pc, streamers, instrs>>
    BY <1>5 DEF SyncGet
  <2>1. PICK keep \in Keeps(c, b.outs) :
          /\ stream' = [stream EXCEPT ![c] = ItemsOf(Detokenized(c, b.outs, keep), b.final)]
          /\ held' = NewHeld(c, b.outs, keep)
    BY <1>5 DEF SyncGet
  <2> DEFINE new == ItemsOf(Detokenized(c, b.outs, keep), b.final)
  <2>2. new \in Seq(Items)
    BY <1>2, <2>1, TextFacts, ItemsAreItems
  <2> HIDE DEF new
  <2>3. stream[c] \o new = new
    BY <1>1, <2>2
  <2>4. Takes(c, b)
    BY <2>1, <2>3 DEF Takes, new
  <2> HIDE DEF b
  <2> QED
    BY <1>1, <1>3, <1>4, <2>0, <2>4 DEF HandsOut
<1>6. CASE PutRaises(c, b.outs)
  <2>1. pc' = [pc EXCEPT ![c] = "failed"] /\ DoAbort(id[c]) /\ UNCHANGED <<stream, held>>
    BY <1>6 DEF SyncGet
  <2> HIDE DEF b
  <2> QED
    BY <1>1, <1>3, <1>4, <1>6, <2>1 DEF Raises
<1> QED
  BY <1>5, <1>6

\* Handing out a batch keeps the types.
LEMMA HandsOutTypes ==
  ASSUME Types, QueueTypes', HandsOut
  PROVE  Types'
<1> DEFINE b == Head(Coming)
<1>1. /\ UNCHANGED <<kind, id, req, pc, reasons, answer, instrs, engine, made, terminated, control, disturbed>>
      /\ b \in Batches
  BY ComingTypes DEF HandsOut
<1>2. ASSUME NEW c \in Calls, Takes(c, b), TableTypes' PROVE Types'
  BY <1>1, <1>2, TakesTypes, TypesKept DEF Types
<1>3. b.id \in Ids
  BY <1>1 DEF Batches
<1> HIDE DEF b
<1>4. streamers' = PopFinished(b.id, b.final) => TableTypes'
  BY <1>3 DEF PopFinished, Types, TableTypes
<1>5. UNCHANGED streamers => TableTypes'
  BY DEF Types, TableTypes
<1>6. UNCHANGED <<stream, held, streamers>> => Types'
  BY <1>1, TypesKept DEF Types
<1> QED
  BY <1>2, <1>4, <1>5, <1>6 DEF HandsOut, b

\* Forwarding a batch keeps the types.
LEMMA ForwardsTypes ==
  ASSUME Types, QueueTypes', Forwards
  PROVE  Types'
BY TypesKept DEF Forwards, Types, callVars, ctrlVars

----------------------------------------------------------------------------
(* Leaving and control                                                     *)

\* An abort keeps the table and the instructions well typed.
LEMMA DoAbortTypes ==
  ASSUME Types, UNCHANGED <<kind, id, req>>, NEW i \in Ids, DoAbort(i)
  PROVE  TableTypes' /\ InstrTypes'
<1>1. [op |-> "abort", id |-> i, call |-> None] \in Instrs
  BY DEF Instrs
<1>2. InstrTypes'
  BY <1>1 DEF DoAbort, WithAbort, Types, InstrTypes
<1>3. TableTypes'
  BY DEF DoAbort, Types, TableTypes
<1> QED
  BY <1>2, <1>3

\* A text streamer that raises keeps the types.
LEMMA RaisesTypes ==
  ASSUME Types, QueueTypes', NEW c \in Calls, Raises(c)
  PROVE  Types'
<1>1. /\ UNCHANGED <<kind, id, req, stream, held, reasons, answer, engine, made, terminated, control, disturbed>>
      /\ pc' = [pc EXCEPT ![c] = "failed"] /\ DoAbort(id[c]) /\ id[c] \in Ids
  BY ScenarioFacts DEF Raises, Types
<1>2. PcTypes'
  BY <1>1 DEF Types, PcTypes, Ended
<1> QED
  BY <1>1, <1>2, DoAbortTypes, TypesKept DEF Types

\* A consumer takes the next item of its stream.
Consumes(c) ==
  /\ UNCHANGED <<kind, id, req, held, syncQueue, outputs, engine, made, terminated, control, disturbed>>
  /\ pc[c] = "run" /\ stream[c] # <<>> /\ stream' = [stream EXCEPT ![c] = Tail(stream[c])]
  /\ AnswerTypes'
  /\ LET k == Head(stream[c]).kind IN
       \/ k = "chunk" /\ UNCHANGED <<pc, streamers, instrs>>
       \/ k = "chunk" /\ pc' = [pc EXCEPT ![c] = "closing"] /\ UNCHANGED <<streamers, instrs>> /\ kind = "async"
       \/ k = "chunk" /\ pc' = [pc EXCEPT ![c] = "failed"] /\ DoAbort(id[c]) /\ kind = "sync"
       \/ k = "stop" /\ pc' = [pc EXCEPT ![c] = "done"] /\ UNCHANGED <<streamers, instrs>>
       \/ k = "stop" /\ pc' = [pc EXCEPT ![c] = "failed"] /\ UNCHANGED <<streamers, instrs>>
       \/ k = "error" /\ pc' = [pc EXCEPT ![c] = "failed"] /\ DoAbort(id[c])

\* What a step of a consumer does to the calls and the instructions.
LEMMA ConsumeCases ==
  ASSUME Types, NEW c \in Calls, Consume(c)
  PROVE  Consumes(c)
<1> DEFINE item == Head(stream[c])
<1>1. /\ UNCHANGED <<kind, id, req, held, syncQueue, outputs, engine, made, terminated, control, disturbed>>
      /\ pc[c] = "run" /\ stream[c] # <<>> /\ stream' = [stream EXCEPT ![c] = Tail(stream[c])]
  BY DEF Consume, ctrlVars, Types, StreamTypes
<1>2. AnswerTypes /\ \A d \in Calls : Gens(d)' = Gens(d)
  BY <1>1 DEF Types, Gens
<1>3. (\E a : answer' = [answer EXCEPT ![c] = a]) \/ UNCHANGED answer
  BY DEF Consume, ConsumeChunk, ConsumeStop, ConsumeError
<1>4. \/ UNCHANGED reasons
      \/ \E outs : reasons' = [reasons EXCEPT ![c] = NewReasons(req[c], reasons[c], outs)]
  <2>1. \A x : [reasons EXCEPT ![c] = NewReasons(req[c], @, x)]
                = [reasons EXCEPT ![c] = NewReasons(req[c], reasons[c], x)]
    BY <1>2 DEF AnswerTypes
  <2> QED
    BY <2>1 DEF Consume, ConsumeChunk, ConsumeStop, ConsumeError
<1>5. AnswerTypes'
  <2>1. answer' = [d \in Calls |-> answer'[d]]
    <3>1. CASE UNCHANGED answer
      BY <1>2, <3>1 DEF AnswerTypes
    <3>2. ASSUME NEW a, answer' = [answer EXCEPT ![c] = a] PROVE answer' = [d \in Calls |-> answer'[d]]
      BY <1>2, <3>2 DEF AnswerTypes
    <3> QED
      BY <1>3, <3>1, <3>2
  <2>2. /\ reasons' = [d \in Calls |-> reasons'[d]]
        /\ \A d \in Calls : DOMAIN reasons'[d] = Gens(d)
    <3>1. CASE UNCHANGED reasons
      BY <1>2, <3>1 DEF AnswerTypes
    <3>2. ASSUME NEW outs, reasons' = [reasons EXCEPT ![c] = NewReasons(req[c], reasons[c], outs)]
          PROVE  /\ reasons' = [d \in Calls |-> reasons'[d]]
                 /\ \A d \in Calls : DOMAIN reasons'[d] = Gens(d)
      <4> DEFINE new == NewReasons(req[c], reasons[c], outs)
      <4>1. DOMAIN new = Gens(c)
        BY <1>2 DEF NewReasons, AnswerTypes
      <4> HIDE DEF new
      <4> QED
        BY <1>2, <3>2, <4>1 DEF AnswerTypes, new
    <3> QED
      BY <1>4, <3>1, <3>2
  <2> QED
    BY <1>2, <2>1, <2>2 DEF AnswerTypes
<1>6. CASE item.kind = "chunk"
  BY <1>1, <1>5, <1>6 DEF Consume, ConsumeChunk, Consumes
<1>7. CASE item.kind = "stop"
  BY <1>1, <1>5, <1>7 DEF Consume, ConsumeStop, Consumes
<1>8. CASE item.kind = "error"
  BY <1>1, <1>5, <1>8 DEF Consume, ConsumeError, Consumes
<1> QED
  BY <1>6, <1>7, <1>8 DEF Consume

\* A call is left.
Left(c) ==
  /\ UNCHANGED <<kind, id, req, stream, held, reasons, answer, syncQueue, outputs, engine, made,
                 terminated, control, disturbed>>
  /\ \/ /\ pc[c] \in {"run", "closing"} /\ pc' = [pc EXCEPT ![c] = "closed"] /\ DoAbort(id[c])
     \/ /\ pc[c] = "run" /\ pc' = [pc EXCEPT ![c] = "closing"] /\ kind = "async"
        /\ UNCHANGED <<streamers, instrs>>
     \/ /\ pc[c] = "echo" /\ pc' = [pc EXCEPT ![c] = "unused"]
        /\ UNCHANGED <<streamers, instrs>>

\* The three ways to leave a call before its end.
LEMMA LeaveCases ==
  ASSUME NEW c \in Calls, Cancel(c) \/ Drop(c) \/ Close(c)
  PROVE  Left(c)
<1>1. CASE Cancel(c)
  BY <1>1 DEF Cancel, Left, ctrlVars
<1>2. CASE Drop(c)
  BY <1>2 DEF Drop, Left, ctrlVars
<1>3. CASE Close(c)
  BY <1>3 DEF Close, Left, ctrlVars
<1> QED
  BY <1>1, <1>2, <1>3

\* Consuming and leaving keep the types.
LEMMA ConsumesTypes ==
  ASSUME Types, NEW c \in Calls, Consumes(c) \/ Left(c)
  PROVE  Types'
<1>1. UNCHANGED <<kind, id, req, held, syncQueue, outputs, engine, made, terminated, control, disturbed>>
  BY DEF Consumes, Left
<1>2. id[c] \in Ids
  BY ScenarioFacts DEF Types
<1>3. TableTypes' /\ InstrTypes'
  <2>1. UNCHANGED <<streamers, instrs>> \/ DoAbort(id[c])
    BY DEF Consumes, Left
  <2> QED
    BY <1>1, <1>2, <2>1, DoAbortTypes, TypesKept
<1>4. PcTypes'
  <2>1. UNCHANGED pc \/ \E x \in Unfinished \cup Ended : pc' = [pc EXCEPT ![c] = x]
    BY DEF Consumes, Left, Unfinished, Ended
  <2> QED
    BY <2>1 DEF Types, PcTypes
<1>5. StreamTypes'
  <2>1. UNCHANGED stream \/ (stream[c] # <<>> /\ stream' = [stream EXCEPT ![c] = Tail(stream[c])])
    BY DEF Consumes, Left
  <2>2. stream[c] # <<>> => Tail(stream[c]) \in Seq(Items)
    BY DEF Types, StreamTypes
  <2> QED
    BY <2>1, <2>2 DEF Types, StreamTypes
<1>6. AnswerTypes'
  BY <1>1, TypesKept DEF Consumes, Left
<1> QED
  BY <1>1, <1>3, <1>4, <1>5, <1>6, TypesKept DEF Types

\* abort, reset and terminate keep the types.
LEMMA ControlKeepsTypes ==
  ASSUME Types, (\E i \in Ids : Abort(i)) \/ Reset \/ Terminate
  PROVE  Types'
<1>1. ASSUME NEW i \in Ids, Abort(i) PROVE Types'
  <2>1. /\ UNCHANGED <<kind, id, req, pc, stream, held, reasons, answer, syncQueue, outputs, engine, made, terminated>>
        /\ DoAbort(i) /\ control < MaxControl /\ control' = control + 1
        /\ disturbed' = disturbed \cup ({streamers[i]} \ {None})
    BY <1>1 DEF Abort, callVars
  <2>2. ControlTypes'
    BY <2>1, FrontendAssumption DEF Types, ControlTypes, TableTypes
  <2> QED
    BY <2>1, <2>2, DoAbortTypes, TypesKept DEF Types
<1>2. CASE Reset
  <2> DEFINE x == [op |-> "reset", id |-> CHOOSE i \in Ids : TRUE, call |-> None]
  <2>1. /\ UNCHANGED <<kind, id, req, pc, stream, held, reasons, answer, streamers, syncQueue, outputs, engine,
                       made, terminated, disturbed>>
        /\ instrs' = Append(instrs, x) /\ control < MaxControl /\ control' = control + 1
    BY <1>2 DEF Reset, callVars
  <2>2. ControlTypes'
    BY <2>1, FrontendAssumption DEF Types, ControlTypes
  <2>3. x \in Instrs
    BY FrontendAssumption DEF Instrs
  <2> HIDE DEF x
  <2>4. InstrTypes'
    BY <2>1, <2>3 DEF Types, InstrTypes
  <2> QED
    BY <2>1, <2>2, <2>4, TypesKept DEF Types
<1>3. CASE Terminate
  <2>1. /\ UNCHANGED <<kind, id, req, pc, stream, held, reasons, answer, streamers, syncQueue, outputs, engine,
                       made, instrs, disturbed>>
        /\ terminated' = TRUE /\ control < MaxControl /\ control' = control + 1
    BY <1>3 DEF Terminate, callVars, engineVars
  <2>2. ControlTypes'
    BY <2>1, FrontendAssumption DEF Types, ControlTypes
  <2> QED
    BY <2>1, <2>2, TypesKept DEF Types
<1> QED
  BY <1>1, <1>2, <1>3

----------------------------------------------------------------------------
(* Instructions, requests and outputs                                      *)

\* An instruction that adds nothing is queued: what was queued stays, and an abort
\* makes up for a listener that leaves.
LEMMA AppendOrphans ==
  ASSUME Types, UNCHANGED <<kind, id, req, engine>>,
         NEW x \in Instrs, x.op # "add", instrs' = Append(instrs, x)
  PROVE  /\ \A p \in DOMAIN instrs' : (p \in DOMAIN instrs /\ instrs'[p] = instrs[p]) \/ instrs'[p].op # "add"
         /\ \A c, p : p \in DOMAIN instrs' /\ AddOf(c, p)' <=> p \in DOMAIN instrs /\ AddOf(c, p)
         /\ \A c \in Calls : Orphanless(c) /\ (Listened(c) => Listened(c)' \/ (x.op = "abort" /\ x.id = id[c]))
                                  => Orphanless(c)'
<1>1. /\ DOMAIN instrs = 1..Len(instrs) /\ Len(instrs) \in Nat /\ DOMAIN instrs' = 1..(Len(instrs) + 1)
      /\ \A p \in DOMAIN instrs : instrs'[p] = instrs[p]
      /\ instrs'[Len(instrs) + 1] = x
  BY DEF Types, InstrTypes
<1>2. \A c, p : p \in DOMAIN instrs' /\ AddOf(c, p)' <=> p \in DOMAIN instrs /\ AddOf(c, p)
  BY <1>1 DEF AddOf
<1>3. \A i, p : AbortAfter(i, p) => AbortAfter(i, p)'
  BY <1>1 DEF AbortAfter
<1>4. \A i : \A p \in 0..Len(instrs) : x.op = "abort" /\ x.id = i => AbortAfter(i, p)'
  BY <1>1 DEF AbortAfter
<1>5. \A p \in DOMAIN instrs' : (p \in DOMAIN instrs /\ instrs'[p] = instrs[p]) \/ instrs'[p].op # "add"
  BY <1>1
<1>8. ASSUME NEW c \in Calls, Orphanless(c), Listened(c) => Listened(c)' \/ (x.op = "abort" /\ x.id = id[c])
      PROVE  Orphanless(c)'
  <2>1. ASSUME NEW p \in 0..Len(instrs), Listened(c) \/ AbortAfter(id[c], p)
        PROVE  Listened(c)' \/ AbortAfter(id[c], p)'
    BY <1>3, <1>4, <1>8, <2>1
  <2>2. ASSUME NEW p \in DOMAIN instrs', AddOf(c, p)' PROVE Listened(c)' \/ AbortAfter(id[c], p)'
    BY <1>1, <1>2, <1>8, <2>1, <2>2 DEF Orphanless
  <2> QED
    BY <1>1, <1>8, <2>1, <2>2 DEF Orphanless, AbortAfter
<1> QED
  BY <1>2, <1>5, <1>8

\* An instruction that adds nothing is queued, and nothing else happens.
LEMMA AppendInstr ==
  ASSUME Types, Named, UNCHANGED <<kind, id, req, engine>>, Coming' = Coming,
         NEW x \in Instrs, x.op # "add", instrs' = Append(instrs, x)
  PROVE  /\ Named'
         /\ \A c \in Calls : /\ Through(c) => Through(c)'
                             /\ Present(c)' => Present(c)
                             /\ Present(c) => Present(c)'
                             /\ Owed(c) => Owed(c)'
                             /\ Orphanless(c) /\ (Listened(c) => Listened(c)' \/ (x.op = "abort" /\ x.id = id[c]))
                                  => Orphanless(c)'
<1>1. /\ \A p \in DOMAIN instrs' : (p \in DOMAIN instrs /\ instrs'[p] = instrs[p]) \/ instrs'[p].op # "add"
      /\ \A c, p : p \in DOMAIN instrs' /\ AddOf(c, p)' <=> p \in DOMAIN instrs /\ AddOf(c, p)
  BY AppendOrphans
<1>5. Named'
  <2>1. ASSUME NEW p \in DOMAIN instrs', instrs'[p].op = "add"
        PROVE  instrs'[p].call \in Calls /\ instrs'[p].id = id[instrs'[p].call]
    BY <1>1, <2>1 DEF Named
  <2>2. \A d \in Calls : Gens(d)' = Gens(d)
    BY DEF Gens
  <2>3. \A p \in DOMAIN Coming : Coming[p].call \in Calls
    BY ComingTypes
  <2> QED
    BY <2>1, <2>2, <2>3 DEF Named
<1>6. ASSUME NEW c \in Calls
      PROVE  /\ Queued(c)' <=> Queued(c)
             /\ Emits(c)' <=> Emits(c)
             /\ EndsFor(c)' <=> EndsFor(c)
  BY <1>1 DEF Queued, Emits, EndsFor
<1>7. ASSUME NEW c \in Calls
      PROVE  /\ Through(c) => Through(c)'
             /\ Present(c)' <=> Present(c)
             /\ Owed(c) => Owed(c)'
  <2>1. (Present(c)' <=> Present(c)) /\ (Owed(c) => Owed(c)')
    BY <1>6 DEF Present, Owed
  <2>2. ASSUME Through(c) PROVE Through(c)'
    <3>1. \A p, q \in DOMAIN instrs' : AddOf(c, p)' /\ AddOf(c, q)' => p = q
      BY <1>1, <2>2 DEF Through
    <3> QED
      BY <1>6, <2>2, <3>1 DEF Through
  <2> QED
    BY <2>1, <2>2
<1> QED
  BY <1>5, <1>7, AppendOrphans

\* The first instruction is done: the others move up.
LEMMA TailInstr ==
  ASSUME Types, NEW op, Pops(op)
  PROVE  /\ Len(instrs) \in Nat \ {0} /\ DOMAIN instrs = 1..Len(instrs) /\ DOMAIN instrs' = 1..(Len(instrs) - 1)
         /\ \A p \in DOMAIN instrs' : instrs'[p] = instrs[p + 1] /\ p + 1 \in DOMAIN instrs
         /\ \A c : \A p \in DOMAIN instrs' : AddOf(c, p)' => AddOf(c, p + 1)
         /\ \A i : \A p \in Nat : AbortAfter(i, p + 1) => AbortAfter(i, p)'
         /\ instrs[1] = Head(instrs) /\ instrs[1].op = op /\ instrs[1] \in Instrs
<1>1. /\ instrs \in Seq(Instrs) /\ instrs # <<>> /\ instrs' = Tail(instrs) /\ Head(instrs).op = op
  BY DEF Pops, Types, InstrTypes
<1>2. /\ Len(instrs) \in Nat \ {0} /\ DOMAIN instrs = 1..Len(instrs) /\ DOMAIN instrs' = 1..(Len(instrs) - 1)
      /\ \A p \in DOMAIN instrs' : instrs'[p] = instrs[p + 1] /\ p + 1 \in DOMAIN instrs
      /\ instrs[1] = Head(instrs) /\ instrs[1].op = op /\ instrs[1] \in Instrs
  BY <1>1
<1>3. \A c : \A p \in DOMAIN instrs' : AddOf(c, p)' => AddOf(c, p + 1)
  BY <1>2 DEF AddOf
<1>4. ASSUME NEW i, NEW p \in Nat, AbortAfter(i, p + 1)
      PROVE  AbortAfter(i, p)'
  <2>1. PICK q \in DOMAIN instrs : q > p + 1 /\ instrs[q].op = "abort" /\ instrs[q].id = i
    BY <1>4 DEF AbortAfter
  <2>2. q - 1 \in DOMAIN instrs' /\ q - 1 > p /\ instrs'[q - 1] = instrs[q]
    BY <1>2, <2>1
  <2> QED
    BY <2>1, <2>2 DEF AbortAfter
<1> QED
  BY <1>2, <1>3, <1>4

\* Names are right after a step whose new instructions are old ones.
LEMMA NamedKept ==
  ASSUME Types, Named, UNCHANGED <<kind, id, req>>,
         \A p \in DOMAIN instrs' : \E q \in DOMAIN instrs : instrs'[p] = instrs[q],
         \A i \in Ids : engine'[i] # None => id[engine'[i]] = i,
         \A p \in DOMAIN Coming' :
            \/ \E q \in DOMAIN Coming : Coming'[p] = Coming[q]
            \/ \E c \in Calls : EmittedFor(c, Coming'[p])
  PROVE  Named'
<1>1. ASSUME NEW p \in DOMAIN instrs', instrs'[p].op = "add"
      PROVE  instrs'[p].call \in Calls /\ instrs'[p].id = id[instrs'[p].call]
  BY <1>1 DEF Named
<1>2. ASSUME NEW p \in DOMAIN Coming'
      PROVE  (Coming[p].id = id[Coming[p].call] /\ DOMAIN Coming[p].outs = Gens(Coming[p].call))'
  <2>1. \A d \in Calls : Gens(d)' = Gens(d)
    BY DEF Gens
  <2>2. CASE \E q \in DOMAIN Coming : Coming'[p] = Coming[q]
    BY <2>1, <2>2, ComingTypes DEF Named
  <2>3. CASE \E c \in Calls : EmittedFor(c, Coming'[p])
    BY <2>1, <2>3 DEF EmittedFor
  <2> QED
    BY <2>2, <2>3
<1> QED
  BY <1>1, <1>2 DEF Named

\* The request of a queued call is added.
LEMMA AddKeeps ==
  ASSUME Types, Named, InOrder, UNCHANGED <<kind, id, req, syncQueue>>, RunAdd,
         UNCHANGED <<streamers, pc>>
  PROVE  /\ Named'
         /\ \A c \in Calls : Through(c)'
         /\ \A c \in Calls : Present(c)' => Present(c)
         /\ \A c \in Calls : Orphanless(c) => Orphanless(c)'
         /\ \A c \in Calls : Owed(c) =>
              Owed(c)' \/ \E e \in Calls \ {c} : id[e] = id[c] /\ Present(e)
<1>1. Pops("add")
  BY DEF RunAdd, Pops
<1>2. /\ Len(instrs) \in Nat \ {0} /\ DOMAIN instrs = 1..Len(instrs) /\ DOMAIN instrs' = 1..(Len(instrs) - 1)
      /\ \A p \in DOMAIN instrs' : instrs'[p] = instrs[p + 1] /\ p + 1 \in DOMAIN instrs
      /\ \A c : \A p \in DOMAIN instrs' : AddOf(c, p)' => AddOf(c, p + 1)
      /\ \A i : \A p \in Nat : AbortAfter(i, p + 1) => AbortAfter(i, p)'
      /\ instrs[1] = Head(instrs) /\ instrs[1].op = "add"
  BY <1>1, TailInstr
<1>3. PICK e \in Calls : /\ e = instrs[1].call /\ instrs[1].id = id[e] /\ id[e] \in Ids
                          /\ AddOf(e, 1) /\ 1 \in DOMAIN instrs
  BY <1>2, ScenarioFacts DEF Named, AddOf, Types
<1>4. engine' = [engine EXCEPT ![id[e]] = e]
  BY <1>2, <1>3 DEF RunAdd
<1>5. Coming' = Coming
  BY DEF RunAdd, Coming
<1>6. \A i \in Ids : engine'[i] = IF i = id[e] THEN e ELSE engine[i]
  BY <1>3, <1>4 DEF Types, EngineTypes
<1>7. \A c \in Calls : id[c] \in Ids
  BY ScenarioFacts DEF Types
<1>8. Named'
  BY <1>2, <1>5, <1>6, NamedKept DEF Named
<1>9. \A c \in Calls : Queued(c)' => Queued(c) /\ c # e
  <2> SUFFICES ASSUME NEW c \in Calls, Queued(c)' PROVE Queued(c) /\ c # e
    OBVIOUS
  <2>1. PICK p \in DOMAIN instrs' : AddOf(c, p)'
    BY DEF Queued
  <2>2. p + 1 \in DOMAIN instrs /\ AddOf(c, p + 1) /\ p + 1 # 1
    BY <1>2, <2>1
  <2>3. c # e
    BY <1>3, <2>2 DEF InOrder, Through
  <2> QED
    BY <2>2, <2>3 DEF Queued
<1>10. \A c \in Calls : (Emits(c)' <=> Emits(c)) /\ (EndsFor(c)' <=> EndsFor(c))
  BY <1>5 DEF Emits, EndsFor
<1>11. Queued(e) /\ ~Emits(e) /\ engine[id[e]] # e
  BY <1>3 DEF Queued, InOrder, Through
<1>12. ASSUME NEW c \in Calls PROVE Through(c)'
  <2>1. \A p, q \in DOMAIN instrs' : AddOf(c, p)' /\ AddOf(c, q)' => p = q
    BY <1>2 DEF InOrder, Through
  <2>2. Queued(c)' => engine'[id[c]] # c /\ ~Emits(c)'
    BY <1>6, <1>7, <1>9, <1>10 DEF InOrder, Through
  <2>3. ASSUME NEW p \in DOMAIN Coming, Coming[p].call = c, Coming[p].final
        PROVE  /\ engine'[id[c]] # c
               /\ \A q \in DOMAIN Coming : Coming[q].call = c => q <= p
    <3>1. c # e
      BY <1>11, <2>3 DEF Emits
    <3> QED
      BY <1>6, <1>7, <2>3, <3>1 DEF InOrder, Through
  <2> QED
    BY <1>5, <2>1, <2>2, <2>3 DEF Through
<1>13. \A c \in Calls : Present(c)' => Present(c)
  BY <1>6, <1>7, <1>9, <1>10, <1>11 DEF Present
<1>14. ASSUME NEW c \in Calls, Orphanless(c) PROVE Orphanless(c)'
  <2>1. Listened(c) => Listened(c)'
    BY DEF Listened
  <2>2. ASSUME engine'[id[c]] = c PROVE Listened(c)' \/ AbortAfter(id[c], 0)'
    <3>1. CASE c = e
      <4>1. Listened(c) \/ AbortAfter(id[c], 1)
        BY <1>3, <1>14, <3>1 DEF Orphanless
      <4> QED
        BY <1>2, <2>1, <4>1
    <3>2. CASE c # e
      <4>1. engine[id[c]] = c
        BY <1>6, <1>7, <2>2, <3>2
      <4>2. Listened(c) \/ AbortAfter(id[c], 0)
        BY <1>14, <4>1 DEF Orphanless
      <4>3. AbortAfter(id[c], 0) => AbortAfter(id[c], 0 + 1)
        BY <1>2 DEF AbortAfter
      <4> QED
        BY <1>2, <2>1, <4>2, <4>3
    <3> QED
      BY <3>1, <3>2
  <2>3. ASSUME NEW p \in DOMAIN instrs', AddOf(c, p)' PROVE Listened(c)' \/ AbortAfter(id[c], p)'
    BY <1>2, <1>14, <2>1, <2>3 DEF Orphanless
  <2> QED
    BY <2>2, <2>3 DEF Orphanless
<1>15. ASSUME NEW c \in Calls, Owed(c), ~Owed(c)' PROVE \E x \in Calls \ {c} : id[x] = id[c] /\ Present(x)
  <2>1. Owed(e)'
    BY <1>3, <1>6 DEF Owed
  <2>2. ASSUME NEW p \in DOMAIN instrs, AddOf(c, p) PROVE FALSE
    <3>1. p # 1
      BY <1>3, <1>15, <2>1, <2>2 DEF AddOf
    <3>2. p - 1 \in DOMAIN instrs' /\ instrs'[p - 1] = instrs[p]
      BY <1>2, <3>1
    <3> QED
      BY <1>15, <2>2, <3>2 DEF Owed, Queued, AddOf
  <2>3. engine[id[c]] = c
    BY <1>10, <1>15, <2>2 DEF Owed, Queued
  <2>4. id[c] = id[e] /\ c # e
    BY <1>6, <1>7, <1>15, <2>1, <2>3 DEF Owed
  <2> QED
    BY <1>3, <1>11, <2>4 DEF Present
<1> QED
  BY <1>8, <1>12, <1>13, <1>14, <1>15

\* The instructions are left alone, or the first one, which adds nothing, is done; an
\* abort leaves nothing in the engine under its id.
Shortens ==
  \/ UNCHANGED instrs
  \/ Pops("reset")
  \/ Pops("abort") /\ engine'[Head(instrs).id] = None

\* A listener stays, and a request that the engine holds was there before.
HoldsOn(c) == (Listened(c) => Listened(c)') /\ (engine'[id[c]] = c => engine[id[c]] = c)

\* What is queued for a call stays queued, and its abort does.
LEMMA ShortensKeeps ==
  ASSUME Types, UNCHANGED <<kind, id, req>>, Shortens
  PROVE  /\ \A p \in DOMAIN instrs' : \E q \in DOMAIN instrs : instrs'[p] = instrs[q]
         /\ \A c \in Calls : Queued(c)' <=> Queued(c)
         /\ \A c \in Calls : (\A p, q \in DOMAIN instrs : AddOf(c, p) /\ AddOf(c, q) => p = q)
              => (\A p, q \in DOMAIN instrs' : AddOf(c, p)' /\ AddOf(c, q)' => p = q)
         /\ \A c \in Calls : Orphanless(c) /\ HoldsOn(c) => Orphanless(c)'
<1>1. CASE UNCHANGED instrs
  <2>1. /\ \A c, p : AddOf(c, p)' <=> AddOf(c, p)
        /\ \A i, p : AbortAfter(i, p)' <=> AbortAfter(i, p)
    BY <1>1 DEF AddOf, AbortAfter
  <2>2. \A c \in Calls : Queued(c)' <=> Queued(c)
    BY <1>1, <2>1 DEF Queued
  <2>3. \A p \in DOMAIN instrs' : \E q \in DOMAIN instrs : instrs'[p] = instrs[q]
    BY <1>1
  <2>4. ASSUME NEW c \in Calls, Orphanless(c), HoldsOn(c) PROVE Orphanless(c)'
    BY <1>1, <2>1, <2>4 DEF Orphanless, HoldsOn
  <2> QED
    BY <1>1, <2>1, <2>2, <2>3, <2>4
<1>2. ASSUME NEW op \in {"reset", "abort"}, Pops(op), op = "abort" => engine'[Head(instrs).id] = None
      PROVE  /\ \A p \in DOMAIN instrs' : \E q \in DOMAIN instrs : instrs'[p] = instrs[q]
             /\ \A c \in Calls : Queued(c)' <=> Queued(c)
             /\ \A c \in Calls : (\A p, q \in DOMAIN instrs : AddOf(c, p) /\ AddOf(c, q) => p = q)
                  => (\A p, q \in DOMAIN instrs' : AddOf(c, p)' /\ AddOf(c, q)' => p = q)
             /\ \A c \in Calls : Orphanless(c) /\ HoldsOn(c) => Orphanless(c)'
  <2>1. /\ Len(instrs) \in Nat \ {0} /\ DOMAIN instrs = 1..Len(instrs) /\ DOMAIN instrs' = 1..(Len(instrs) - 1)
        /\ \A p \in DOMAIN instrs' : instrs'[p] = instrs[p + 1] /\ p + 1 \in DOMAIN instrs
        /\ \A c : \A p \in DOMAIN instrs' : AddOf(c, p)' => AddOf(c, p + 1)
        /\ \A i : \A p \in Nat : AbortAfter(i, p + 1) => AbortAfter(i, p)'
        /\ instrs[1] = Head(instrs) /\ instrs[1].op = op /\ instrs[1] \in Instrs
    BY <1>2, TailInstr
  <2>2. ASSUME NEW c \in Calls PROVE Queued(c)' <=> Queued(c)
    <3>1. ASSUME Queued(c)' PROVE Queued(c)
      BY <2>1, <3>1 DEF Queued
    <3>2. ASSUME NEW p \in DOMAIN instrs, AddOf(c, p) PROVE Queued(c)'
      <4>1. p # 1
        BY <2>1, <3>2 DEF AddOf
      <4>2. p - 1 \in DOMAIN instrs' /\ instrs'[p - 1] = instrs[p]
        BY <2>1, <4>1
      <4> QED
        BY <3>2, <4>2 DEF Queued, AddOf
    <3> QED
      BY <3>1, <3>2 DEF Queued
  <2>3. ASSUME NEW c \in Calls, \A p, q \in DOMAIN instrs : AddOf(c, p) /\ AddOf(c, q) => p = q,
               NEW p \in DOMAIN instrs', NEW q \in DOMAIN instrs', AddOf(c, p)', AddOf(c, q)'
        PROVE  p = q
    BY <2>1, <2>3
  <2>4. ASSUME NEW c \in Calls, Orphanless(c), HoldsOn(c)
        PROVE  Orphanless(c)'
    <3>1. ASSUME engine'[id[c]] = c PROVE Listened(c)' \/ AbortAfter(id[c], 0)'
      <4>1. CASE Listened(c)
        BY <2>4, <4>1 DEF HoldsOn
      <4>2. CASE ~Listened(c)
        <5>1. PICK q \in DOMAIN instrs : q > 0 /\ instrs[q].op = "abort" /\ instrs[q].id = id[c]
          BY <2>4, <3>1, <4>2 DEF Orphanless, AbortAfter, HoldsOn
        <5>2. q # 1
          BY <1>2, <2>1, <3>1, <5>1, FrontendAssumption
        <5>3. AbortAfter(id[c], 0 + 1)
          BY <2>1, <5>1, <5>2 DEF AbortAfter
        <5> QED
          BY <2>1, <5>3
      <4> QED
        BY <4>1, <4>2
    <3>2. ASSUME NEW p \in DOMAIN instrs', AddOf(c, p)' PROVE Listened(c)' \/ AbortAfter(id[c], p)'
      BY <2>1, <2>4, <3>2 DEF Orphanless, HoldsOn
    <3> QED
      BY <3>1, <3>2 DEF Orphanless
  <2>5. \A p \in DOMAIN instrs' : \E q \in DOMAIN instrs : instrs'[p] = instrs[q]
    BY <2>1
  <2>6. \A c \in Calls : (\A p, q \in DOMAIN instrs : AddOf(c, p) /\ AddOf(c, q) => p = q)
          => (\A p, q \in DOMAIN instrs' : AddOf(c, p)' /\ AddOf(c, q)' => p = q)
    BY <2>3
  <2>7. \A c \in Calls : Orphanless(c) /\ HoldsOn(c) => Orphanless(c)'
    BY <2>4
  <2> QED
    BY <2>2, <2>5, <2>6, <2>7
<1> QED
  BY <1>1, <1>2 DEF Shortens

\* Nothing else happens.
LEMMA PopKeeps ==
  ASSUME Types, Named, InOrder, UNCHANGED <<kind, id, req, engine>>, Coming' = Coming, Shortens
  PROVE  /\ Named'
         /\ \A c \in Calls : Through(c)'
         /\ \A c \in Calls : Present(c)' <=> Present(c)
         /\ \A c \in Calls : Owed(c) => Owed(c)'
<1>1. Named'
  BY ShortensKeeps, NamedKept DEF Named
<1>2. \A c \in Calls : /\ Emits(c)' <=> Emits(c)
                       /\ EndsFor(c)' <=> EndsFor(c)
                       /\ Queued(c)' <=> Queued(c)
  BY ShortensKeeps DEF Emits, EndsFor
<1>3. \A c \in Calls : Through(c)'
  BY <1>2, ShortensKeeps DEF InOrder, Through
<1>4. \A c \in Calls : (Present(c)' <=> Present(c)) /\ (Owed(c) => Owed(c)')
  BY <1>2 DEF Present, Owed
<1> QED
  BY <1>1, <1>3, <1>4

\* The engine emits an output.
LEMMA EmissionKeeps ==
  ASSUME Types, Named, InOrder, UNCHANGED <<kind, id, req, syncQueue>>, Shortens,
         NEW e \in Calls, NEW b \in Batches, Emission(e, b)
  PROVE  /\ Named'
         /\ \A c \in Calls : Through(c)'
         /\ \A c \in Calls : Present(c)' <=> Present(c)
         /\ \A c \in Calls : Owed(c) => Owed(c)'
         /\ \A c \in Calls : engine'[id[c]] = c => engine[id[c]] = c
<1>1. EmittedFor(e, b) /\ b.call = e /\ engine[id[e]] = e /\ id[e] \in Ids
  BY ScenarioFacts DEF Emission, EmittedFor, Types
<1>2. Coming' = Append(Coming, b)
  <2>1. syncQueue \o Append(outputs, b) = Append(syncQueue \o outputs, b)
    BY DEF Types, QueueTypes
  <2> QED
    BY <2>1 DEF Emission, Coming
<1>3. /\ Len(Coming) \in Nat /\ DOMAIN Coming = 1..Len(Coming) /\ DOMAIN Coming' = 1..(Len(Coming) + 1)
      /\ \A p \in DOMAIN Coming : Coming'[p] = Coming[p]
      /\ Coming'[Len(Coming) + 1] = b
  BY <1>2, ComingTypes
<1>4. \A i \in Ids : engine'[i] = IF i = id[e] THEN (IF b.final THEN None ELSE e) ELSE engine[i]
  BY <1>1 DEF Emission, Types, EngineTypes
<1>5. \A c \in Calls : id[c] \in Ids /\ c # None
  BY ScenarioFacts, FrontendAssumption DEF Types
<1>6. Named'
  <2>1. \A i \in Ids : engine'[i] # None => id[engine'[i]] = i
    BY <1>4 DEF Named
  <2>2. \A p \in DOMAIN Coming' :
            \/ \E q \in DOMAIN Coming : Coming'[p] = Coming[q]
            \/ \E c \in Calls : EmittedFor(c, Coming'[p])
    BY <1>1, <1>3
  <2> QED
    BY <2>1, <2>2, ShortensKeeps, NamedKept
<1>7. ASSUME NEW c \in Calls
      PROVE  (Emits(c)' <=> Emits(c) \/ c = e) /\ (EndsFor(c) \/ (c = e /\ b.final) => EndsFor(c)')
  BY <1>1, <1>3 DEF Emits, EndsFor
<1>8. \A c \in Calls : Queued(c)' <=> Queued(c)
  BY ShortensKeeps
<1>9. ~Queued(e)
  BY <1>1 DEF InOrder, Through
<1>10. \A c \in Calls : engine'[id[c]] = c => engine[id[c]] = c
  BY <1>1, <1>4, <1>5
<1>11. ASSUME NEW c \in Calls PROVE Present(c)' <=> Present(c)
  <2>1. CASE c = e
    BY <1>1, <1>7, <2>1 DEF Present
  <2>2. CASE c # e
    BY <1>1, <1>4, <1>5, <1>7, <1>8, <2>2 DEF Present
  <2> QED
    BY <2>1, <2>2
<1>12. ASSUME NEW c \in Calls PROVE Through(c)'
  <2>1. \A p, q \in DOMAIN instrs' : AddOf(c, p)' /\ AddOf(c, q)' => p = q
    BY ShortensKeeps DEF InOrder, Through
  <2>2. Queued(c)' => engine'[id[c]] # c /\ ~Emits(c)'
    BY <1>7, <1>8, <1>9, <1>10 DEF InOrder, Through
  <2>3. ASSUME NEW p \in DOMAIN Coming', Coming'[p].call = c, Coming'[p].final
        PROVE  /\ engine'[id[c]] # c
               /\ \A q \in DOMAIN Coming' : Coming'[q].call = c => q <= p
    <3>1. CASE p = Len(Coming) + 1
      BY <1>1, <1>3, <1>4, <1>5, <2>3, <3>1
    <3>2. CASE p # Len(Coming) + 1
      <4>1. p \in DOMAIN Coming /\ Coming[p].call = c /\ Coming[p].final
        BY <1>3, <2>3, <3>2
      <4>2. /\ engine[id[c]] # c
            /\ \A q \in DOMAIN Coming : Coming[q].call = c => q <= p
        BY <4>1 DEF InOrder, Through
      <4>3. c # e
        BY <1>1, <4>2
      <4> QED
        BY <1>1, <1>3, <1>10, <4>2, <4>3
    <3> QED
      BY <3>1, <3>2
  <2> QED
    BY <2>1, <2>2, <2>3 DEF Through
<1>13. ASSUME NEW c \in Calls, Owed(c) PROVE Owed(c)'
  <2>1. CASE c = e
    BY <1>1, <1>4, <1>7, <2>1 DEF Owed
  <2>2. CASE c # e
    BY <1>1, <1>4, <1>5, <1>7, <1>8, <1>13, <2>2 DEF Owed
  <2> QED
    BY <2>1, <2>2
<1> QED
  BY <1>6, <1>10, <1>11, <1>12, <1>13

\* The oldest output is taken away; an abort may be queued.
LEMMA TailComing ==
  ASSUME Types, Named, InOrder, UNCHANGED <<kind, id, req, engine>>,
         UNCHANGED instrs \/ \E x \in Instrs : x.op # "add" /\ instrs' = Append(instrs, x),
         Coming # <<>>, Coming' = Tail(Coming)
  PROVE  /\ Named'
         /\ \A c \in Calls : Through(c)'
         /\ \A c \in Calls : Present(c)' => Present(c)
         /\ \A c \in Calls : Owed(c) /\ (c # Head(Coming).call \/ ~Head(Coming).final) => Owed(c)'
         /\ Head(Coming).call \in Calls /\ Present(Head(Coming).call)
         /\ Head(Coming).final => \A c \in Calls : c = Head(Coming).call => ~Present(c)'
<1>1. Coming \in Seq(Batches)
  BY ComingTypes
<1>2. /\ Len(Coming) \in Nat \ {0} /\ DOMAIN Coming = 1..Len(Coming) /\ DOMAIN Coming' = 1..(Len(Coming) - 1)
      /\ \A p \in DOMAIN Coming' : Coming'[p] = Coming[p + 1] /\ p + 1 \in DOMAIN Coming
      /\ 1 \in DOMAIN Coming /\ Coming[1] = Head(Coming) /\ Coming[1].call \in Calls
  BY <1>1, ComingTypes
<1>0. /\ \A p \in DOMAIN instrs' : (p \in DOMAIN instrs /\ instrs'[p] = instrs[p]) \/ instrs'[p].op # "add"
      /\ \A c, p : p \in DOMAIN instrs' /\ AddOf(c, p)' <=> p \in DOMAIN instrs /\ AddOf(c, p)
  <2>1. CASE UNCHANGED instrs
    BY <2>1 DEF AddOf
  <2>2. CASE \E x \in Instrs : x.op # "add" /\ instrs' = Append(instrs, x)
    BY <2>2, AppendOrphans
  <2> QED
    BY <2>1, <2>2
<1>3. Named'
  <2>1. ASSUME NEW p \in DOMAIN instrs', instrs'[p].op = "add"
        PROVE  instrs'[p].call \in Calls /\ instrs'[p].id = id[instrs'[p].call]
    BY <1>0, <2>1 DEF Named
  <2>2. \A d \in Calls : Gens(d)' = Gens(d)
    BY DEF Gens
  <2>3. \A p \in DOMAIN Coming : Coming[p].call \in Calls
    BY ComingTypes
  <2>4. ASSUME NEW p \in DOMAIN Coming'
        PROVE  (Coming[p].id = id[Coming[p].call] /\ DOMAIN Coming[p].outs = Gens(Coming[p].call))'
    BY <1>2, <2>2, <2>3 DEF Named
  <2> QED
    BY <2>1, <2>4 DEF Named
<1>4. \A c \in Calls : Queued(c)' <=> Queued(c)
  BY <1>0 DEF Queued
<1>5. \A c \in Calls : Emits(c)' => Emits(c)
  BY <1>2 DEF Emits
<1>6. ASSUME NEW c \in Calls, EndsFor(c), c # Head(Coming).call \/ ~Head(Coming).final
      PROVE  EndsFor(c)'
  <2>1. PICK p \in DOMAIN Coming : Coming[p].call = c /\ Coming[p].final
    BY <1>6 DEF EndsFor
  <2>2. p # 1
    BY <1>2, <1>6, <2>1
  <2>3. p - 1 \in DOMAIN Coming' /\ Coming'[p - 1] = Coming[p]
    BY <1>2, <2>2
  <2> QED
    BY <2>1, <2>3 DEF EndsFor
<1>7. ASSUME NEW c \in Calls PROVE Through(c)'
  <2>1. \A p, q \in DOMAIN instrs' : AddOf(c, p)' /\ AddOf(c, q)' => p = q
    BY <1>0 DEF InOrder, Through
  <2>2. Queued(c)' => engine'[id[c]] # c /\ ~Emits(c)'
    BY <1>4, <1>5 DEF InOrder, Through
  <2>3. ASSUME NEW p \in DOMAIN Coming', Coming'[p].call = c, Coming'[p].final
        PROVE  /\ engine'[id[c]] # c
               /\ \A q \in DOMAIN Coming' : Coming'[q].call = c => q <= p
    <3>1. p + 1 \in DOMAIN Coming /\ Coming[p + 1].call = c /\ Coming[p + 1].final
      BY <1>2, <2>3
    <3>2. /\ engine[id[c]] # c
          /\ \A q \in DOMAIN Coming : Coming[q].call = c => q <= p + 1
      BY <3>1 DEF InOrder, Through
    <3> QED
      BY <1>2, <3>2
  <2> QED
    BY <2>1, <2>2, <2>3 DEF Through
<1>8. ASSUME Head(Coming).final, NEW c \in Calls, c = Head(Coming).call PROVE ~Present(c)'
  <2>1. /\ engine[id[c]] # c
        /\ \A q \in DOMAIN Coming : Coming[q].call = c => q <= 1
    BY <1>2, <1>8 DEF InOrder, Through
  <2>2. ~Queued(c)
    BY <1>2, <1>8 DEF InOrder, Through, Emits
  <2>3. ~Emits(c)'
    BY <1>2, <2>1 DEF Emits
  <2> QED
    BY <1>4, <2>1, <2>2, <2>3 DEF Present
<1>9. Emits(Head(Coming).call)
  BY <1>2 DEF Emits
<1> QED
  BY <1>2, <1>3, <1>4, <1>5, <1>6, <1>7, <1>8, <1>9 DEF Present, Owed

----------------------------------------------------------------------------
(* Counting                                                                *)

PresentIn(c) == {d \in Group(c) : Present(d)}
WaitingIn(c) == {d \in Group(c) : Waiting(d)}

\* A group is finite and stays the same.
LEMMA Counts ==
  ASSUME Types, UNCHANGED <<kind, id, req>>
  PROVE  /\ \A c \in Calls : Group(c)' = Group(c) /\ IsFiniteSet(Group(c))
         /\ \A c \in Calls : \A S \in SUBSET Group(c) : IsFiniteSet(S) /\ Cardinality(S) \in Nat
<1>1. \A c \in Calls : Group(c)' = Group(c) /\ Group(c) \subseteq Calls
  BY DEF Group
<1>2. \A c \in Calls : IsFiniteSet(Group(c))
  BY <1>1, FrontendAssumption, FS_Subset
<1>3. ASSUME NEW c \in Calls, NEW S \in SUBSET Group(c) PROVE IsFiniteSet(S) /\ Cardinality(S) \in Nat
  BY <1>2, FS_Subset, FS_CardinalityType
<1> QED
  BY <1>1, <1>2, <1>3

\* Nobody new is known to the engine, and nobody stops waiting.
LEMMA EndsKept ==
  ASSUME Types, EndsSuffice, UNCHANGED <<kind, id, req>>,
         \A d \in Calls : Present(d)' => Present(d),
         \A d \in Calls : Waiting(d) => Waiting(d)'
  PROVE  EndsSuffice'
<1> SUFFICES ASSUME NEW c \in Calls PROVE Cardinality(PresentIn(c)') <= Cardinality(WaitingIn(c)')
  BY DEF EndsSuffice, PresentIn, WaitingIn
<1>1. /\ PresentIn(c)' \subseteq PresentIn(c) /\ WaitingIn(c) \subseteq WaitingIn(c)'
      /\ PresentIn(c) \in SUBSET Group(c) /\ WaitingIn(c)' \in SUBSET Group(c)
  BY Counts DEF PresentIn, WaitingIn, Group
<1>2. Cardinality(PresentIn(c)) <= Cardinality(WaitingIn(c))
  BY DEF EndsSuffice, PresentIn, WaitingIn
<1>3. /\ Cardinality(PresentIn(c)') <= Cardinality(PresentIn(c))
      /\ Cardinality(WaitingIn(c)) <= Cardinality(WaitingIn(c)')
  BY <1>1, Counts, FS_Subset
<1>4. /\ Cardinality(PresentIn(c)') \in Nat /\ Cardinality(PresentIn(c)) \in Nat
      /\ Cardinality(WaitingIn(c)') \in Nat /\ Cardinality(WaitingIn(c)) \in Nat
  BY <1>1, Counts
<1> QED
  BY <1>2, <1>3, <1>4

\* A call begins.
LEMMA EndsBegin ==
  ASSUME Types, EndsSuffice, UNCHANGED <<kind, id, req>>,
         NEW e \in Calls, ~Waiting(e), Waiting(e)',
         \A d \in Calls : Present(d)' => Present(d) \/ d = e,
         \A d \in Calls : Waiting(d) => Waiting(d)'
  PROVE  EndsSuffice'
<1> SUFFICES ASSUME NEW c \in Calls PROVE Cardinality(PresentIn(c)') <= Cardinality(WaitingIn(c)')
  BY DEF EndsSuffice, PresentIn, WaitingIn
<1>1. /\ PresentIn(c) \in SUBSET Group(c) /\ WaitingIn(c)' \in SUBSET Group(c)
      /\ PresentIn(c)' \in SUBSET Group(c) /\ WaitingIn(c) \in SUBSET Group(c)
  BY Counts DEF PresentIn, WaitingIn
<1>2. Cardinality(PresentIn(c)) <= Cardinality(WaitingIn(c))
  BY DEF EndsSuffice, PresentIn, WaitingIn
<1>3. /\ Cardinality(PresentIn(c)') \in Nat /\ Cardinality(PresentIn(c)) \in Nat
      /\ Cardinality(WaitingIn(c)') \in Nat /\ Cardinality(WaitingIn(c)) \in Nat
      /\ IsFiniteSet(PresentIn(c)) /\ IsFiniteSet(WaitingIn(c)) /\ IsFiniteSet(PresentIn(c)')
      /\ IsFiniteSet(WaitingIn(c)')
  BY <1>1, Counts
<1>4. CASE e \in Group(c)
  <2>1. PresentIn(c)' \subseteq PresentIn(c) \cup {e} /\ WaitingIn(c) \cup {e} \subseteq WaitingIn(c)'
        /\ e \notin WaitingIn(c)
    BY <1>4, Counts DEF PresentIn, WaitingIn, Group
  <2>2. /\ IsFiniteSet(PresentIn(c) \cup {e}) /\ Cardinality(PresentIn(c) \cup {e}) \in Nat
        /\ Cardinality(PresentIn(c) \cup {e}) <= Cardinality(PresentIn(c)) + 1
    <3>1. IsFiniteSet(PresentIn(c) \cup {e})
          /\ (e \in PresentIn(c) => Cardinality(PresentIn(c) \cup {e}) = Cardinality(PresentIn(c)))
          /\ (e \notin PresentIn(c) => Cardinality(PresentIn(c) \cup {e}) = Cardinality(PresentIn(c)) + 1)
      <4>1. e \in PresentIn(c) => PresentIn(c) \cup {e} = PresentIn(c)
        OBVIOUS
      <4> QED
        BY <1>3, <4>1, FS_AddElement
    <3> QED
      BY <1>3, <3>1
  <2>3. IsFiniteSet(WaitingIn(c) \cup {e}) /\ Cardinality(WaitingIn(c) \cup {e}) = Cardinality(WaitingIn(c)) + 1
    BY <1>3, <2>1, FS_AddElement
  <2>4. /\ Cardinality(PresentIn(c)') <= Cardinality(PresentIn(c) \cup {e})
        /\ Cardinality(WaitingIn(c) \cup {e}) <= Cardinality(WaitingIn(c)')
    BY <1>3, <2>1, <2>2, FS_Subset
  <2> QED
    BY <1>2, <1>3, <2>2, <2>3, <2>4
<1>5. CASE e \notin Group(c)
  <2>1. PresentIn(c)' \subseteq PresentIn(c) /\ WaitingIn(c) \subseteq WaitingIn(c)'
    BY <1>5, Counts DEF PresentIn, WaitingIn, Group
  <2>2. /\ Cardinality(PresentIn(c)') <= Cardinality(PresentIn(c))
        /\ Cardinality(WaitingIn(c)) <= Cardinality(WaitingIn(c)')
    BY <1>3, <2>1, FS_Subset
  <2> QED
    BY <1>2, <1>3, <2>2
<1> QED
  BY <1>4, <1>5

\* Call x is given the end of e.
LEMMA EndsTaken ==
  ASSUME Types, EndsSuffice, UNCHANGED <<kind, id, req>>,
         NEW e \in Calls, NEW x \in Group(e), Present(e), ~Present(e)',
         \A d \in Calls : Present(d)' => Present(d),
         \A d \in Calls : Waiting(d) /\ d # x => Waiting(d)'
  PROVE  EndsSuffice'
<1> SUFFICES ASSUME NEW c \in Calls PROVE Cardinality(PresentIn(c)') <= Cardinality(WaitingIn(c)')
  BY DEF EndsSuffice, PresentIn, WaitingIn
<1>1. /\ PresentIn(c) \in SUBSET Group(c) /\ WaitingIn(c)' \in SUBSET Group(c)
      /\ PresentIn(c)' \in SUBSET Group(c) /\ WaitingIn(c) \in SUBSET Group(c)
  BY Counts DEF PresentIn, WaitingIn
<1>2. Cardinality(PresentIn(c)) <= Cardinality(WaitingIn(c))
  BY DEF EndsSuffice, PresentIn, WaitingIn
<1>3. /\ Cardinality(PresentIn(c)') \in Nat /\ Cardinality(PresentIn(c)) \in Nat
      /\ Cardinality(WaitingIn(c)') \in Nat /\ Cardinality(WaitingIn(c)) \in Nat
      /\ IsFiniteSet(PresentIn(c)) /\ IsFiniteSet(WaitingIn(c)) /\ IsFiniteSet(PresentIn(c)')
      /\ IsFiniteSet(WaitingIn(c)')
  BY <1>1, Counts
<1>4. x \in Calls /\ (e \in Group(c) <=> x \in Group(c))
  BY DEF Group
<1>5. CASE e \in Group(c)
  <2>1. /\ PresentIn(c)' \subseteq PresentIn(c) \ {e} /\ WaitingIn(c) \ {x} \subseteq WaitingIn(c)'
        /\ e \in PresentIn(c)
    BY <1>5, Counts DEF PresentIn, WaitingIn, Group
  <2>2. IsFiniteSet(PresentIn(c) \ {e}) /\ Cardinality(PresentIn(c) \ {e}) = Cardinality(PresentIn(c)) - 1
    BY <1>3, <2>1, FS_RemoveElement
  <2>3. /\ IsFiniteSet(WaitingIn(c) \ {x}) /\ Cardinality(WaitingIn(c) \ {x}) \in Nat
        /\ Cardinality(WaitingIn(c) \ {x}) >= Cardinality(WaitingIn(c)) - 1
    <3>1. IsFiniteSet(WaitingIn(c) \ {x})
          /\ (x \notin WaitingIn(c) => Cardinality(WaitingIn(c) \ {x}) = Cardinality(WaitingIn(c)))
          /\ (x \in WaitingIn(c) => Cardinality(WaitingIn(c) \ {x}) = Cardinality(WaitingIn(c)) - 1)
      <4>1. x \notin WaitingIn(c) => WaitingIn(c) \ {x} = WaitingIn(c)
        OBVIOUS
      <4> QED
        BY <1>3, <4>1, FS_RemoveElement
    <3>2. Cardinality(WaitingIn(c) \ {x}) \in Nat
      BY <3>1, FS_CardinalityType
    <3> QED
      BY <1>3, <3>1, <3>2
  <2>4. /\ Cardinality(PresentIn(c)') <= Cardinality(PresentIn(c) \ {e})
        /\ Cardinality(WaitingIn(c) \ {x}) <= Cardinality(WaitingIn(c)')
    BY <1>3, <2>1, <2>2, FS_Subset
  <2> QED
    BY <1>2, <1>3, <2>2, <2>3, <2>4
<1>6. CASE e \notin Group(c)
  <2>1. PresentIn(c)' \subseteq PresentIn(c) /\ WaitingIn(c) \subseteq WaitingIn(c)'
    BY <1>4, <1>6, Counts DEF PresentIn, WaitingIn, Group
  <2>2. /\ Cardinality(PresentIn(c)') <= Cardinality(PresentIn(c))
        /\ Cardinality(WaitingIn(c)) <= Cardinality(WaitingIn(c)')
    BY <1>3, <2>1, FS_Subset
  <2> QED
    BY <1>2, <1>3, <2>2
<1> QED
  BY <1>5, <1>6

\* The engine has to do with at most one call of the group of a quiet call.
LEMMA OnlyOne ==
  ASSUME Types, EndsSuffice, QuietAlone, NEW c \in Quiet, pc[c] \in Begun
  PROVE  /\ \A d, e \in Group(c) : Present(d) /\ Present(e) => d = e
         /\ HasStop(c) => \A d \in Group(c) : ~Present(d)
<1>1. c \in Calls /\ c \in Group(c)
  BY DEF Quiet, Group
<1>2. WaitingIn(c) \subseteq {c} /\ (HasStop(c) => WaitingIn(c) = {})
  BY DEF QuietAlone, WaitingIn, Waiting, Group
<1>3. /\ PresentIn(c) \in SUBSET Group(c) /\ WaitingIn(c) \in SUBSET Group(c)
  BY DEF PresentIn, WaitingIn
<1>4. \A S \in SUBSET Group(c) : IsFiniteSet(S) /\ Cardinality(S) \in Nat
  <2>1. Group(c) \subseteq Calls
    BY DEF Group
  <2> QED
    BY <2>1, FrontendAssumption, FS_Subset, FS_CardinalityType
<1>5. Cardinality(PresentIn(c)) <= Cardinality(WaitingIn(c))
  BY <1>1 DEF EndsSuffice, PresentIn, WaitingIn
<1>6. Cardinality({c}) = 1 /\ IsFiniteSet({c}) /\ Cardinality({}) = 0
  BY FS_Singleton, FS_EmptySet
<1>7. Cardinality(WaitingIn(c)) <= 1
  BY <1>2, <1>6, FS_Subset
<1>8. ASSUME NEW d \in Group(c), NEW e \in Group(c), Present(d), Present(e), d # e PROVE FALSE
  <2>1. {d, e} \subseteq PresentIn(c)
    BY <1>8 DEF PresentIn
  <2>2. Cardinality({d} \cup {e}) = Cardinality({d}) + 1 /\ Cardinality({d}) = 1
    BY <1>8, FS_Singleton, FS_AddElement
  <2>3. {d, e} = {d} \cup {e}
    OBVIOUS
  <2>4. Cardinality({d, e}) <= Cardinality(PresentIn(c))
    BY <1>3, <1>4, <2>1, FS_Subset
  <2> QED
    BY <1>3, <1>4, <1>5, <1>7, <2>2, <2>3, <2>4
<1>9. ASSUME HasStop(c), NEW d \in Group(c), Present(d) PROVE FALSE
  <2>1. {d} \subseteq PresentIn(c) /\ Cardinality({d}) = 1
    BY <1>9, FS_Singleton DEF PresentIn
  <2>2. Cardinality({d}) <= Cardinality(PresentIn(c))
    BY <1>3, <1>4, <2>1, FS_Subset
  <2>3. Cardinality(WaitingIn(c)) = 0
    BY <1>2, <1>6, <1>9
  <2> QED
    BY <1>3, <1>4, <1>5, <2>1, <2>2, <2>3
<1> QED
  BY <1>8, <1>9

----------------------------------------------------------------------------
(* The invariant is kept                                                   *)

\* A step that the calls do not notice.
LEMMA CallsUntouched ==
  ASSUME ServingInv, UNCHANGED <<kind, id, req, pc, stream, streamers, disturbed>>,
         Types', Named', \A c \in Calls : Through(c)', \A c \in Calls : Present(c)' => Present(c),
         \A c \in Quiet : pc[c] = "run" /\ Waiting(c) => Owed(c)',
         \A c \in Quiet : Orphanless(c)'
  PROVE  ServingInv'
<1> USE DEF ServingInv
<1>1. \A c \in Calls : /\ Waiting(c)' <=> Waiting(c)
                       /\ Listened(c)' <=> Listened(c)
                       /\ Group(c)' = Group(c)
  BY DEF Waiting, HasStop, Listened, Group
<1>2. Quiet' = Quiet /\ Quiet \subseteq Calls
  BY DEF Quiet
<1>3. InOrder'
  BY DEF InOrder, Unbegun
<1>4. QuietAlone'
  BY <1>1, <1>2 DEF QuietAlone
<1>5. TableOwned' /\ TableOpen'
  BY DEF TableOwned, TableOpen
<1>6. EndsSuffice'
  BY <1>1, EndsKept
<1>7. EndComes'
  BY <1>1, <1>2 DEF EndComes
<1> QED
  BY <1>2, <1>3, <1>4, <1>5, <1>6, <1>7

\* The engine runs an instruction or a step.
LEMMA EngineKeeps ==
  ASSUME ServingInv, Engine
  PROVE  ServingInv'
<1> USE DEF ServingInv
<1>1. /\ UNCHANGED <<kind, id, req, pc, stream, streamers, disturbed, syncQueue>> /\ EngineDoes
      /\ Types'
  BY EngineCases, EngineKeepsTypes DEF callVars
<1>2. Quiet \subseteq Calls /\ \A c \in Calls : Listened(c)' <=> Listened(c)
  BY <1>1 DEF Quiet, Listened
<1>3. CASE RunAdd
  <2>1. /\ Named' /\ (\A c \in Calls : Through(c)') /\ (\A c \in Calls : Present(c)' => Present(c))
        /\ (\A c \in Calls : Orphanless(c) => Orphanless(c)')
        /\ \A c \in Calls : Owed(c) => Owed(c)' \/ \E e \in Calls \ {c} : id[e] = id[c] /\ Present(e)
    BY <1>1, <1>3, AddKeeps
  <2>2. ASSUME NEW c \in Quiet, pc[c] = "run", Waiting(c) PROVE Owed(c)'
    <3>1. Owed(c) /\ Present(c) /\ c \in Calls
      BY <1>2, <2>2 DEF EndComes, Owed, Present, EndsFor, Emits
    <3>2. \A d, e \in Group(c) : Present(d) /\ Present(e) => d = e
      BY <2>2, OnlyOne DEF Begun
    <3>3. \A e \in Calls : id[e] = id[c] => e \in Group(c)
      BY DEF Group
    <3> QED
      BY <2>1, <3>1, <3>2, <3>3
  <2>3. \A c \in Quiet : Orphanless(c)'
    BY <1>2, <2>1
  <2> QED
    BY <1>1, <2>1, <2>2, <2>3, CallsUntouched
<1>4. CASE /\ UNCHANGED <<engine, outputs, made>>
           /\ Pops("reset") \/ (Pops("abort") /\ engine[Head(instrs).id] = None)
  <2>1. Shortens /\ Coming' = Coming
    BY <1>1, <1>4 DEF Shortens, Coming
  <2>2. /\ Named' /\ (\A c \in Calls : Through(c)') /\ (\A c \in Calls : Present(c)' <=> Present(c))
        /\ \A c \in Calls : Owed(c) => Owed(c)'
    BY <1>1, <1>4, <2>1, PopKeeps
  <2>3. \A c \in Calls : HoldsOn(c)
    BY <1>2, <1>4 DEF HoldsOn
  <2>4. \A c \in Quiet : Orphanless(c)'
    BY <1>1, <1>2, <2>1, <2>3, ShortensKeeps
  <2>5. ASSUME NEW c \in Quiet, pc[c] = "run", Waiting(c) PROVE Owed(c)'
    BY <1>2, <2>2, <2>5 DEF EndComes
  <2> QED
    BY <1>1, <2>2, <2>4, <2>5, CallsUntouched
<1>5. ASSUME NEW e \in Calls, NEW b \in Batches, Emission(e, b),
             UNCHANGED instrs \/ (Pops("abort") /\ b.final /\ Head(instrs).id = id[e])
      PROVE  ServingInv'
  <2>1. Shortens
    <3>1. b.final => engine'[id[e]] = None
      <4>1. id[e] \in Ids
        BY ScenarioFacts DEF Types
      <4> QED
        BY <1>5, <4>1 DEF Emission, Types, EngineTypes
    <3> QED
      BY <1>5, <3>1 DEF Shortens
  <2>2. /\ Named' /\ (\A c \in Calls : Through(c)') /\ (\A c \in Calls : Present(c)' <=> Present(c))
        /\ (\A c \in Calls : Owed(c) => Owed(c)')
        /\ \A c \in Calls : engine'[id[c]] = c => engine[id[c]] = c
    BY <1>1, <1>5, <2>1, EmissionKeeps
  <2>3. \A c \in Calls : HoldsOn(c)
    BY <1>2, <2>2 DEF HoldsOn
  <2>4. \A c \in Quiet : Orphanless(c)'
    BY <1>1, <1>2, <2>1, <2>3, ShortensKeeps
  <2>5. ASSUME NEW c \in Quiet, pc[c] = "run", Waiting(c) PROVE Owed(c)'
    BY <1>2, <2>2, <2>5 DEF EndComes
  <2> QED
    BY <1>1, <2>2, <2>4, <2>5, CallsUntouched
<1> QED
  BY <1>1, <1>3, <1>4, <1>5 DEF EngineDoes

\* Outputs move on towards the calls.
LEMMA ForwardsKeeps ==
  ASSUME ServingInv, Types', UNCHANGED <<kind, id, req, pc, stream, streamers, disturbed, instrs, engine>>,
         Coming' = Coming
  PROVE  ServingInv'
<1> USE DEF ServingInv
<1>1. Shortens
  BY DEF Shortens
<1>2. /\ Named' /\ (\A c \in Calls : Through(c)') /\ (\A c \in Calls : Present(c)' <=> Present(c))
      /\ \A c \in Calls : Owed(c) => Owed(c)'
  BY <1>1, PopKeeps
<1>3. Quiet \subseteq Calls /\ \A c \in Calls : HoldsOn(c)
  BY DEF HoldsOn, Listened, Quiet
<1>4. \A c \in Quiet : Orphanless(c)'
  BY <1>1, <1>3, ShortensKeeps
<1>5. ASSUME NEW c \in Quiet, pc[c] = "run", Waiting(c) PROVE Owed(c)'
  BY <1>2, <1>3, <1>5 DEF EndComes
<1> QED
  BY <1>2, <1>4, <1>5, CallsUntouched

\* The table has no entries with MLCEngine.
LEMMA SyncTableEmpty ==
  ASSUME Types, TableOwned, TableOpen, kind = "sync", NEW i \in Ids
  PROVE  streamers[i] = None
<1>1. streamers[i] # None => streamers[i] \in Calls /\ id[streamers[i]] = i
  BY DEF Types, TableTypes, TableOwned
<1> QED
  BY <1>1 DEF TableOpen

\* The owner of the engine aborts, resets or terminates.
LEMMA ControlKeeps ==
  ASSUME ServingInv, (\E i \in Ids : Abort(i)) \/ Reset \/ Terminate
  PROVE  ServingInv'
<1> USE DEF ServingInv
<1>0. Types'
  BY ControlKeepsTypes
<1>1. ASSUME NEW i \in Ids, Abort(i) PROVE ServingInv'
  <2>1. /\ UNCHANGED <<kind, id, req, pc, stream, syncQueue, outputs, engine>>
        /\ DoAbort(i) /\ disturbed' = disturbed \cup ({streamers[i]} \ {None})
    BY <1>1 DEF Abort, callVars
  <2> DEFINE x == [op |-> "abort", id |-> i, call |-> None]
  <2>2. x \in Instrs /\ x.op = "abort" /\ x.op # "add" /\ x.id = i /\ instrs' = Append(instrs, x)
    BY <2>1 DEF Instrs, DoAbort, WithAbort
  <2>3. Coming' = Coming
    BY <2>1 DEF Coming
  <2> HIDE DEF x
  <2>4. \A j \in Ids : streamers'[j] = IF kind = "async" /\ j = i THEN None ELSE streamers[j]
    BY <2>1 DEF DoAbort, Types, TableTypes
  <2>5. \A c \in Calls : id[c] \in Ids /\ c # None
    BY ScenarioFacts, FrontendAssumption DEF Types
  <2>6. Quiet' \subseteq Quiet /\ Quiet \subseteq Calls /\ \A c \in Quiet' : c # streamers[i]
    BY <2>1, <2>5 DEF Quiet
  <2>7. \A c \in Quiet' : Listened(c) => Listened(c)'
    BY <2>1, <2>4, <2>5, <2>6 DEF Listened
  <2>8. /\ Named' /\ (\A c \in Calls : Through(c)') /\ (\A c \in Calls : Present(c)' <=> Present(c))
        /\ \A c \in Calls : Owed(c) => Owed(c)'
    BY <2>1, <2>2, <2>3, AppendInstr DEF InOrder
  <2>9. \A c \in Quiet' : Orphanless(c)'
    BY <2>1, <2>2, <2>3, <2>6, <2>7, AppendInstr
  <2>10. \A c \in Calls : (Waiting(c)' <=> Waiting(c)) /\ Group(c)' = Group(c)
    BY <2>1 DEF Waiting, HasStop, Group
  <2>11. InOrder'
    BY <2>1, <2>8 DEF InOrder, Unbegun
  <2>12. QuietAlone'
    BY <2>1, <2>6, <2>10 DEF QuietAlone
  <2>13. TableOwned' /\ TableOpen'
    BY <2>1, <2>4, <2>5 DEF TableOwned, TableOpen
  <2>14. EndsSuffice'
    BY <2>1, <2>8, <2>10, EndsKept
  <2>15. EndComes'
    BY <2>1, <2>6, <2>7, <2>8, <2>10 DEF EndComes
  <2> QED
    BY <1>0, <2>8, <2>9, <2>11, <2>12, <2>13, <2>14, <2>15
<1>2. CASE Reset
  <2> DEFINE x == [op |-> "reset", id |-> CHOOSE i \in Ids : TRUE, call |-> None]
  <2>1. /\ UNCHANGED <<kind, id, req, pc, stream, streamers, disturbed, syncQueue, outputs, engine>>
        /\ instrs' = Append(instrs, x)
    BY <1>2 DEF Reset, callVars
  <2>2. x \in Instrs /\ x.op # "add"
    BY FrontendAssumption DEF Instrs
  <2>3. Coming' = Coming
    BY <2>1 DEF Coming
  <2> HIDE DEF x
  <2>4. Quiet \subseteq Calls /\ \A c \in Calls : Listened(c) => Listened(c)'
    BY <2>1 DEF Quiet, Listened
  <2>5. /\ Named' /\ (\A c \in Calls : Through(c)') /\ (\A c \in Calls : Present(c)' => Present(c))
        /\ \A c \in Calls : Owed(c) => Owed(c)'
    BY <2>1, <2>2, <2>3, AppendInstr DEF InOrder
  <2>6. \A c \in Quiet : Orphanless(c)'
    BY <2>1, <2>2, <2>3, <2>4, AppendInstr
  <2>7. ASSUME NEW c \in Quiet, pc[c] = "run", Waiting(c) PROVE Owed(c)'
    BY <2>4, <2>5, <2>7 DEF EndComes
  <2> QED
    BY <1>0, <2>1, <2>5, <2>6, <2>7, CallsUntouched
<1>3. CASE Terminate
  <2>1. UNCHANGED <<kind, id, req, pc, stream, streamers, disturbed, syncQueue, outputs, instrs, engine>>
    BY <1>3 DEF Terminate, callVars, engineVars
  <2>2. Coming' = Coming
    BY <2>1 DEF Coming
  <2> QED
    BY <1>0, <2>1, <2>2, ForwardsKeeps
<1> QED
  BY <1>1, <1>2, <1>3

\* When call c moves, the table and the instructions are left alone, or its id is aborted.
TableMove(c) ==
  \/ /\ UNCHANGED <<streamers, instrs>>
     /\ streamers[id[c]] = c => pc'[c] \in {"run", "closing"}
     /\ kind = "sync" /\ c \in Quiet /\ pc[c] = "run" => pc'[c] = "run" \/ ~Present(c)
  \/ DoAbort(id[c]) /\ pc[c] \in Begun /\ pc'[c] # "run"

\* A call goes on or ends.
LEMMA MoveKeeps ==
  ASSUME ServingInv, Types', UNCHANGED <<kind, id, req, syncQueue, outputs, engine, disturbed>>,
         NEW c \in Calls,
         \A d \in Calls \ {c} : pc'[d] = pc[d] /\ stream'[d] = stream[d],
         \A j \in DOMAIN stream'[c] : \E k \in DOMAIN stream[c] : stream'[c][j] = stream[c][k],
         pc'[c] \in Begun => pc[c] \in Begun,
         Waiting(c) => Waiting(c)',
         pc'[c] \in {"idle", "echo"} => stream'[c] = <<>>,
         Present(c) => pc'[c] \in Begun \cup {"done"},
         pc'[c] = "run" => pc[c] = "run" /\ (Waiting(c)' => Waiting(c)),
         TableMove(c)
  PROVE  ServingInv'
<1> USE DEF ServingInv
<1>1. Coming' = Coming /\ Quiet' = Quiet /\ Quiet \subseteq Calls
  BY DEF Coming, Quiet
<1>2. \A d \in Calls : id[d] \in Ids /\ d # None
  BY ScenarioFacts, FrontendAssumption DEF Types
<1>3. \A d \in Calls : /\ Waiting(d) => Waiting(d)'
                       /\ d # c => (Waiting(d)' <=> Waiting(d))
                       /\ Group(d)' = Group(d)
  BY DEF Waiting, HasStop, Group
<1>4. \A i \in Ids : /\ streamers'[i] = streamers[i]
                        \/ (streamers'[i] = None /\ i = id[c] /\ DoAbort(id[c]) /\ kind = "async")
  BY DEF TableMove, DoAbort, Types, TableTypes
<1>5. \A d \in Calls \ {c} : Listened(d) => Listened(d)' \/ (DoAbort(id[c]) /\ id[d] = id[c])
  BY <1>2, <1>4 DEF Listened
<1>6. /\ Named' /\ (\A d \in Calls : Through(d)') /\ (\A d \in Calls : Present(d)' <=> Present(d))
      /\ (\A d \in Calls : Owed(d) => Owed(d)')
      /\ \A d \in Quiet : Orphanless(d)'
  <2>1. CASE DoAbort(id[c])
    <3> DEFINE x == [op |-> "abort", id |-> id[c], call |-> None]
    <3>1. x \in Instrs /\ x.op = "abort" /\ x.op # "add" /\ x.id = id[c] /\ instrs' = Append(instrs, x)
      BY <1>2, <2>1 DEF Instrs, DoAbort, WithAbort
    <3> HIDE DEF x
    <3>2. /\ Named' /\ (\A d \in Calls : Through(d)') /\ (\A d \in Calls : Present(d)' <=> Present(d))
          /\ \A d \in Calls : Owed(d) => Owed(d)'
      BY <1>1, <3>1, AppendInstr DEF InOrder
    <3>3. \A d \in Quiet : Orphanless(d)'
      <4>1. \A d \in Calls : Listened(d) => Listened(d)' \/ (x.op = "abort" /\ x.id = id[d])
        BY <1>5, <3>1
      <4> QED
        BY <1>1, <3>1, <4>1, AppendInstr
    <3> QED
      BY <3>2, <3>3
  <2>2. CASE ~DoAbort(id[c])
    <3>1. Shortens
      BY <2>2 DEF TableMove, Shortens
    <3>2. /\ Named' /\ (\A d \in Calls : Through(d)') /\ (\A d \in Calls : Present(d)' <=> Present(d))
          /\ \A d \in Calls : Owed(d) => Owed(d)'
      BY <1>1, <3>1, PopKeeps
    <3>3. ASSUME NEW d \in Quiet PROVE Orphanless(d)'
      <4>1. CASE Listened(d) => Listened(d)'
        <5>1. HoldsOn(d)
          BY <4>1 DEF HoldsOn
        <5> QED
          BY <1>1, <3>1, <5>1, ShortensKeeps
      <4>2. CASE ~(Listened(d) => Listened(d)')
        <5>1. d = c
          BY <1>1, <1>5, <2>2, <4>2
        <5>2. ~Present(c)
          BY <2>2, <4>2, <5>1, ScenarioFacts DEF TableMove, Listened, Types
        <5>3. ~Present(c)'
          BY <3>2, <5>2
        <5> QED
          BY <5>1, <5>3 DEF Present, Orphanless, Queued
      <4> QED
        BY <4>1, <4>2
    <3> QED
      BY <3>2, <3>3
  <2> QED
    BY <2>1, <2>2
<1>7. InOrder'
  <2>1. ASSUME NEW d \in Calls PROVE Unbegun(d)'
    <3>1. CASE d = c
      BY <1>6, <3>1 DEF Unbegun
    <3>2. CASE d # c
      BY <1>6, <3>2 DEF Unbegun, InOrder
    <3> QED
      BY <3>1, <3>2
  <2> QED
    BY <1>6, <2>1 DEF InOrder
<1>8. QuietAlone'
  <2>1. \A d \in Calls : pc'[d] \in Begun => pc[d] \in Begun
    OBVIOUS
  <2>2. \A d \in Calls : Group(d) \subseteq Calls
    BY DEF Group
  <2> QED
    BY <1>1, <1>3, <2>1, <2>2 DEF QuietAlone
<1>9. TableOwned'
  <2> SUFFICES ASSUME NEW i \in Ids, streamers'[i] # None
               PROVE  id[streamers'[i]] = i /\ pc'[streamers'[i]] \in {"run", "closing"}
    BY DEF TableOwned
  <2>1. /\ streamers'[i] = streamers[i] /\ id[streamers[i]] = i /\ pc[streamers[i]] \in {"run", "closing"}
        /\ streamers[i] \in Calls
    BY <1>4 DEF TableOwned, Types, TableTypes
  <2>2. CASE streamers[i] # c
    BY <2>1, <2>2
  <2>3. CASE streamers[i] = c
    <3>1. ~DoAbort(id[c])
      <4>1. kind = "async"
        BY <1>2, <2>1, <2>3, SyncTableEmpty, ScenarioFacts DEF Types
      <4> QED
        BY <1>2, <2>1, <2>3, <4>1 DEF DoAbort, Types, TableTypes
    <3> QED
      BY <2>1, <2>3, <3>1 DEF TableMove
  <2> QED
    BY <2>2, <2>3
<1>10. TableOpen'
  <2> SUFFICES ASSUME NEW d \in Calls, streamers'[id[d]] = d
               PROVE  /\ kind = "async"
                      /\ \A j \in DOMAIN stream'[d] : stream'[d][j].kind = "chunk"
    BY DEF TableOpen
  <2>1. streamers[id[d]] = d
    BY <1>2, <1>4
  <2>2. kind = "async" /\ \A j \in DOMAIN stream[d] : stream[d][j].kind = "chunk"
    BY <2>1 DEF TableOpen
  <2> QED
    BY <2>2
<1>11. EndsSuffice'
  BY <1>3, <1>6, EndsKept
<1>12. EndComes'
  <2> SUFFICES ASSUME NEW d \in Quiet, pc'[d] = "run"
               PROVE  /\ Waiting(d)' => Owed(d)' /\ Listened(d)'
                      /\ \A j \in DOMAIN stream'[d] : stream'[d][j].kind # "error"
    BY <1>1 DEF EndComes
  <2>1. pc[d] = "run" /\ d \in Calls
    BY <1>1
  <2>2. /\ Waiting(d) => Owed(d) /\ Listened(d)
        /\ \A j \in DOMAIN stream[d] : stream[d][j].kind # "error"
    BY <2>1 DEF EndComes
  <2>3. \A j \in DOMAIN stream'[d] : stream'[d][j].kind # "error"
    BY <2>1, <2>2
  <2>4. ASSUME Waiting(d)' PROVE Owed(d)' /\ Listened(d)'
    <3>1. Waiting(d)
      BY <1>3, <2>1, <2>4
    <3>2. Owed(d)' /\ Listened(d)
      BY <1>6, <2>1, <2>2, <3>1
    <3>3. CASE d # c
      <4>1. DoAbort(id[c]) => id[d] # id[c]
        <5> SUFFICES ASSUME DoAbort(id[c]), id[d] = id[c] PROVE FALSE
          OBVIOUS
        <5>1. instrs' # instrs
          BY DEF DoAbort, WithAbort, Types, InstrTypes
        <5>2. pc[c] \in Begun
          BY <5>1 DEF TableMove
        <5>3. c \in Group(d) \ {d} /\ pc[d] \in Begun
          BY <2>1, <3>3 DEF Group, Begun
        <5> QED
          BY <5>2, <5>3 DEF QuietAlone
      <4> QED
        BY <1>5, <2>1, <3>2, <3>3, <4>1
    <3>4. CASE d = c
      <4>1. ~(DoAbort(id[c]) /\ pc[c] \in Begun /\ pc'[c] # "run")
        BY <3>4
      <4>2. UNCHANGED streamers
        BY <4>1 DEF TableMove
      <4> QED
        BY <3>2, <3>4, <4>2 DEF Listened
    <3> QED
      BY <3>3, <3>4
  <2> QED
    BY <2>3, <2>4
<1> QED
  BY <1>1, <1>6, <1>7, <1>8, <1>9, <1>10, <1>11, <1>12

\* A consumer takes an item.
LEMMA ConsumesKeeps ==
  ASSUME ServingInv, NEW c \in Calls, Consumes(c)
  PROVE  ServingInv'
<1> USE DEF ServingInv
<1>0. Types'
  BY ConsumesTypes
<1>1. /\ UNCHANGED <<kind, id, req, syncQueue, outputs, engine, disturbed>>
      /\ pc[c] = "run" /\ pc[c] \in Begun
      /\ stream[c] # <<>> /\ stream' = [stream EXCEPT ![c] = Tail(stream[c])]
  BY DEF Consumes, Begun
<1>2. \/ UNCHANGED pc
      \/ \E x \in Begun \cup {"done"} : x # "run" /\ pc' = [pc EXCEPT ![c] = x]
  BY DEF Consumes, Begun
<1>3. \A d \in Calls \ {c} : pc'[d] = pc[d] /\ stream'[d] = stream[d]
  BY <1>1, <1>2 DEF Types, PcTypes, StreamTypes
<1>4. pc'[c] \in Begun \cup {"done"}
  BY <1>1, <1>2 DEF Types, PcTypes
<1>5. /\ stream[c] \in Seq(Items) /\ stream'[c] = Tail(stream[c])
      /\ 1 \in DOMAIN stream[c] /\ stream[c][1] = Head(stream[c])
      /\ \A j \in DOMAIN stream'[c] : j + 1 \in DOMAIN stream[c] /\ stream'[c][j] = stream[c][j + 1]
      /\ \A k \in DOMAIN stream[c] : k # 1 => k - 1 \in DOMAIN stream'[c] /\ stream'[c][k - 1] = stream[c][k]
  <2>1. stream[c] \in Seq(Items) /\ stream'[c] = Tail(stream[c])
    BY <1>1 DEF Types, StreamTypes
  <2>2. ASSUME NEW s \in Seq(Items), s # <<>>, NEW t, t = Tail(s)
        PROVE  /\ 1 \in DOMAIN s /\ s[1] = Head(s)
               /\ \A j \in DOMAIN t : j + 1 \in DOMAIN s /\ t[j] = s[j + 1]
               /\ \A k \in DOMAIN s : k # 1 => k - 1 \in DOMAIN t /\ t[k - 1] = s[k]
    BY <2>2
  <2> QED
    BY <1>1, <2>1, <2>2
<1>6. \A j \in DOMAIN stream'[c] : \E k \in DOMAIN stream[c] : stream'[c][j] = stream[c][k]
  BY <1>5
<1>7. /\ HasStop(c)' => HasStop(c)
      /\ Head(stream[c]).kind # "stop" => (HasStop(c) => HasStop(c)')
      /\ Head(stream[c]).kind = "stop" => HasStop(c)
  BY <1>5 DEF HasStop
<1>8. Waiting(c) => Waiting(c)'
  <2>1. pc'[c] = "done" => Head(stream[c]).kind = "stop"
    BY <1>1 DEF Consumes, Types, PcTypes
  <2> QED
    BY <1>4, <1>7, <2>1 DEF Waiting
<1>9. pc'[c] = "run" => (Waiting(c)' => Waiting(c))
  <2>1. pc'[c] = "run" => Head(stream[c]).kind # "stop"
    BY <1>1 DEF Consumes, Types, PcTypes
  <2> QED
    BY <1>1, <1>7, <2>1 DEF Waiting
<1>10. TableMove(c)
  <2>1. Head(stream[c]).kind = "stop" => streamers[id[c]] # c
    BY <1>5 DEF TableOpen
  <2>2. Head(stream[c]).kind = "stop" /\ c \in Quiet => ~Present(c)
    <3>1. c \in Group(c)
      BY DEF Group
    <3> QED
      BY <1>1, <1>7, <3>1, OnlyOne
  <2>3. CASE UNCHANGED <<streamers, instrs>> /\ UNCHANGED pc
    BY <1>1, <2>3 DEF TableMove
  <2>4. CASE UNCHANGED <<streamers, instrs>> /\ pc' = [pc EXCEPT ![c] = "closing"] /\ kind = "async"
    BY <1>1, <2>4 DEF TableMove, Types, PcTypes
  <2>5. CASE UNCHANGED <<streamers, instrs>> /\ Head(stream[c]).kind = "stop"
    BY <2>1, <2>2, <2>5 DEF TableMove
  <2>6. CASE DoAbort(id[c]) /\ pc' = [pc EXCEPT ![c] = "failed"]
    BY <1>1, <2>6 DEF TableMove, Types, PcTypes
  <2> QED
    BY <2>3, <2>4, <2>5, <2>6 DEF Consumes
<1>11. pc'[c] \notin {"idle", "echo"}
  BY <1>4 DEF Begun
<1> QED
  BY <1>0, <1>1, <1>3, <1>4, <1>6, <1>8, <1>9, <1>10, <1>11, MoveKeeps

\* A call is cancelled, dropped or closed.
LEMMA LeftKeeps ==
  ASSUME ServingInv, NEW c \in Calls, Left(c)
  PROVE  ServingInv'
<1> USE DEF ServingInv
<1>0. Types'
  BY ConsumesTypes
<1>1. UNCHANGED <<kind, id, req, stream, syncQueue, outputs, engine, disturbed>>
  BY DEF Left
<1>2. /\ pc'[c] \in {"closed", "closing", "unused"}
      /\ pc[c] \in Begun => pc'[c] \in Begun
      /\ pc[c] \notin Begun => pc[c] = "echo" /\ pc'[c] = "unused"
      /\ \A d \in Calls \ {c} : pc'[d] = pc[d]
  BY DEF Left, Types, PcTypes, Begun
<1>3. \A j \in DOMAIN stream'[c] : \E k \in DOMAIN stream[c] : stream'[c][j] = stream[c][k]
  BY <1>1
<1>4. Waiting(c) => Waiting(c)'
  BY <1>1, <1>2 DEF Waiting, HasStop
<1>5. Present(c) => pc'[c] \in Begun \cup {"done"}
  BY <1>2 DEF InOrder, Unbegun
<1>6. TableMove(c)
  <2>1. streamers[id[c]] = c => pc[c] \in {"run", "closing"}
    <3>1. id[c] \in Ids /\ c # None
      BY ScenarioFacts, FrontendAssumption DEF Types
    <3> QED
      BY <3>1 DEF TableOwned
  <2> QED
    BY <2>1 DEF Left, TableMove, Types, PcTypes, Begun
<1>7. pc'[c] \in Begun => pc[c] \in Begun
  BY <1>2 DEF Begun
<1> QED
  BY <1>0, <1>1, <1>2, <1>3, <1>4, <1>5, <1>6, <1>7, MoveKeeps

\* A call that has not begun is not known to the engine, and nobody hears for it.
LEMMA IdleIsUnknown ==
  ASSUME ServingInv, NEW c \in Calls, pc[c] \in {"idle", "echo"}
  PROVE  /\ ~Present(c) /\ stream[c] = <<>> /\ ~Waiting(c) /\ pc[c] \notin Begun
         /\ streamers[id[c]] # c
<1> USE DEF ServingInv
<1>1. ~Present(c) /\ stream[c] = <<>> /\ ~Waiting(c) /\ pc[c] \notin Begun
  BY DEF InOrder, Unbegun, Begun, Waiting
<1>2. id[c] \in Ids /\ c # None
  BY ScenarioFacts, FrontendAssumption DEF Types
<1> QED
  BY <1>1, <1>2 DEF TableOwned

\* A call begins: what is queued, and what is lost with the old queue of MLCEngine.
LEMMA AddInstr ==
  ASSUME Types, Named, InOrder, UNCHANGED <<kind, id, req, engine, outputs>>,
         syncQueue' \in {syncQueue, <<>>}, NEW c \in Calls, ~Present(c),
         instrs' = Append(instrs, [op |-> "add", id |-> id[c], call |-> c])
  PROVE  /\ Named'
         /\ \A d \in Calls : Through(d)'
         /\ \A d \in Calls : Present(d)' => Present(d) \/ d = c
         /\ Owed(c)'
         /\ syncQueue' = syncQueue => \A d \in Calls : Owed(d) => Owed(d)'
         /\ \A d \in Calls : d # c /\ Orphanless(d) /\ (Listened(d) => Listened(d)') => Orphanless(d)'
         /\ Listened(c)' => Orphanless(c)'
<1> DEFINE x == [op |-> "add", id |-> id[c], call |-> c]
<1>0. x \in Instrs /\ x.op = "add" /\ x.call = c /\ x.id = id[c] /\ instrs' = Append(instrs, x)
  BY ScenarioFacts DEF Types, Instrs
<1> HIDE DEF x
<1>1. /\ DOMAIN instrs = 1..Len(instrs) /\ Len(instrs) \in Nat /\ DOMAIN instrs' = 1..(Len(instrs) + 1)
      /\ \A p \in DOMAIN instrs : instrs'[p] = instrs[p]
      /\ instrs'[Len(instrs) + 1] = x
  BY <1>0 DEF Types, InstrTypes
<1>2. /\ \A d \in Calls : \A p \in DOMAIN instrs' : AddOf(d, p)' =>
           (p \in DOMAIN instrs /\ AddOf(d, p)) \/ (d = c /\ p = Len(instrs) + 1)
      /\ \A d \in Calls : \A p \in DOMAIN instrs : AddOf(d, p) => AddOf(d, p)'
      /\ \E p \in DOMAIN instrs' : AddOf(c, p)'
  BY <1>0, <1>1 DEF AddOf
<1>3. \A i, p : AbortAfter(i, p) => AbortAfter(i, p)'
  BY <1>1 DEF AbortAfter
<1>4. PICK k \in Nat : \A p \in DOMAIN Coming' : p + k \in DOMAIN Coming /\ Coming'[p] = Coming[p + k]
  <2>1. CASE syncQueue' = syncQueue
    <3>1. Coming' = Coming /\ DOMAIN Coming = 1..Len(Coming) /\ Len(Coming) \in Nat
      BY <2>1, ComingTypes DEF Coming
    <3>2. \A p \in DOMAIN Coming' : p + 0 \in DOMAIN Coming /\ Coming'[p] = Coming[p + 0]
      BY <3>1
    <3> QED
      BY <3>2
  <2>2. CASE syncQueue' = <<>>
    <3>1. syncQueue \in Seq(Batches) /\ outputs \in Seq(Batches)
      BY DEF Types, QueueTypes
    <3>2. Coming' = outputs
      BY <2>2, <3>1 DEF Coming
    <3>3. /\ Len(syncQueue) \in Nat
          /\ \A p \in DOMAIN outputs : /\ p + Len(syncQueue) \in DOMAIN (syncQueue \o outputs)
                                       /\ outputs[p] = (syncQueue \o outputs)[p + Len(syncQueue)]
      BY <3>1
    <3> QED
      BY <3>2, <3>3 DEF Coming
  <2> QED
    BY <2>1, <2>2
<1>5. DOMAIN Coming \subseteq Nat /\ DOMAIN Coming' \subseteq Nat
  <2>1. \A s \in Seq(Batches) : DOMAIN s \subseteq Nat
    OBVIOUS
  <2>2. <<>> \in Seq(Batches) /\ \A s, t \in Seq(Batches) : s \o t \in Seq(Batches)
    OBVIOUS
  <2> QED
    BY <2>1, <2>2 DEF Coming, Types, QueueTypes
<1>6. ~Queued(c) /\ engine[id[c]] # c /\ ~Emits(c)
  BY DEF Present
<1>7. \A d \in Calls : Emits(d)' => Emits(d)
  BY <1>4 DEF Emits
<1>8. \A d \in Calls : (Queued(d)' => Queued(d) \/ d = c) /\ (Queued(d) => Queued(d)') /\ Queued(c)'
  BY <1>1, <1>2 DEF Queued
<1>9. Named'
  <2>1. ASSUME NEW p \in DOMAIN instrs', instrs'[p].op = "add"
        PROVE  instrs'[p].call \in Calls /\ instrs'[p].id = id[instrs'[p].call]
    BY <1>0, <1>1, <2>1 DEF Named
  <2>2. \A d \in Calls : Gens(d)' = Gens(d)
    BY DEF Gens
  <2>3. \A p \in DOMAIN Coming : Coming[p].call \in Calls
    BY ComingTypes
  <2>4. ASSUME NEW p \in DOMAIN Coming'
        PROVE  (Coming[p].id = id[Coming[p].call] /\ DOMAIN Coming[p].outs = Gens(Coming[p].call))'
    BY <1>4, <2>2, <2>3 DEF Named
  <2> QED
    BY <2>1, <2>4 DEF Named
<1>10. ASSUME NEW d \in Calls PROVE Through(d)'
  <2>1. ASSUME NEW p \in DOMAIN instrs', NEW q \in DOMAIN instrs', AddOf(d, p)', AddOf(d, q)' PROVE p = q
    BY <1>2, <1>6, <2>1 DEF InOrder, Through, Queued
  <2>2. Queued(d)' => engine'[id[d]] # d /\ ~Emits(d)'
    BY <1>6, <1>7, <1>8 DEF InOrder, Through
  <2>3. ASSUME NEW p \in DOMAIN Coming', Coming'[p].call = d, Coming'[p].final
        PROVE  /\ engine'[id[d]] # d
               /\ \A q \in DOMAIN Coming' : Coming'[q].call = d => q <= p
    <3>1. p + k \in DOMAIN Coming /\ Coming[p + k].call = d /\ Coming[p + k].final
      BY <1>4, <2>3
    <3>2. /\ engine[id[d]] # d
          /\ \A q \in DOMAIN Coming : Coming[q].call = d => q <= p + k
      BY <3>1 DEF InOrder, Through
    <3>3. ASSUME NEW q \in DOMAIN Coming', Coming'[q].call = d PROVE q <= p
      <4>1. q + k <= p + k
        BY <1>4, <3>2, <3>3
      <4> QED
        BY <1>5, <4>1
    <3> QED
      BY <3>2, <3>3
  <2> QED
    BY <2>1, <2>2, <2>3 DEF Through
<1>11. \A d \in Calls : Present(d)' => Present(d) \/ d = c
  BY <1>7, <1>8 DEF Present
<1>12. Owed(c)'
  BY <1>8 DEF Owed
<1>13. ASSUME syncQueue' = syncQueue, NEW d \in Calls, Owed(d) PROVE Owed(d)'
  <2>1. Coming' = Coming
    BY <1>13 DEF Coming
  <2> QED
    BY <1>8, <1>13, <2>1 DEF Owed, EndsFor
<1>14. ASSUME NEW d \in Calls, d # c, Orphanless(d), Listened(d) => Listened(d)' PROVE Orphanless(d)'
  <2>1. ASSUME NEW p \in DOMAIN instrs', AddOf(d, p)' PROVE Listened(d)' \/ AbortAfter(id[d], p)'
    BY <1>2, <1>3, <1>14, <2>1 DEF Orphanless
  <2>2. engine[id[d]] = d => Listened(d)' \/ AbortAfter(id[d], 0)'
    BY <1>3, <1>14 DEF Orphanless
  <2> QED
    BY <2>1, <2>2 DEF Orphanless
<1>15. Listened(c)' => Orphanless(c)'
  BY DEF Orphanless
<1> QED
  BY <1>9, <1>10, <1>11, <1>12, <1>13, <1>14, <1>15

\* A call that begins disturbs the ones of its group that have begun and not ended
\* normally, and itself if there are any.
LEMMA BeginDisturbs ==
  ASSUME ServingInv, NEW c \in Calls, pc[c] \in {"idle", "echo"},
         UNCHANGED <<kind, id, req>>, pc' = [pc EXCEPT ![c] = "run"], disturbed' = NowDisturbed(c)
  PROVE  /\ Quiet' \subseteq Quiet /\ Quiet \subseteq Calls
         /\ \A d \in Quiet' \ {c} : pc[d] \in Begun => c \notin Group(d)
         /\ c \in Quiet' => \A d \in Group(c) \ {c} : pc[d] \notin Begun
         /\ QuietAlone'
<1> USE DEF ServingInv
<1>1. Quiet' \subseteq Quiet /\ Quiet \subseteq Calls
  BY DEF Quiet, NowDisturbed
<1>2. \A d \in Calls : Group(d) \subseteq Calls /\ Group(d)' = Group(d)
  BY DEF Group
<1>3. \A d \in Calls \ {c} : pc[d] \in Begun /\ (c \in Group(d) \/ d \in Group(c)) => d \in Disturbs(c)
  BY DEF Disturbs, Group, Begun
<1>4. \A d \in Disturbs(c) : d \in disturbed' /\ c \in disturbed'
  BY DEF NowDisturbed
<1>5. \A d \in Quiet' : d \notin disturbed'
  BY DEF Quiet
<1>6. ASSUME NEW d \in Quiet' \ {c}, pc[d] \in Begun PROVE c \notin Group(d)
  BY <1>1, <1>3, <1>4, <1>5, <1>6
<1>7. ASSUME c \in Quiet', NEW d \in Group(c) \ {c} PROVE pc[d] \notin Begun
  BY <1>2, <1>3, <1>4, <1>5, <1>7
<1>8. \A d \in Calls : d # c => pc'[d] = pc[d]
  BY DEF Types, PcTypes
<1>9. QuietAlone'
  <2> SUFFICES ASSUME NEW d \in Quiet', pc'[d] \in Begun, NEW e \in Group(d), e # d
               PROVE  pc'[e] \notin Begun
    BY <1>1, <1>2 DEF QuietAlone
  <2>1. d \in Quiet /\ d \in Calls /\ e \in Calls
    BY <1>1, <1>2
  <2>2. CASE d = c
    BY <1>7, <1>8, <2>1, <2>2
  <2>3. CASE d # c
    <3>1. pc[d] \in Begun
      BY <1>8, <2>1, <2>3
    <3>2. e # c
      BY <1>6, <2>3, <3>1
    <3> QED
      BY <1>8, <2>1, <3>1, <3>2 DEF QuietAlone
  <2> QED
    BY <2>2, <2>3
<1> QED
  BY <1>1, <1>6, <1>7, <1>9

\* A call begins: it enters the table, or finds its id taken.
LEMMA BeginKeeps ==
  ASSUME ServingInv, Types', NEW c \in Calls, pc[c] \in {"idle", "echo"},
         UNCHANGED <<kind, id, req, engine, outputs>>,
         (GenerateAsync(c) /\ kind = "async") \/ (GenerateSync(c) /\ kind = "sync"),
         pc' = [pc EXCEPT ![c] = "run"], disturbed' = NowDisturbed(c)
  PROVE  ServingInv'
<1> USE DEF ServingInv
<1>1. /\ ~Present(c) /\ stream[c] = <<>> /\ ~Waiting(c) /\ pc[c] \notin Begun
      /\ streamers[id[c]] # c
  BY IdleIsUnknown
<1>2. \A d \in Calls : id[d] \in Ids /\ d # None
  BY ScenarioFacts, FrontendAssumption DEF Types
<1>3. /\ Quiet' \subseteq Quiet /\ Quiet \subseteq Calls
      /\ \A d \in Quiet' \ {c} : pc[d] \in Begun => c \notin Group(d)
      /\ c \in Quiet' => \A d \in Group(c) \ {c} : pc[d] \notin Begun
      /\ QuietAlone'
  BY BeginDisturbs
<1>4. pc'[c] = "run" /\ \A d \in Calls : d # c => pc'[d] = pc[d]
  BY DEF Types, PcTypes
<1>5. CASE GenerateAsync(c) /\ kind = "async" /\ streamers[id[c]] # None
  <2>1. stream' = [stream EXCEPT ![c] = <<ErrorItem>>] /\ UNCHANGED <<streamers, instrs, syncQueue>>
    BY <1>5 DEF GenerateAsync
  <2>2. Coming' = Coming
    BY <2>1 DEF Coming
  <2>3. stream'[c] = <<ErrorItem>> /\ \A d \in Calls : d # c => stream'[d] = stream[d]
    BY <2>1 DEF Types, StreamTypes
  <2>4. c \notin Quiet'
    <3> DEFINE e == streamers[id[c]]
    <3>1. e \in Calls \ {c} /\ id[e] = id[c] /\ pc[e] \in {"run", "closing"}
      BY <1>1, <1>2, <1>5 DEF TableOwned, Types, TableTypes
    <3>2. e \in Group(c) /\ pc[e] \in Begun
      BY <3>1 DEF Group, Begun
    <3> HIDE DEF e
    <3> QED
      BY <1>3, <3>1, <3>2
  <2>5. Shortens
    BY <2>1 DEF Shortens
  <2>6. /\ Named' /\ (\A d \in Calls : Through(d)') /\ (\A d \in Calls : Present(d)' <=> Present(d))
        /\ \A d \in Calls : Owed(d) => Owed(d)'
    BY <2>2, <2>5, PopKeeps
  <2>7. Waiting(c)' /\ \A d \in Calls : d # c => (Waiting(d)' <=> Waiting(d))
    <3>1. stream'[c][1].kind = "error" /\ DOMAIN stream'[c] = {1}
      BY <2>3 DEF ErrorItem, Item
    <3> QED
      BY <1>4, <2>3, <3>1 DEF Waiting, HasStop, Begun
  <2>8. \A d \in Calls : Listened(d)' <=> Listened(d)
    BY <1>5, <2>1 DEF Listened
  <2>9. \A d \in Quiet' : Orphanless(d)'
    <3>1. \A d \in Calls : HoldsOn(d)
      BY <2>8 DEF HoldsOn
    <3> QED
      BY <1>3, <2>5, <3>1, ShortensKeeps
  <2>10. InOrder'
    <3>1. ASSUME NEW d \in Calls PROVE Unbegun(d)'
      <4>1. CASE d = c
        BY <1>4, <4>1 DEF Unbegun, Begun
      <4>2. CASE d # c
        BY <1>4, <2>3, <2>6, <4>2 DEF Unbegun, InOrder
      <4> QED
        BY <4>1, <4>2
    <3> QED
      BY <2>6, <3>1 DEF InOrder
  <2>11. TableOwned'
    BY <1>1, <1>2, <1>4, <2>1 DEF TableOwned, Types, TableTypes
  <2>12. TableOpen'
    BY <1>1, <2>1, <2>3 DEF TableOpen
  <2>13. EndsSuffice'
    BY <1>1, <2>6, <2>7, EndsKept
  <2>14. EndComes'
    BY <1>3, <1>4, <2>3, <2>4, <2>6, <2>7, <2>8 DEF EndComes
  <2> QED
    BY <1>3, <2>6, <2>9, <2>10, <2>11, <2>12, <2>13, <2>14
<1>6. CASE ~(GenerateAsync(c) /\ kind = "async" /\ streamers[id[c]] # None)
  <2>1. /\ instrs' = Append(instrs, [op |-> "add", id |-> id[c], call |-> c]) /\ UNCHANGED stream
        /\ syncQueue' \in {syncQueue, <<>>} /\ (kind = "async" => syncQueue' = syncQueue)
    BY <1>6 DEF GenerateAsync, GenerateSync
  <2>2. /\ \A i \in Ids : streamers'[i] = IF kind = "async" /\ i = id[c] THEN c ELSE streamers[i]
        /\ kind = "async" => streamers[id[c]] = None
    BY <1>6 DEF GenerateAsync, GenerateSync, Types, TableTypes
  <2>3. /\ Named' /\ (\A d \in Calls : Through(d)') /\ (\A d \in Calls : Present(d)' => Present(d) \/ d = c)
        /\ Owed(c)' /\ (syncQueue' = syncQueue => \A d \in Calls : Owed(d) => Owed(d)')
        /\ (\A d \in Calls : d # c /\ Orphanless(d) /\ (Listened(d) => Listened(d)') => Orphanless(d)')
        /\ (Listened(c)' => Orphanless(c)')
    BY <1>1, <2>1, AddInstr
  <2>4. Listened(c)' /\ \A d \in Calls : d # c /\ Listened(d) => Listened(d)'
    BY <1>2, <1>4, <2>2 DEF Listened
  <2>5. Waiting(c)' /\ \A d \in Calls : d # c => (Waiting(d)' <=> Waiting(d))
    BY <1>1, <1>4, <2>1 DEF Waiting, HasStop, Begun
  <2>6. \A d \in Quiet' : Orphanless(d)'
    BY <1>3, <2>3, <2>4
  <2>7. InOrder'
    <3>1. ASSUME NEW d \in Calls PROVE Unbegun(d)'
      <4>1. CASE d = c
        BY <1>4, <4>1 DEF Unbegun, Begun
      <4>2. CASE d # c
        BY <1>4, <2>1, <2>3, <4>2 DEF Unbegun, InOrder
      <4> QED
        BY <4>1, <4>2
    <3> QED
      BY <2>3, <3>1 DEF InOrder
  <2>8. TableOwned'
    <3> SUFFICES ASSUME NEW i \in Ids, streamers'[i] # None
                 PROVE  id[streamers'[i]] = i /\ pc'[streamers'[i]] \in {"run", "closing"}
      BY DEF TableOwned
    <3>1. CASE streamers'[i] = c
      <4>1. i = id[c]
        BY <1>1, <2>2, <3>1 DEF TableOwned
      <4> QED
        BY <1>4, <3>1, <4>1
    <3>2. CASE streamers'[i] # c
      BY <1>4, <2>2, <3>2 DEF TableOwned, Types, TableTypes
    <3> QED
      BY <3>1, <3>2
  <2>9. TableOpen'
    <3> SUFFICES ASSUME NEW d \in Calls, streamers'[id[d]] = d
                 PROVE  kind = "async" /\ \A j \in DOMAIN stream[d] : stream[d][j].kind = "chunk"
      BY <2>1 DEF TableOpen
    <3>1. CASE d = c
      BY <1>1, <1>2, <2>2, <3>1
    <3>2. CASE d # c
      BY <1>2, <2>2, <3>2 DEF TableOpen
    <3> QED
      BY <3>1, <3>2
  <2>10. EndsSuffice'
    BY <1>1, <2>3, <2>5, EndsBegin
  <2>11. EndComes'
    <3> SUFFICES ASSUME NEW d \in Quiet', pc'[d] = "run"
                 PROVE  /\ Waiting(d)' => Owed(d)' /\ Listened(d)'
                        /\ \A j \in DOMAIN stream[d] : stream[d][j].kind # "error"
      BY <2>1 DEF EndComes
    <3>1. CASE d = c
      BY <1>1, <2>3, <2>4, <3>1
    <3>2. CASE d # c
      <4>1. d \in Calls /\ d \in Quiet /\ pc[d] = "run" /\ pc[d] \in Begun
        BY <1>3, <1>4, <3>2 DEF Begun
      <4>2. kind = "async"
        BY <1>3, <3>2, <4>1, ScenarioFacts DEF Group, Types
      <4> QED
        BY <2>1, <2>3, <2>4, <2>5, <3>2, <4>1, <4>2 DEF EndComes
    <3> QED
      BY <3>1, <3>2
  <2> QED
    BY <1>3, <2>3, <2>6, <2>7, <2>8, <2>9, <2>10, <2>11
<1> QED
  BY <1>5, <1>6

\* A call is started or refused, or goes on after its echo.
LEMMA PreludeKeeps ==
  ASSUME ServingInv, NEW c \in Calls, Prelude(c)
  PROVE  ServingInv'
<1> USE DEF ServingInv
<1>0. Types'
  BY StartTypes
<1>1. /\ UNCHANGED <<kind, id, req, engine, outputs, terminated>>
      /\ pc[c] \in {"idle", "echo"}
  BY DEF Prelude
<1>2. CASE Generate(c) /\ ~terminated
  <2>1. kind \in {"async", "sync"}
    BY ScenarioFacts DEF Types
  <2>2. /\ (GenerateAsync(c) /\ kind = "async") \/ (GenerateSync(c) /\ kind = "sync")
        /\ pc' = [pc EXCEPT ![c] = "run"] /\ disturbed' = NowDisturbed(c)
    BY <1>2, <2>1 DEF Generate
  <2> QED
    BY <1>0, <1>1, <2>2, BeginKeeps
<1>3. CASE ~(Generate(c) /\ ~terminated)
  <2>1. /\ UNCHANGED <<streamers, instrs, stream, syncQueue, disturbed>>
        /\ \E x \in {"echo", "unused"} : pc' = [pc EXCEPT ![c] = x]
    BY <1>3 DEF Prelude, Generate
  <2>2. pc'[c] \in {"echo", "unused"} /\ pc'[c] \notin Begun /\ \A d \in Calls \ {c} : pc'[d] = pc[d]
    BY <2>1 DEF Types, PcTypes, Begun
  <2>3. /\ ~Present(c) /\ stream[c] = <<>> /\ ~Waiting(c) /\ pc[c] \notin Begun
        /\ streamers[id[c]] # c
    BY <1>1, IdleIsUnknown
  <2>4. TableMove(c)
    BY <2>1, <2>3 DEF TableMove
  <2>5. \A j \in DOMAIN stream'[c] : \E k \in DOMAIN stream[c] : stream'[c][j] = stream[c][k]
    BY <2>1
  <2>6. pc'[c] # "run"
    BY <2>2
  <2> QED
    BY <1>0, <1>1, <2>1, <2>2, <2>3, <2>4, <2>5, <2>6, MoveKeeps
<1> QED
  BY <1>2, <1>3

\* What a call finds in its stream after it has taken a batch.
LEMMA TakesItems ==
  ASSUME Types, NEW c \in Calls, NEW b \in Batches, Takes(c, b)
  PROVE  /\ \A d \in Calls \ {c} : stream'[d] = stream[d]
         /\ \A j \in DOMAIN stream'[c] :
              \/ \E k \in DOMAIN stream[c] : stream'[c][j] = stream[c][k]
              \/ stream'[c][j].kind = "chunk"
              \/ b.final /\ stream'[c][j].kind = "stop"
         /\ HasStop(c) => HasStop(c)'
         /\ b.final => HasStop(c)'
<1>1. PICK keep \in Keeps(c, b.outs) :
        /\ stream' = [stream EXCEPT ![c] = stream[c] \o ItemsOf(Detokenized(c, b.outs, keep), b.final)]
        /\ held' = NewHeld(c, b.outs, keep)
  BY DEF Takes
<1>2. PICK chunk \in Chunks : chunk = Detokenized(c, b.outs, keep)
  BY <1>1, TextFacts
<1> DEFINE new == ItemsOf(chunk, b.final)
<1>3. /\ new \in Seq(Items)
      /\ \A j \in DOMAIN new : new[j].kind = "chunk" \/ (b.final /\ new[j].kind = "stop")
      /\ b.final => \E j \in DOMAIN new : new[j].kind = "stop"
  <2>1. new \in Seq(Items)
    BY ItemsAreItems
  <2>2. CASE b.final
    <3>1. ASSUME NEW x \in Items, NEW y \in Items, NEW z \in Items
          PROVE  /\ DOMAIN (<<x>> \o <<y, z>>) = 1..3 /\ (<<x>> \o <<y, z>>)[1] = x
                 /\ (<<x>> \o <<y, z>>)[2] = y /\ (<<x>> \o <<y, z>>)[3] = z
      OBVIOUS
    <3>2. FinalChunk \in Chunks
      BY DEF FinalChunk, Chunks
    <3>3. ChunkItem(chunk) \in Items /\ ChunkItem(FinalChunk) \in Items /\ StopItem \in Items
      BY <3>2 DEF ChunkItem, StopItem, Item, Items
    <3>4. new = <<ChunkItem(chunk)>> \o <<ChunkItem(FinalChunk), StopItem>>
      BY <2>2 DEF ItemsOf
    <3>5. DOMAIN new = 1..3 /\ new[3].kind = "stop" /\ new[1].kind = "chunk" /\ new[2].kind = "chunk"
      BY <3>1, <3>3, <3>4 DEF ChunkItem, StopItem, Item
    <3> HIDE DEF new
    <3> QED
      BY <2>1, <2>2, <3>5
  <2>3. CASE ~b.final
    <3>1. new = <<ChunkItem(chunk)>>
      BY <2>3 DEF ItemsOf
    <3>2. DOMAIN new = 1..1 /\ new[1].kind = "chunk"
      BY <3>1 DEF ChunkItem, Item
    <3> HIDE DEF new
    <3> QED
      BY <2>1, <2>3, <3>2
  <2> QED
    BY <2>2, <2>3
<1>4. /\ \A d \in Calls \ {c} : stream'[d] = stream[d]
      /\ stream'[c] = stream[c] \o new /\ stream[c] \in Seq(Items)
  BY <1>1, <1>2 DEF Types, StreamTypes
<1> HIDE DEF new
<1>5. ASSUME NEW s \in Seq(Items), NEW t \in Seq(Items)
      PROVE  /\ \A j \in DOMAIN (s \o t) : \/ j \in DOMAIN s /\ (s \o t)[j] = s[j]
                                           \/ \E k \in DOMAIN t : (s \o t)[j] = t[k]
             /\ \A k \in DOMAIN s : k \in DOMAIN (s \o t) /\ (s \o t)[k] = s[k]
             /\ \A k \in DOMAIN t : Len(s) + k \in DOMAIN (s \o t) /\ (s \o t)[Len(s) + k] = t[k]
  <2>1. /\ DOMAIN (s \o t) = 1..(Len(s) + Len(t)) /\ DOMAIN s = 1..Len(s) /\ DOMAIN t = 1..Len(t)
        /\ Len(s) \in Nat /\ Len(t) \in Nat
        /\ \A k \in 1..Len(s) : (s \o t)[k] = s[k]
        /\ \A k \in 1..Len(t) : (s \o t)[Len(s) + k] = t[k]
    OBVIOUS
  <2>2. ASSUME NEW j \in 1..(Len(s) + Len(t)), j > Len(s) PROVE \E k \in 1..Len(t) : (s \o t)[j] = t[k]
    <3>1. j - Len(s) \in 1..Len(t) /\ Len(s) + (j - Len(s)) = j
      BY <2>1, <2>2
    <3>2. (s \o t)[Len(s) + (j - Len(s))] = t[j - Len(s)]
      BY <2>1, <3>1
    <3> QED
      BY <3>1, <3>2
  <2> QED
    BY <2>1, <2>2
<1>6. \A j \in DOMAIN stream'[c] : \/ j \in DOMAIN stream[c] /\ stream'[c][j] = stream[c][j]
                                  \/ \E k \in DOMAIN new : stream'[c][j] = new[k]
  BY <1>3, <1>4, <1>5
<1>7. /\ \A k \in DOMAIN stream[c] : \E j \in DOMAIN stream'[c] : stream'[c][j] = stream[c][k]
      /\ \A k \in DOMAIN new : \E j \in DOMAIN stream'[c] : stream'[c][j] = new[k]
  <2>1. /\ \A k \in DOMAIN stream[c] : k \in DOMAIN stream'[c] /\ stream'[c][k] = stream[c][k]
        /\ \A k \in DOMAIN new : /\ Len(stream[c]) + k \in DOMAIN stream'[c]
                                  /\ stream'[c][Len(stream[c]) + k] = new[k]
    BY <1>3, <1>4, <1>5
  <2> QED
    BY <2>1
<1>8. \A j \in DOMAIN stream'[c] :
         \/ \E k \in DOMAIN stream[c] : stream'[c][j] = stream[c][k]
         \/ stream'[c][j].kind = "chunk"
         \/ b.final /\ stream'[c][j].kind = "stop"
  BY <1>3, <1>6
<1>9. (HasStop(c) => HasStop(c)') /\ (b.final => HasStop(c)')
  BY <1>3, <1>7 DEF HasStop
<1> QED
  BY <1>4, <1>8, <1>9

\* Call c is the one that takes the oldest output.
TakenBy(c, b) ==
  /\ Takes(c, b)
  /\ \/ kind = "async" /\ streamers[b.id] = c /\ streamers' = PopFinished(b.id, b.final)
     \/ kind = "sync" /\ pc[c] = "run" /\ UNCHANGED streamers

\* A call takes the oldest output.
LEMMA TakenKeeps ==
  ASSUME ServingInv, Types', UNCHANGED <<kind, id, req, pc, instrs, engine, disturbed>>,
         Coming # <<>>, Coming' = Tail(Coming), NEW c \in Calls, TakenBy(c, Head(Coming))
  PROVE  ServingInv'
<1> USE DEF ServingInv
<1>1. PICK b \in Batches : b = Head(Coming)
  BY ComingTypes
<1>2. PICK e \in Calls : /\ e = b.call /\ b.id = id[e]
                         /\ Present(e) /\ (b.final => ~Present(e)')
                         /\ \A d \in Calls : Owed(d) /\ (d # e \/ ~b.final) => Owed(d)'
  <2>1. b.id = id[b.call]
    <3>1. 1 \in DOMAIN Coming /\ Coming[1] = b
      BY <1>1, ComingTypes
    <3> QED
      BY <3>1 DEF Named
  <2>2. b.call \in Calls
    BY <1>1 DEF Batches
  <2> QED
    BY <1>1, <2>1, <2>2, TailComing
<1>3. Named' /\ (\A d \in Calls : Through(d)') /\ (\A d \in Calls : Present(d)' => Present(d))
  BY TailComing
<1>4. \A d \in Calls : id[d] \in Ids /\ d # None /\ Group(d)' = Group(d)
  BY ScenarioFacts, FrontendAssumption DEF Types, Group
<1>5. /\ \A d \in Calls \ {c} : stream'[d] = stream[d]
      /\ \A j \in DOMAIN stream'[c] :
           \/ \E k \in DOMAIN stream[c] : stream'[c][j] = stream[c][k]
           \/ stream'[c][j].kind = "chunk"
           \/ b.final /\ stream'[c][j].kind = "stop"
      /\ HasStop(c) => HasStop(c)'
      /\ b.final => HasStop(c)'
  BY <1>1, TakesItems DEF TakenBy
<1>6. /\ pc[c] \in {"run", "closing"} /\ c \in Group(e)
      /\ kind = "async" => id[c] = b.id
  <2>1. CASE kind = "async"
    <3>1. streamers[b.id] = c
      BY <1>1, <2>1 DEF TakenBy
    <3> QED
      BY <1>2, <1>4, <3>1 DEF TableOwned, Group
  <2>2. CASE kind # "async"
    BY <2>2 DEF TakenBy, Group
  <2> QED
    BY <2>1, <2>2
<1>7. \A i \in Ids : streamers'[i] = IF kind = "async" /\ b.final /\ i = id[c] THEN None ELSE streamers[i]
  BY <1>1, <1>6 DEF TakenBy, PopFinished, Types, TableTypes
<1>8. /\ \A d \in Calls : Waiting(d)' => Waiting(d)
      /\ \A d \in Calls : Waiting(d) /\ (d # c \/ ~b.final) => Waiting(d)'
      /\ b.final => ~Waiting(c)'
  <2>1. ~b.final => (HasStop(c)' => HasStop(c))
    BY <1>5 DEF HasStop
  <2>2. \A d \in Calls \ {c} : HasStop(d)' <=> HasStop(d)
    BY <1>5 DEF HasStop
  <2> QED
    BY <1>5, <2>1, <2>2 DEF Waiting
<1>9. InOrder'
  <2>1. ASSUME NEW d \in Calls PROVE Unbegun(d)'
    <3>1. Present(d)' => pc'[d] \in Begun \cup {"done"}
      BY <1>3 DEF InOrder, Unbegun
    <3>2. pc'[d] \in {"idle", "echo"} => stream'[d] = <<>>
      BY <1>5, <1>6 DEF InOrder, Unbegun
    <3> QED
      BY <3>1, <3>2 DEF Unbegun
  <2> QED
    BY <1>3, <2>1 DEF InOrder
<1>10. Quiet' = Quiet /\ Quiet \subseteq Calls /\ QuietAlone'
  BY <1>4 DEF Quiet, QuietAlone
<1>11. TableOwned'
  BY <1>7 DEF TableOwned
<1>12. TableOpen'
  <2> SUFFICES ASSUME NEW d \in Calls, streamers'[id[d]] = d
               PROVE  kind = "async" /\ \A j \in DOMAIN stream'[d] : stream'[d][j].kind = "chunk"
    BY DEF TableOpen
  <2>1. streamers[id[d]] = d /\ kind = "async" /\ ~(b.final /\ d = c)
    BY <1>4, <1>7 DEF TableOpen
  <2>2. \A j \in DOMAIN stream[d] : stream[d][j].kind = "chunk"
    BY <2>1 DEF TableOpen
  <2> QED
    BY <1>5, <2>1, <2>2
<1>13. EndsSuffice'
  <2>1. CASE b.final
    BY <1>2, <1>3, <1>6, <1>8, <2>1, EndsTaken
  <2>2. CASE ~b.final
    BY <1>3, <1>8, <2>2, EndsKept
  <2> QED
    BY <2>1, <2>2
<1>14. \A d \in Quiet : pc[d] = "run" /\ Listened(d) /\ d = e => d = c
  <2> SUFFICES ASSUME NEW d \in Quiet, pc[d] = "run", Listened(d), d = e PROVE d = c
    OBVIOUS
  <2>1. CASE kind = "async"
    BY <1>1, <1>2, <2>1 DEF TakenBy, Listened
  <2>2. CASE kind # "async"
    <3>1. c \in Group(d) /\ pc[d] \in Begun /\ pc[c] \in Begun
      BY <1>6 DEF Begun
    <3> QED
      BY <3>1 DEF QuietAlone
  <2> QED
    BY <2>1, <2>2
<1>15. EndComes'
  <2> SUFFICES ASSUME NEW d \in Quiet, pc[d] = "run"
               PROVE  /\ Waiting(d)' => Owed(d)' /\ Listened(d)'
                      /\ \A j \in DOMAIN stream'[d] : stream'[d][j].kind # "error"
    BY <1>10 DEF EndComes
  <2>1. d \in Calls /\ \A j \in DOMAIN stream[d] : stream[d][j].kind # "error"
    BY <1>10 DEF EndComes
  <2>2. \A j \in DOMAIN stream'[d] : stream'[d][j].kind # "error"
    BY <1>5, <2>1
  <2>3. ASSUME Waiting(d)' PROVE Owed(d)' /\ Listened(d)'
    <3>1. Owed(d) /\ Listened(d) /\ ~(b.final /\ d = c)
      BY <1>8, <2>1, <2>3 DEF EndComes
    <3>2. Owed(d)'
      BY <1>2, <1>14, <2>1, <3>1
    <3>3. Listened(d)'
      <4>1. CASE kind = "async"
        <5>1. streamers[id[d]] = d
          BY <3>1, <4>1 DEF Listened
        <5>2. b.final => id[d] # id[c]
          BY <1>1, <1>6, <3>1, <4>1, <5>1 DEF TakenBy
        <5> QED
          BY <1>4, <1>7, <2>1, <4>1, <5>1, <5>2 DEF Listened
      <4>2. CASE kind # "async"
        BY <4>2 DEF Listened
      <4> QED
        BY <4>1, <4>2
    <3> QED
      BY <3>2, <3>3
  <2> QED
    BY <2>2, <2>3
<1>16. ASSUME NEW d \in Quiet PROVE Orphanless(d)'
  <2>1. CASE Listened(d) => Listened(d)'
    <3>1. HoldsOn(d) /\ Shortens
      BY <2>1 DEF HoldsOn, Shortens
    <3> QED
      BY <1>10, <3>1, ShortensKeeps
  <2>2. CASE ~(Listened(d) => Listened(d)')
    <3>1. kind = "async" /\ streamers[id[d]] = d /\ b.final /\ id[d] = id[c]
      BY <1>4, <1>7, <1>10, <2>2 DEF Listened
    <3>2. d = c
      BY <1>1, <1>6, <3>1 DEF TakenBy
    <3>3. pc[c] \in Begun /\ e \in Group(c)
      BY <1>2, <1>6, <3>1 DEF Begun, Group
    <3>4. \A x \in Group(c) : Present(x) => x = e
      BY <1>2, <3>2, <3>3, OnlyOne
    <3>5. ~Present(c)'
      <4>1. c \in Group(c)
        BY DEF Group
      <4> QED
        BY <1>2, <1>3, <3>1, <3>4, <4>1
    <3> QED
      BY <3>2, <3>5 DEF Present, Orphanless, Queued
  <2> QED
    BY <2>1, <2>2
<1> QED
  BY <1>3, <1>9, <1>10, <1>11, <1>12, <1>13, <1>15, <1>16

\* The oldest output is taken, by a call or by nobody.
LEMMA HandsOutKeeps ==
  ASSUME ServingInv, QueueTypes', HandsOut
  PROVE  ServingInv'
<1> USE DEF ServingInv
<1>0. Types'
  BY HandsOutTypes
<1>1. /\ UNCHANGED <<kind, id, req, pc, instrs, engine, disturbed>>
      /\ Coming # <<>> /\ Coming' = Tail(Coming)
  BY DEF HandsOut
<1>2. CASE \E c \in Calls : TakenBy(c, Head(Coming))
  BY <1>0, <1>1, <1>2, TakenKeeps
<1>3. CASE ~\E c \in Calls : TakenBy(c, Head(Coming))
  <2>1. streamers[Head(Coming).id] = None /\ kind = "async" /\ UNCHANGED <<stream, streamers>>
    BY <1>3 DEF HandsOut, TakenBy
  <2>2. Shortens
    BY <1>1 DEF Shortens
  <2>3. Quiet \subseteq Calls /\ \A c \in Calls : HoldsOn(c)
    BY <1>1, <2>1 DEF HoldsOn, Listened, Quiet
  <2>4. \A c \in Quiet : Orphanless(c)'
    BY <1>1, <2>2, <2>3, ShortensKeeps
  <2>5. /\ Named' /\ (\A c \in Calls : Through(c)') /\ (\A c \in Calls : Present(c)' => Present(c))
        /\ \A c \in Calls : Owed(c) /\ c # Head(Coming).call => Owed(c)'
    BY <1>1, TailComing
  <2>6. Head(Coming).id = id[Head(Coming).call]
    <3>1. 1 \in DOMAIN Coming /\ Coming[1] = Head(Coming)
      BY <1>1, ComingTypes
    <3> QED
      BY <3>1 DEF Named
  <2>7. ASSUME NEW c \in Quiet, pc[c] = "run", Waiting(c) PROVE Owed(c)'
    <3>1. Owed(c) /\ Listened(c) /\ c # None
      BY <2>3, <2>7, FrontendAssumption DEF EndComes
    <3> QED
      BY <2>1, <2>3, <2>5, <2>6, <3>1 DEF Listened
  <2> QED
    BY <1>0, <1>1, <2>1, <2>4, <2>5, <2>7, CallsUntouched
<1> QED
  BY <1>2, <1>3

\* A text streamer of MLCEngine raises: the call fails and is aborted.
LEMMA RaisesKeeps ==
  ASSUME ServingInv, QueueTypes', NEW c \in Calls, Raises(c)
  PROVE  ServingInv'
<1> USE DEF ServingInv
<1>0. Types'
  BY RaisesTypes
<1> DEFINE x == [op |-> "abort", id |-> id[c], call |-> None]
<1>1. /\ UNCHANGED <<kind, id, req, stream, engine, disturbed>> /\ kind = "sync"
      /\ Coming # <<>> /\ Coming' = Tail(Coming) /\ pc[c] = "run"
      /\ pc' = [pc EXCEPT ![c] = "failed"] /\ UNCHANGED streamers /\ instrs' = Append(instrs, x)
  BY DEF Raises, DoAbort, WithAbort
<1>2. x \in Instrs /\ x.op = "abort" /\ x.op # "add" /\ x.id = id[c]
  BY ScenarioFacts DEF Instrs, Types
<1> HIDE DEF x
<1>3. /\ pc'[c] = "failed" /\ pc[c] \in Begun /\ pc'[c] \in Begun
      /\ \A d \in Calls \ {c} : pc'[d] = pc[d]
  BY <1>1 DEF Types, PcTypes, Begun
<1>4. \A d \in Calls : Group(d) = Calls /\ Group(d)' = Calls
  BY <1>1 DEF Group
<1>5. Named' /\ (\A d \in Calls : Through(d)') /\ (\A d \in Calls : Present(d)' => Present(d))
  BY <1>1, <1>2, TailComing
<1>6. InOrder'
  BY <1>1, <1>3, <1>5 DEF InOrder, Unbegun, Begun
<1>7. Quiet' = Quiet /\ Quiet \subseteq Calls
  BY <1>1 DEF Quiet
<1>8. QuietAlone'
  BY <1>3, <1>4, <1>7 DEF QuietAlone
<1>9. \A i \in Ids : streamers'[i] = None
  BY <1>1, SyncTableEmpty
<1>10. TableOwned' /\ TableOpen'
  <2>1. \A d \in Calls : id[d] \in Ids /\ d # None
    BY ScenarioFacts, FrontendAssumption DEF Types
  <2> QED
    BY <1>1, <1>9, <2>1 DEF TableOwned, TableOpen
<1>11. \A d \in Calls : Waiting(d) => Waiting(d)'
  BY <1>1, <1>3 DEF Waiting, HasStop
<1>12. EndsSuffice'
  BY <1>1, <1>5, <1>11, EndsKept
<1>13. EndComes'
  <2> SUFFICES ASSUME NEW d \in Quiet, pc'[d] = "run" PROVE FALSE
    BY <1>7 DEF EndComes
  <2>1. d # c /\ pc[d] \in Begun /\ c \in Group(d)
    BY <1>3, <1>4, <1>7 DEF Begun
  <2> QED
    BY <1>3, <2>1 DEF QuietAlone
<1>14. \A d \in Quiet : Orphanless(d)'
  <2>1. \A d \in Calls : Listened(d) => Listened(d)' \/ (x.op = "abort" /\ x.id = id[d])
    BY <1>1, <1>2, <1>3 DEF Listened
  <2> QED
    BY <1>1, <1>2, <1>7, <2>1, AppendOrphans
<1> QED
  BY <1>0, <1>5, <1>6, <1>7, <1>8, <1>10, <1>12, <1>13, <1>14

\* At the start nobody is served.
LEMMA InitServing == Init => ServingInv
<1> SUFFICES ASSUME Init PROVE ServingInv
  OBVIOUS
<1>0. Types
  BY InitTypes
<1>1. /\ pc = [c \in Calls |-> "idle"] /\ stream = [c \in Calls |-> <<>>]
      /\ streamers = [i \in Ids |-> None] /\ engine = [i \in Ids |-> None]
      /\ instrs = <<>> /\ outputs = <<>> /\ syncQueue = <<>>
  BY DEF Init
<1>2. Coming = <<>> /\ DOMAIN Coming = {} /\ DOMAIN instrs = {}
  BY <1>1 DEF Coming
<1>3. \A c \in Calls : id[c] \in Ids /\ c # None
  BY <1>0, ScenarioFacts, FrontendAssumption DEF Types
<1>4. \A c \in Calls : ~Present(c) /\ engine[id[c]] # c /\ streamers[id[c]] # c
  BY <1>1, <1>2, <1>3 DEF Present, Queued, Emits
<1>5. Named /\ InOrder
  <2>1. Named
    BY <1>1, <1>2 DEF Named
  <2>2. \A c \in Calls : Through(c) /\ Unbegun(c)
    BY <1>1, <1>2, <1>4 DEF Through, Unbegun, Queued
  <2> QED
    BY <2>1, <2>2 DEF InOrder
<1>6. QuietAlone /\ TableOwned /\ TableOpen /\ EndComes
  BY <1>1, <1>4 DEF QuietAlone, TableOwned, TableOpen, EndComes, Begun, Quiet
<1>7. EndsSuffice
  <2> SUFFICES ASSUME NEW c \in Calls PROVE Cardinality(PresentIn(c)) <= Cardinality(WaitingIn(c))
    BY DEF EndsSuffice, PresentIn, WaitingIn
  <2>1. PresentIn(c) = {} /\ WaitingIn(c) \subseteq Calls
    BY <1>4 DEF PresentIn, WaitingIn, Group
  <2>2. Cardinality({}) = 0 /\ Cardinality(WaitingIn(c)) \in Nat
    BY <2>1, FS_EmptySet, FS_Subset, FS_CardinalityType, FrontendAssumption
  <2> QED
    BY <2>1, <2>2
<1>8. \A c \in Quiet : Orphanless(c)
  BY <1>2, <1>4 DEF Orphanless, Quiet
<1> QED
  BY <1>0, <1>5, <1>6, <1>7, <1>8 DEF ServingInv

\* Every step keeps the invariant.
LEMMA StepServing == ServingInv /\ [Next]_vars => ServingInv'
<1> SUFFICES ASSUME ServingInv, [Next]_vars PROVE ServingInv'
  OBVIOUS
<1>0. Types
  BY DEF ServingInv
<1>1. ASSUME NEW c \in Calls, Start(c) \/ Refuse(c) \/ AfterEcho(c) PROVE ServingInv'
  BY <1>0, <1>1, StartIsPrelude, PreludeKeeps
<1>2. ASSUME NEW c \in Calls, SyncGet(c) PROVE ServingInv'
  BY <1>0, <1>2, SyncGetCases, HandsOutKeeps, RaisesKeeps
<1>3. ASSUME NEW c \in Calls, Consume(c) PROVE ServingInv'
  BY <1>0, <1>3, ConsumeCases, ConsumesKeeps
<1>4. ASSUME NEW c \in Calls, Cancel(c) \/ Drop(c) \/ Close(c) PROVE ServingInv'
  BY <1>4, LeaveCases, LeftKeeps
<1>5. CASE Engine
  BY <1>5, EngineKeeps
<1>6. CASE Deliver
  <2>1. QueueTypes' /\ (HandsOut \/ Forwards)
    BY <1>0, <1>6, DeliverCases
  <2>2. CASE HandsOut
    BY <2>1, <2>2, HandsOutKeeps
  <2>3. CASE Forwards
    BY <1>0, <2>1, <2>3, ForwardsTypes, ForwardsKeeps DEF Forwards, callVars
  <2> QED
    BY <2>1, <2>2, <2>3
<1>7. CASE (\E i \in Ids : Abort(i)) \/ Reset \/ Terminate
  BY <1>7, ControlKeeps
<1>8. CASE UNCHANGED vars
  <2>1. /\ UNCHANGED <<kind, id, req, pc, stream, held, reasons, answer, streamers, syncQueue, instrs, engine,
                       made, outputs, terminated, control, disturbed>>
    BY <1>8 DEF vars, callVars, engineVars, ctrlVars
  <2>2. Coming' = Coming /\ Types'
    BY <1>0, <2>1, TypesKept DEF Coming, Types
  <2> QED
    BY <2>1, <2>2, ForwardsKeeps
<1> QED
  BY <1>1, <1>2, <1>3, <1>4, <1>5, <1>6, <1>7, <1>8 DEF Next

\* The invariant says who is served.
LEMMA ServingIsListening == ServingInv => ServedAreListening
<1> SUFFICES ASSUME ServingInv PROVE ServedAreListening
  OBVIOUS
<1>1. TypeOK /\ TableOwned
  BY TypesGiveTypeOK DEF ServingInv
<1>2. NoOrphans
  BY DEF ServingInv, NoOrphans, Orphanless, AbortAfter, AddOf
<1> QED
  BY <1>1, <1>2 DEF ServedAreListening

\* AsyncMLCEngine and MLCEngine, for any calls, ids and requests: the table of streams
\* holds only calls that run, and what the engine has or is about to get of an
\* undisturbed call has a listener, or its abort is queued behind it (ErrorCleanupScope,
\* _abort, the callbacks' pop of finished streams).
THEOREM ListenersAreServed == Spec => []ServedAreListening
<1>1. Init => ServingInv
  BY InitServing
<1>2. ServingInv /\ [Next]_vars => ServingInv'
  BY StepServing
<1>3. ServingInv => ServedAreListening
  BY ServingIsListening
<1> QED
  BY <1>1, <1>2, <1>3, PTL DEF Spec
=============================================================================
