------------------------------- MODULE Router -------------------------------
(***************************************************************************)
(* The router in front of several servers (python/mlc_llm/router/router.py, *)
(* interface/router.py), the processes it launches (server/popen_server.py) *)
(* and disaggregated serving behind it: the microserving endpoints and what *)
(* the engines do for them (engine.cc, disagg_prepare_recv.cc,              *)
(* disagg_remote_send.cc).                                                  *)
(*                                                                          *)
(* In mode "disagg" the decode server reserves KV cache for the first part  *)
(* of a prompt, server 0 computes that part and writes it there directly,   *)
(* and the decode server computes the rest and generates.  In mode          *)
(* "round-robin" one server does everything.  Every request of the router   *)
(* keeps its id through the calls and through the attempts that follow a    *)
(* preemption.  The coroutines of the router run in one event loop and are  *)
(* suspended while they wait for a server or for their consumer.            *)
(***************************************************************************)
EXTENDS Integers, Sequences, FiniteSets, FiniteSetsExt

CONSTANTS
  Requests,     \* requests of clients
  Streamed,     \* those with stream = True
  NumServers,   \* len(hosts)
  NumGpus,      \* num_gpus of each server
  Modes,        \* router_mode values to consider
  Balances,     \* values of ten times pd_balance_factor to consider
  PromptLen,    \* tokens of a prompt
  Capacity,     \* sequences the KV cache of a server has room for
  MaxChunks,    \* responses of a streamed answer
  MaxPolls,     \* polls of a starting server until the time-out
  MaxPreempts, MaxFaults   \* bounds of the model

Servers == 0..(NumServers - 1)
Positions == 0..(PromptLen - 1)

ASSUME RouterAssumption ==
  /\ Streamed \subseteq Requests
  /\ NumServers \in Nat \ {0, 1} /\ NumGpus \in [Servers -> Nat \ {0}]
  /\ Modes \subseteq {"disagg", "round-robin"} /\ Balances \subseteq 0..10
  /\ PromptLen \in Nat \ {0} /\ MaxChunks \in Nat \ {0} /\ Capacity \in Nat
  /\ MaxPolls \in Nat /\ MaxPreempts \in Nat /\ MaxFaults \in Nat

VARIABLES
  mode, balance, prefixCache,  \* configuration
  servers,   \* self.servers: indices of the PopenServers appended so far
  proc,      \* process of each server: "none", "booting", "up", "dead"
  thread,    \* thread that starts it: "new", "polling", "returned", "raised", "joined"
  polls,     \* attempts, in units of 0.1
  phase,     \* "launching", "serving" once the constructor has returned, "terminated"
  running,   \* self.num_running_requests
  pc,        \* coroutine of each request
  at,        \* its endpoint (decode_server_id, cur_endpoint)
  attempt,   \* number of its calls of translate_request
  reply,     \* responses under way to it
  got,       \* what its consumer has received: pairs of attempt and number
  handler,   \* HTTP handler at a server for a request: "none" or a job to add
  job,       \* state of the request in the engine of a server
  preempts, faults,
  abandoned  \* history: attempts left without uncounting, <<request, attempt, server>>

config == <<mode, balance, prefixCache>>
launch == <<servers, proc, thread, polls, phase>>
client == <<pc, at, attempt, reply, got, abandoned>>
engine == <<handler, job>>
bounds == <<preempts, faults>>
vars == <<config, launch, running, client, engine, bounds>>

Working == {"prep", "send", "gen"}
Prefiller == 0   \* prefill_server_id

\* Tasks of a handler: prepare a KV window up to end, compute and send
\* [begin, end) to the server with rank, generate from position begin on.
\* The metadata of a window to send covers meta positions.
Task(kind, begin, end, rank, meta) ==
  [kind |-> kind, begin |-> begin, end |-> end, rank |-> rank, meta |-> meta]
NoTask == Task("none", 0, 0, 0, 0)

\* No request: written counts how often each position of the prompt was put into
\* the sequence, begin is where the engine's own prefill starts.
NoJob == [st |-> "none", task |-> NoTask, written |-> [i \in Positions |-> 0], made |-> 0]

Init ==
  /\ mode \in Modes /\ balance \in Balances /\ prefixCache \in BOOLEAN
  \* without disaggregation the router reads neither of the two
  /\ mode = "round-robin" => balance = Min(Balances) /\ ~prefixCache
  /\ servers = {} /\ proc = [s \in Servers |-> "none"]
  /\ thread = [s \in Servers |-> "new"] /\ polls = [s \in Servers |-> 0]
  /\ phase = "launching"
  /\ running = [s \in Servers |-> 0]
  /\ pc = [r \in Requests |-> "new"] /\ at = [r \in Requests |-> Prefiller]
  /\ attempt = [r \in Requests |-> 0] /\ reply = [r \in Requests |-> <<>>]
  /\ got = [r \in Requests |-> <<>>]
  /\ handler = [s \in Servers |-> [r \in Requests |-> NoTask]]
  /\ job = [s \in Servers |-> [r \in Requests |-> NoJob]]
  /\ preempts = 0 /\ faults = 0 /\ abandoned = {}

----------------------------------------------------------------------------
(* Launching and terminating the servers                                    *)

\* A thread per server: the PopenServer is appended, then started.
StartServer(s) ==
  /\ thread[s] = "new"
  /\ servers' = servers \cup {s}
  /\ proc' = [proc EXCEPT ![s] = "booting"]
  /\ thread' = [thread EXCEPT ![s] = "polling"]
  /\ UNCHANGED <<config, polls, phase, running, client, engine, bounds>>

\* The subprocess becomes ready, or exits (external).
Boot(s) ==
  /\ proc[s] = "booting"
  /\ \E p \in {"up", "dead"} : proc' = [proc EXCEPT ![s] = p]
  /\ UNCHANGED <<config, servers, thread, polls, phase, running, client, engine, bounds>>

\* One turn of the loop that queries /v1/models.  When the loop ends without an
\* answer, a process that has exited is an error; attempts, a sum of tenths,
\* is then 120.1 and not equal to the time-out, so that otherwise start returns.
Poll(s) ==
  /\ thread[s] = "polling"
  /\ \/ /\ proc[s] = "up"
        /\ thread' = [thread EXCEPT ![s] = "returned"]
        /\ UNCHANGED polls
     \/ /\ proc[s] # "up" /\ polls[s] < MaxPolls
        /\ polls' = [polls EXCEPT ![s] = @ + 1]
        /\ UNCHANGED thread
     \/ /\ proc[s] # "up" /\ polls[s] = MaxPolls
        /\ thread' = [thread EXCEPT ![s] = IF proc[s] = "dead" THEN "raised" ELSE "returned"]
        /\ UNCHANGED polls
  /\ UNCHANGED <<config, servers, proc, phase, running, client, engine, bounds>>

\* All threads are joined and gone.  An exception in one of them ended only the thread.
Join ==
  /\ phase = "launching" /\ \A s \in Servers : thread[s] \in {"returned", "raised"}
  /\ phase' = "serving"
  /\ thread' = [s \in Servers |-> "joined"] /\ polls' = [s \in Servers |-> 0]
  /\ UNCHANGED <<config, servers, proc, running, client, engine, bounds>>

\* fault
KilledUpToDead(s) == s \in servers /\ \A t \in servers : t < s => proc[t] # "dead"
\* PopenServer.terminate returns quietly for a process that is already gone.
Killed(s) == s \in servers

\* Router.terminate, for every server appended, when no request is under way.
Terminate ==
  /\ phase = "serving" /\ \A r \in Requests : pc[r] \notin Working \cup {"retry"}
  /\ proc' = [s \in Servers |-> IF Killed(s) THEN "dead" ELSE proc[s]]
  /\ phase' = "terminated"
  /\ UNCHANGED <<config, servers, thread, polls, running, client, engine, bounds>>

----------------------------------------------------------------------------
(* The router                                                               *)

\* _pick_endpoint: the first of those with the fewest running requests.
PickEndpoint(cands) ==
  Min({s \in cands : \A t \in cands : running[s] <= running[t]})

\* device_id_starts: the rank of the first worker of a server, which is the number
\* of workers of the servers before it, and whose a rank is.
Workers(s) == {s} \X (0..(NumGpus[s] - 1))
DeviceIdStart(s) == Cardinality(UNION {Workers(t) : t \in 0..(s - 1)})
OwnerOf(rank) ==
  CHOOSE s \in Servers : DeviceIdStart(s) <= rank /\ rank < DeviceIdStart(s) + NumGpus[s]

\* kv_window_end: all but the last token without balancing; else the product in
\* floating point, truncated, which may be just below the exact one.
WindowEnds ==
  IF balance = 0 THEN {-1}
  ELSE LET exact == ((10 - balance) * PromptLen) \div 10
       IN  IF ((10 - balance) * PromptLen) % 10 = 0 /\ exact > 0
           THEN {exact, exact - 1} ELSE {exact}

\* "[:end]" as an index into the prompt.
Resolved(end) == IF end < 0 THEN PromptLen + end ELSE end

Post(h, s, r, task) == [h EXCEPT ![s][r] = task]

\* translate_request of a new request or of one to try again: pick a server,
\* count the request there and send the first call.
Translate(r) ==
  LET s == PickEndpoint(IF mode = "disagg" THEN Servers \ {Prefiller} ELSE Servers)
  IN  /\ pc[r] \in {"new", "retry"} /\ phase = "serving"
      /\ at' = [at EXCEPT ![r] = s]
      /\ running' = [running EXCEPT ![s] = @ + 1]
      /\ attempt' = [attempt EXCEPT ![r] = @ + 1]
      /\ \/ /\ mode = "disagg"
            /\ pc' = [pc EXCEPT ![r] = "prep"]
            /\ \E end \in WindowEnds : handler' = Post(handler, s, r, Task("prep", 0, end, 0, 0))
         \/ /\ mode = "round-robin"
            /\ pc' = [pc EXCEPT ![r] = "gen"]
            /\ handler' = Post(handler, s, r, Task("plain", 0, 0, 0, 0))
      /\ UNCHANGED <<config, launch, reply, got, abandoned, job, bounds>>

\* The part of the window that the prefill server has to send.
SendBegin(matched, end) == matched

\* The decode server has prepared: it has the first matched tokens of the window.
ReceivePrep(r) ==
  /\ pc[r] = "prep" /\ reply[r] # <<>>
  /\ LET matched == Head(reply[r]).matched
         end == Resolved(Head(reply[r]).end)
     IN  IF matched < end
         THEN /\ pc' = [pc EXCEPT ![r] = "send"]
              /\ handler' = Post(handler, Prefiller, r,
                   Task("send", SendBegin(matched, end), end, DeviceIdStart(at[r]),
                        Head(reply[r]).reserved))
         ELSE /\ pc' = [pc EXCEPT ![r] = "gen"]
              /\ handler' = Post(handler, at[r], r, Task("gen", end, 0, 0, 0))
  /\ reply' = [reply EXCEPT ![r] = Tail(@)]
  /\ UNCHANGED <<config, launch, running, at, attempt, got, abandoned, job, bounds>>

\* The prefill server has acknowledged the transfer.
ReceiveSend(r) ==
  /\ pc[r] = "send" /\ reply[r] # <<>>
  /\ pc' = [pc EXCEPT ![r] = "gen"]
  /\ handler' = Post(handler, at[r], r, Task("gen", Head(reply[r]).end, 0, 0, 0))
  /\ reply' = [reply EXCEPT ![r] = Tail(@)]
  /\ UNCHANGED <<config, launch, running, at, attempt, got, abandoned, job, bounds>>

\* A response of the answer is passed on.
ReceiveChunk(r) ==
  /\ pc[r] = "gen" /\ reply[r] # <<>> /\ Head(reply[r]).kind = "chunk"
  /\ got' = [got EXCEPT ![r] = Append(@, <<attempt[r], Head(reply[r]).no>>)]
  /\ reply' = [reply EXCEPT ![r] = Tail(@)]
  /\ UNCHANGED <<config, launch, running, pc, at, attempt, abandoned, engine, bounds>>

\* fault
RetryFromPreempted(r) == got' = [got EXCEPT ![r] = Append(@, <<attempt[r], 0>>)]
\* The response that says "preempt" itself is not passed on.
DropPreempted(r) == UNCHANGED got

\* A response with finish reason "preempt": None makes handle_completion leave the
\* loop and try again.  The generator is closed at its yield, and neither branch
\* that decrements the counter is run.
ReceivePreempt(r) ==
  /\ pc[r] = "gen" /\ reply[r] # <<>> /\ Head(reply[r]).kind = "preempt"
  /\ pc' = [pc EXCEPT ![r] = "retry"]
  /\ abandoned' = abandoned \cup {<<r, attempt[r], at[r]>>}
  /\ DropPreempted(r)
  /\ reply' = [reply EXCEPT ![r] = <<>>]
  /\ UNCHANGED <<config, launch, running, at, attempt, engine, bounds>>

\* The answer ends: the request is uncounted.
ReceiveEnd(r) ==
  /\ pc[r] = "gen" /\ reply[r] # <<>> /\ Head(reply[r]).kind = "end"
  /\ pc' = [pc EXCEPT ![r] = "ended"]
  /\ running' = [running EXCEPT ![at[r]] = @ - 1]
  /\ reply' = [reply EXCEPT ![r] = <<>>]
  /\ UNCHANGED <<config, launch, at, attempt, got, abandoned, engine, bounds>>

\* fault
StaysCounted(r) == UNCHANGED running
\* Only the disaggregated handler has an "except Exception".
Uncount(r) ==
  running' = IF mode = "disagg" THEN [running EXCEPT ![at[r]] = @ - 1] ELSE running

\* The server that the coroutine waits for.
Waited(r) == IF pc[r] = "send" THEN Prefiller ELSE at[r]

\* A call cannot be made, breaks or is answered with an error: what the handler at
\* the server does goes on unnoticed, unless the call never got there.
Fail(r) ==
  /\ pc[r] \in Working
  /\ \/ proc[Waited(r)] # "up" /\ UNCHANGED faults
     \/ faults < MaxFaults /\ faults' = faults + 1
  /\ pc' = [pc EXCEPT ![r] = "failed"]
  /\ Uncount(r)
  /\ abandoned' = IF mode = "disagg" THEN abandoned
                  ELSE abandoned \cup {<<r, attempt[r], at[r]>>}
  /\ reply' = [reply EXCEPT ![r] = <<>>]
  /\ \/ UNCHANGED handler
     \/ handler' = Post(handler, Waited(r), r, NoTask)
  /\ UNCHANGED <<config, launch, at, attempt, got, job, preempts>>

\* The client goes away.  That is noticed once there has been a response; the
\* generator is then cancelled or closed, with an exception that "except
\* Exception" does not catch.
Cancel(r) ==
  /\ pc[r] \in Working \cup {"retry"} /\ got[r] # <<>> /\ faults < MaxFaults
  /\ faults' = faults + 1
  /\ pc' = [pc EXCEPT ![r] = "cancelled"]
  /\ abandoned' = IF pc[r] = "retry" THEN abandoned
                  ELSE abandoned \cup {<<r, attempt[r], at[r]>>}
  /\ reply' = [reply EXCEPT ![r] = <<>>]
  /\ \/ UNCHANGED handler
     \/ pc[r] \in Working /\ handler' = Post(handler, Waited(r), r, NoTask)
  /\ UNCHANGED <<config, launch, running, at, attempt, got, job, preempts>>

----------------------------------------------------------------------------
(* The engines of the servers                                               *)

Reserved == {"prepared", "sending", "running"}
HasRoom(s) == Cardinality({r \in Requests : job[s][r].st \in Reserved}) < Capacity

\* Whoever waits for the reply of server s to request r gets it.
Reply(s, r, stage, msgs) ==
  reply' = IF pc[r] = stage /\ Waited(r) = s THEN [reply EXCEPT ![r] = @ \o msgs] ELSE reply

\* Writes put the positions [a, b) into a sequence.
Writes(written, a, b) ==
  [i \in Positions |-> written[i] + (IF a <= i /\ i < b THEN 1 ELSE 0)]

\* AddRequest with HandleDisaggRequest: a generation continues the prepared
\* request, which goes to the running queue; others are new and wait.
AddRequest(s, r) ==
  LET task == handler[s][r]
  IN  /\ proc[s] = "up" /\ task.kind # "none"
      /\ job' = [job EXCEPT ![s][r] =
            IF task.kind = "gen" THEN [@ EXCEPT !.st = "running", !.task = task]
            ELSE [NoJob EXCEPT !.st = "waiting", !.task = task]]
      /\ handler' = Post(handler, s, r, NoTask)
      /\ UNCHANGED <<config, launch, running, client, bounds>>

\* What the prefix cache may match of a window: never its last token.
Matches(end) == IF prefixCache THEN 0..(IF end > 0 THEN end - 1 ELSE 0) ELSE {0}

\* DisaggPrepareReceive: match, reserve the rest of the window and say where it is.
\* The request is then in no queue.
PrepareReceive(s, r) ==
  LET j == job[s][r]
      end == Resolved(j.task.end)
  IN  /\ j.st = "waiting" /\ j.task.kind = "prep" /\ HasRoom(s)
      /\ \E m \in Matches(end) :
           /\ job' = [job EXCEPT ![s][r] =
                         [j EXCEPT !.st = "prepared", !.written = Writes(j.written, 0, m)]]
           /\ Reply(s, r, "prep", <<[kind |-> "prepared", matched |-> m, reserved |-> end - m,
                                     end |-> j.task.end]>>)
      /\ UNCHANGED <<config, launch, running, pc, at, attempt, got, abandoned, handler, bounds>>

\* fault
SentPastEnd(task, made) == made > task.end - task.begin
\* The post-process finds the request no longer in the waiting queue.
AllSent(task, made) == made = task.end - task.begin

\* DisaggRemoteSend: a chunk of the window is computed and written into the
\* sequence of the server with that rank.
RemoteSend(s, r) ==
  LET task == job[s][r].task
      made == job[s][r].made
      dst == OwnerOf(task.rank)
      to == job[dst][r]
  IN  /\ task.kind = "send"
      /\ job[s][r].st = "sending" \/ (job[s][r].st = "waiting" /\ HasRoom(s))
      /\ \E n \in 1..(task.end - task.begin - made) :
           LET from == task.begin + made
               sent == [job EXCEPT ![dst][r] = [to EXCEPT !.written = Writes(to.written, from, from + n)]]
           IN  IF AllSent(task, made + n)
               THEN /\ job' = [sent EXCEPT ![s][r] = NoJob]
                    /\ Reply(s, r, "send", <<[kind |-> "sent", end |-> task.end]>>)
               ELSE /\ job' = [sent EXCEPT ![s][r] = [@ EXCEPT !.st = "sending", !.made = made + n]]
                    /\ UNCHANGED reply
      /\ UNCHANGED <<config, launch, running, pc, at, attempt, got, abandoned, handler, bounds>>

\* A plain completion request gets its sequence.
StartPlain(s, r) ==
  /\ job[s][r].st = "waiting" /\ job[s][r].task.kind = "plain" /\ HasRoom(s)
  /\ job' = [job EXCEPT ![s][r] = [@ EXCEPT !.st = "running"]]
  /\ UNCHANGED <<config, launch, running, client, handler, bounds>>

\* Responses of an answer: one without streaming.
NumResponses(r) == IF r \in Streamed THEN MaxChunks ELSE 1

\* fault
PrefillAll(task) == 0
\* The engine's own prefill starts at kv_window_begin.
PrefillFrom(task) == task.begin

\* A step of a running request: the first computes the rest of the prompt.
Generate(s, r) ==
  LET j == job[s][r]
      no == j.made + 1
      more == <<[kind |-> "chunk", no |-> no]>>
  IN  /\ j.st = "running"
      /\ IF no = NumResponses(r)
         THEN /\ job' = [job EXCEPT ![s][r] = NoJob]
              /\ Reply(s, r, "gen", Append(more, [kind |-> "end"]))
         ELSE /\ job' = [job EXCEPT ![s][r] = [j EXCEPT !.made = no,
                   !.written = IF j.made = 0 THEN Writes(j.written, PrefillFrom(j.task), PromptLen)
                               ELSE j.written]]
              /\ Reply(s, r, "gen", more)
      /\ UNCHANGED <<config, launch, running, pc, at, attempt, got, abandoned, handler, bounds>>

\* fault
PreemptedWaits(s, r) == job' = [job EXCEPT ![s][r].st = "prepared"]
\* A disaggregated engine does not restart a request itself: it is aborted.
Aborted(s, r) == job' = [job EXCEPT ![s][r] = NoJob]

\* PreemptLastRunningRequestStateEntry, and the "preempt" it streams back.
Preempt(s, r) ==
  /\ job[s][r].st = "running" /\ preempts < MaxPreempts
  /\ preempts' = preempts + 1
  /\ Aborted(s, r)
  /\ Reply(s, r, "gen", <<[kind |-> "preempt"]>>)
  /\ UNCHANGED <<config, launch, running, pc, at, attempt, got, abandoned, handler, faults>>

\* The server notices that nobody listens to the answer, after its first response.
AbortDisconnected(s, r) ==
  /\ job[s][r].st = "running" /\ job[s][r].made > 0 /\ pc[r] # "gen"
  /\ Aborted(s, r)
  /\ UNCHANGED <<config, launch, running, client, handler, bounds>>

----------------------------------------------------------------------------
EngineStep(s, r) ==
  \/ AddRequest(s, r) \/ PrepareReceive(s, r) \/ RemoteSend(s, r)
  \/ StartPlain(s, r) \/ Generate(s, r) \/ AbortDisconnected(s, r)

RouterStep(r) ==
  \/ Translate(r) \/ ReceivePrep(r) \/ ReceiveSend(r)
  \/ ReceiveChunk(r) \/ ReceivePreempt(r) \/ ReceiveEnd(r)

Next ==
  \/ \E s \in Servers : StartServer(s) \/ Boot(s) \/ Poll(s)
  \/ Join \/ Terminate
  \/ \E r \in Requests : RouterStep(r) \/ Fail(r) \/ Cancel(r)
  \/ \E s \in Servers, r \in Requests : EngineStep(s, r) \/ Preempt(s, r)

\* Threads and coroutines that can go on do, engines serve what they can, and a
\* call to a server that is not there fails.
Fairness ==
  /\ \A s \in Servers : WF_vars(StartServer(s)) /\ WF_vars(Poll(s))
  /\ WF_vars(Join)
  /\ \A r \in Requests : /\ WF_vars(RouterStep(r))
                         /\ WF_vars(Fail(r) /\ proc[Waited(r)] # "up")
  /\ \A s \in Servers, r \in Requests : WF_vars(EngineStep(s, r))

Spec == Init /\ [][Next]_vars /\ Fairness

----------------------------------------------------------------------------
(* Properties                                                               *)

\* The types of all variables.
TypeOK ==
  /\ mode \in Modes /\ balance \in Balances /\ prefixCache \in BOOLEAN
  /\ servers \subseteq Servers
  /\ proc \in [Servers -> {"none", "booting", "up", "dead"}]
  /\ thread \in [Servers -> {"new", "polling", "returned", "raised", "joined"}]
  /\ polls \in [Servers -> 0..MaxPolls]
  /\ phase \in {"launching", "serving", "terminated"}
  /\ running \in [Servers -> Nat]
  /\ pc \in [Requests -> Working \cup {"new", "retry", "ended", "failed", "cancelled"}]
  /\ at \in [Requests -> Servers] /\ attempt \in [Requests -> Nat]
  /\ abandoned \subseteq Requests \X Nat \X Servers
  /\ preempts \in 0..MaxPreempts /\ faults \in 0..MaxFaults

\* The attempts that are under way at a server.
Underway(s) == {<<r, attempt[r], s>> : r \in {q \in Requests : pc[q] \in Working /\ at[q] = s}}

\* num_running_requests counts the attempts under way at a server and those that
\* were left by an exception the handler does not catch, and nothing else: no
\* path uncounts a request twice or one that was never counted.
LoadCounted ==
  /\ TypeOK
  /\ \A s \in Servers :
       running[s] = Cardinality(Underway(s) \cup {a \in abandoned : a[3] = s})

\* The ICHECKs of HandleDisaggRequest hold when a call arrives, and the router's
\* assertion holds: a generation finds its prepared request, other calls find no
\* request with their id, and a window to send is not empty, ends before the
\* prompt does and is exactly what the decode server has reserved.
ChecksHold ==
  /\ \A s \in Servers, r \in Requests :
       LET task == handler[s][r]
       IN  /\ task.kind = "gen" => /\ job[s][r].st = "prepared"
                                   /\ 0 <= task.begin /\ task.begin < PromptLen
           /\ task.kind \in {"prep", "send", "plain"} => job[s][r].st = "none"
           /\ task.kind = "prep" => Resolved(task.end) \in 0..(PromptLen - 1)
           /\ task.kind = "send" =>
                /\ 0 <= task.begin /\ task.begin < task.end /\ task.end < PromptLen
                /\ task.meta = task.end - task.begin
  /\ \A r \in Requests : pc[r] = "prep" /\ reply[r] # <<>> =>
       Head(reply[r]).matched <= Resolved(Head(reply[r]).end)

\* When a decode server generates, every token of the prompt before kv_window_begin
\* has been put into its sequence exactly once, by a match or by the prefill
\* server, none after it has, and once it has generated all have exactly once.
KvWrittenOnce ==
  \A s \in Servers, r \in Requests : job[s][r].st = "running" =>
    job[s][r].written =
      [i \in Positions |-> IF i < job[s][r].task.begin \/ job[s][r].made > 0 THEN 1 ELSE 0]

\* The prefill server writes into the memory of another: whenever it still has
\* something to send, the sequence it writes to is reserved for that request.
WritesHitReserved ==
  \A s \in Servers, r \in Requests :
    job[s][r].st \in {"waiting", "sending"} /\ job[s][r].task.kind = "send" =>
      job[OwnerOf(job[s][r].task.rank)][r].st = "prepared"

\* Moving the KV window: the calls are accepted, write what is missing, and write
\* it where it is expected.
KvMovedRight == ChecksHold /\ KvWrittenOnce /\ WritesHitReserved

\* A sequence stays reserved for a request that is not under way at that server
\* only if the request failed or its client went away: retries leave nothing behind.
ReservationsOwned ==
  \A s \in Servers, r \in Requests : job[s][r].st = "prepared" =>
    (pc[r] \in Working /\ at[r] = s) \/ pc[r] \in {"failed", "cancelled"}

\* However often a request was preempted, its answer ends with all responses of its
\* last attempt in order, and no response of an attempt that was given up comes
\* after one of a later attempt.
AnswerComplete ==
  \A r \in Requests :
    /\ \A i, j \in DOMAIN got[r] : i < j =>
         \/ got[r][i][1] < got[r][j][1]
         \/ got[r][i][1] = got[r][j][1] /\ got[r][j][2] - got[r][i][2] = j - i
    /\ \A i \in DOMAIN got[r] : got[r][i][2] > 0
    /\ pc[r] = "ended" =>
         /\ Len(got[r]) >= NumResponses(r)
         /\ got[r][Len(got[r])] = <<attempt[r], NumResponses(r)>>
         /\ got[r][Len(got[r]) - NumResponses(r) + 1] = <<attempt[r], 1>>

\* After terminate no process of a server is left, however its start went.
NoStrayServers == phase = "terminated" => \A s \in Servers : proc[s] = "dead"

\* The constructor returns, also when servers do not come up.
LaunchEnds == <>(phase # "launching")

\* Somewhere a sequence is reserved for a request that is given up.
Stranded == \E s \in Servers, r \in Requests :
              job[s][r].st = "prepared" /\ pc[r] \in {"failed", "cancelled"}

\* A request under way ends, unless reserved sequences that nobody will use or free
\* take the room.
Answered ==
  \A r \in Requests :
    pc[r] \in Working ~> (pc[r] \in {"ended", "failed", "cancelled"} \/ Stranded)

\* Nobody waits for ever.
EverythingEnds == LaunchEnds /\ Answered
=============================================================================
