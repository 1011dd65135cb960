--------------------------- MODULE ThreadedEngine ---------------------------
(***************************************************************************)
(* The threads around the engine: client threads that put instructions     *)
(* into a queue, the background thread that takes them out and steps the   *)
(* engine, and the stream-back thread that takes the engine's outputs and  *)
(* calls the user's callback.  A critical section is one step, because     *)
(* what it touches is touched under the same mutex everywhere; what a      *)
(* thread does after unlocking (notify_one) and what another thread may do *)
(* without the mutex (ExitBackgroundLoop between the stream-back thread's  *)
(* predicate and its sleep) are steps of their own.                        *)
(*                                                                         *)
(* The engine is reduced to what the threads see of it: the requests it    *)
(* holds, each with a number of steps left, and the outputs it streams     *)
(* back.  One thread, the owner, reloads, unloads, resets and ends it.     *)
(* Definitions marked "fault" are wrong on purpose.                        *)
(***************************************************************************)
EXTENDS Integers, Sequences, FiniteSets, SequencesExt

CONSTANTS
    Clients,        \* the client threads
    Owner,          \* the client that also reloads, unloads, resets and ends
    Adders,         \* the clients that add requests; all may abort
    Requests,       \* the requests, each added at most once and aborted at most once
    NoRequest,      \* the argument of an instruction about no request
    MaxSteps,       \* bound: engine steps that a request takes
    MaxControls,    \* bound on calls of Reload, Unload and Reset
    MaxSpurious     \* bound on wakeups that no notification caused

ASSUME ThreadsAssumption ==
    /\ Owner \in Clients /\ Adders \subseteq Clients /\ NoRequest \notin Requests
    /\ {MaxSteps, MaxControls, MaxSpurious} \subseteq Nat /\ MaxSteps > 0

VARIABLES
    \* guarded by background_loop_mutex_
    queue,          \* instruction_queue_
    pending,        \* pending_request_operation_cnt_
    engineWaiting,  \* engine_waiting_
    exitNow,        \* exit_now_
    \* the background thread and its engine
    enginePc, local, loaded, live, toSend, owesNotify,
    \* guarded by request_stream_callback_mutex_
    outs,           \* request_stream_callback_inputs_
    outCnt,         \* pending_request_stream_callback_cnt_
    cbWaiting,      \* stream_callback_waiting_
    cbHeld,         \* the stream-back thread holds the mutex
    \* the stream-back thread
    streamPc, cbLocal,
    \* guarded by reload_unload_mutex_ (but reset without it)
    finished,       \* reload_finished_, unload_finished_
    \* the clients
    clientPc, op,
    asked,          \* the instructions about requests made so far
    controls,       \* number of other instructions made so far
    \* history
    emitted,        \* all batches that the engine streamed back
    delivered,      \* all batches that the user's callback got
    failed,         \* an ICHECK of the background thread has failed
    spurious        \* wakeups that no notification caused

engineVars == <<enginePc, local, loaded, live, toSend, owesNotify, emitted, failed>>
streamVars == <<outs, outCnt, cbWaiting, cbHeld, streamPc, cbLocal, delivered>>
clientVars == <<clientPc, op, asked, controls>>
loopVars == <<queue, pending, engineWaiting, exitNow>>
vars == <<loopVars, engineVars, streamVars, clientVars, finished, spurious>>

----------------------------------------------------------------------------
(* Instructions and outputs                                                *)

\* InstructionKind, with what each is about.
Ops == [kind : {"kAddRequest", "kAbortRequest"}, arg : Requests]
            \cup [kind : {"kUnloadEngine", "kReloadEngine", "kResetEngine"}, arg : {NoRequest}]
Control(kind) == [kind |-> kind, arg |-> NoRequest]
\* fault: Unload returns at once
AwaitedReload(o) == o.kind = "kReloadEngine"
\* Reload and Unload wait until the background thread has done it.
Awaited(o) == o.kind \in {"kReloadEngine", "kUnloadEngine"}

Output(r, what) == <<r, what>>
\* What one call of the engine's callback gets.
Batches == Seq(Requests \X {"delta", "usage", "abort", "length"})

Init ==
    /\ queue = <<>> /\ pending = 0 /\ engineWaiting = FALSE /\ exitNow = FALSE
    /\ enginePc = "top" /\ local = <<>> /\ loaded = FALSE /\ live = [r \in {} |-> 0]
    /\ toSend = <<>> /\ owesNotify = FALSE
    /\ outs = <<>> /\ outCnt = 0 /\ cbWaiting = FALSE /\ cbHeld = FALSE
    /\ streamPc = "top" /\ cbLocal = <<>>
    /\ finished = [k \in {"kReloadEngine", "kUnloadEngine"} |-> FALSE]
    /\ clientPc = [c \in Clients |-> "idle"] /\ op = [c \in Clients |-> Control("kResetEngine")]
    /\ asked = {} /\ controls = 0
    /\ emitted = <<>> /\ delivered = <<>>
    /\ failed = FALSE /\ spurious = 0

----------------------------------------------------------------------------
(* The client threads                                                      *)

\* What comes after an instruction is in the queue and the notification is sent.
AfterNotify(o) == IF Awaited(o) THEN "wait" ELSE "idle"

\* fault: engine_waiting_ is not read in the critical section
NeverNotify(o) == AfterNotify(o)
\* need_notify = engine_waiting_
NextClientPc(o) == IF engineWaiting THEN "notify" ELSE AfterNotify(o)

\* The critical section of every call, with background_loop_mutex_.
Enqueue(c, o) ==
    /\ queue' = Append(queue, o)
    /\ pending' = pending + 1
    /\ clientPc' = [clientPc EXCEPT ![c] = NextClientPc(o)]
    /\ op' = [op EXCEPT ![c] = o]
    /\ UNCHANGED <<engineWaiting, exitNow, engineVars, streamVars>>

\* Each request is added and aborted once at most; control calls are bounded.
Calls(c, o) ==
    /\ clientPc[c] = "idle" /\ ~failed
    /\ IF o.arg = NoRequest THEN controls < MaxControls ELSE o \notin asked
    /\ IF o.arg = NoRequest THEN controls' = controls + 1 /\ UNCHANGED asked
       ELSE asked' = asked \cup {o} /\ UNCHANGED controls

\* CreateRequest needs the configuration of a loaded engine; AddRequest comes later.
CreateRequest(c, r) ==
    LET o == [kind |-> "kAddRequest", arg |-> r]
    IN  /\ c \in Adders /\ Calls(c, o) /\ loaded
        /\ clientPc' = [clientPc EXCEPT ![c] = "created"]
        /\ op' = [op EXCEPT ![c] = o]
        /\ UNCHANGED <<loopVars, engineVars, streamVars, finished>>
AddRequest(c) == clientPc[c] = "created" /\ Enqueue(c, op[c]) /\ UNCHANGED <<asked, controls, finished>>

AbortRequest(c, r) ==
    LET o == [kind |-> "kAbortRequest", arg |-> r]
    IN  Calls(c, o) /\ Enqueue(c, o) /\ UNCHANGED finished

Reset ==
    LET o == Control("kResetEngine")
    IN  Calls(Owner, o) /\ Enqueue(Owner, o) /\ UNCHANGED finished

\* Reload and Unload first take back the flag they will wait for.
Begin(kind) ==
    LET o == Control(kind)
    IN  /\ Calls(Owner, o)
        /\ finished' = [finished EXCEPT ![kind] = FALSE]
        /\ clientPc' = [clientPc EXCEPT ![Owner] = "enqueue"]
        /\ op' = [op EXCEPT ![Owner] = o]
        /\ UNCHANGED <<loopVars, engineVars, streamVars>>
Reload == Begin("kReloadEngine")
Unload == Begin("kUnloadEngine")
EnqueueAwaited ==
    clientPc[Owner] = "enqueue" /\ Enqueue(Owner, op[Owner]) /\ UNCHANGED <<asked, controls, finished>>

\* background_loop_cv_.notify_one()
WakeEngine == enginePc' = IF enginePc = "asleep" THEN "woken" ELSE enginePc
OtherEngineVars == <<local, loaded, live, toSend, owesNotify, emitted, failed>>

NotifyEngine(c) ==
    /\ clientPc[c] = "notify"
    /\ WakeEngine
    /\ clientPc' = [clientPc EXCEPT ![c] = AfterNotify(op[c])]
    /\ UNCHANGED <<loopVars, OtherEngineVars, streamVars, op, asked, controls, finished>>

\* reload_unload_cv_.wait(lock, ...)
AwaitFinish(c) ==
    /\ clientPc[c] \in {"wait", "woken"}
    /\ clientPc' = [clientPc EXCEPT ![c] = IF finished[op[c].kind] THEN "idle" ELSE "asleep"]
    /\ UNCHANGED <<loopVars, engineVars, streamVars, op, asked, controls, finished>>

\* ExitBackgroundLoop: the flag, with background_loop_mutex_ only, then both
\* condition variables.
ExitBackgroundLoop ==
    /\ clientPc[Owner] = "idle" /\ ~failed /\ ~exitNow
    /\ exitNow' = TRUE
    /\ clientPc' = [clientPc EXCEPT ![Owner] = "exitEngine"]
    /\ UNCHANGED <<queue, pending, engineWaiting, engineVars, streamVars, op, asked, controls, finished>>
ExitNotifyEngine ==
    /\ clientPc[Owner] = "exitEngine"
    /\ WakeEngine
    /\ clientPc' = [clientPc EXCEPT ![Owner] = "exitStream"]
    /\ UNCHANGED <<loopVars, OtherEngineVars, streamVars, op, asked, controls, finished>>
ExitNotifyStream ==
    /\ clientPc[Owner] = "exitStream"
    /\ streamPc' = IF streamPc = "asleep" THEN "check" ELSE streamPc
    /\ clientPc' = [clientPc EXCEPT ![Owner] = "joining"]
    /\ UNCHANGED <<loopVars, engineVars, outs, outCnt, cbWaiting, cbHeld, cbLocal, delivered,
                   op, asked, controls, finished>>

ClientStep(c) == (AddRequest(c) \/ NotifyEngine(c) \/ AwaitFinish(c)) /\ UNCHANGED spurious
OwnerStep == (EnqueueAwaited \/ ExitNotifyEngine \/ ExitNotifyStream) /\ UNCHANGED spurious

----------------------------------------------------------------------------
(* The background thread: RunBackgroundLoop                                *)

\* while (!exit_now_)
LoopHead == IF exitNow THEN "done" ELSE "lock"
EngineTop ==
    /\ enginePc = "top" /\ toSend = <<>> /\ ~owesNotify
    /\ enginePc' = LoopHead
    /\ UNCHANGED <<loopVars, OtherEngineVars, streamVars, clientVars, finished>>

\* The predicate of background_loop_cv_.
HasWork == (loaded /\ DOMAIN live # {}) \/ pending > 0 \/ exitNow

\* The queue is taken over and counted as empty.
ClearsCount == pending' = 0
EngineWait ==
    /\ enginePc \in {"lock", "woken"}
    /\ engineWaiting' = ~HasWork
    /\ enginePc' = IF HasWork THEN "work" ELSE "asleep"
    /\ IF HasWork THEN local' = queue /\ queue' = <<>> /\ ClearsCount
       ELSE UNCHANGED <<local, queue, pending>>
    /\ UNCHANGED <<exitNow, loaded, live, toSend, owesNotify, emitted, failed, streamVars,
                   clientVars, finished>>

\* The engine streams back batches of outputs: one call of the callback each.
Emit(batches) ==
    /\ toSend' = batches
    /\ emitted' = emitted \o batches
Working(kinds) ==
    /\ enginePc = "work" /\ toSend = <<>> /\ ~owesNotify
    /\ local # <<>> /\ Head(local).kind \in kinds
\* AbortRequest streams back a last output, one call for each request, in the order
\* of a hash table.
Ended(rs) == {[i \in DOMAIN order |-> <<Output(order[i], "abort")>>] : order \in SetToSeqs(rs)}
EmitEnded(rs) == \E batches \in Ended(rs) : Emit(batches)
Remaining(rs) == [r \in DOMAIN live \ rs |-> live[r]]

\* kAddRequest: the engine may refuse a request (a prompt that is too long).
RunAdd ==
    LET r == Head(local).arg
    IN  /\ Working({"kAddRequest"})
        /\ failed' = (failed \/ ~loaded)
        /\ \/ /\ live' = [x \in DOMAIN live \cup {r} |-> IF x = r THEN MaxSteps ELSE live[x]]
              /\ UNCHANGED <<toSend, emitted>>
           \/ Emit(<< <<Output(r, "length")>> >>) /\ UNCHANGED live
        /\ local' = Tail(local)
        /\ UNCHANGED <<loopVars, enginePc, loaded, owesNotify, streamVars, clientVars, finished>>

\* kAbortRequest: ignored without an engine, or if the request is not there.
RunAbort ==
    LET rs == {Head(local).arg} \cap DOMAIN live
    IN  /\ Working({"kAbortRequest"})
        /\ live' = Remaining(rs) /\ EmitEnded(rs)
        /\ local' = Tail(local)
        /\ UNCHANGED <<loopVars, enginePc, loaded, owesNotify, failed, streamVars, clientVars, finished>>

\* kResetEngine
RunReset ==
    /\ Working({"kResetEngine"})
    /\ live' = Remaining(DOMAIN live) /\ EmitEnded(DOMAIN live)
    /\ local' = Tail(local)
    /\ UNCHANGED <<loopVars, enginePc, loaded, owesNotify, failed, streamVars, clientVars, finished>>

\* EngineUnloadImpl, in three parts: all requests are aborted; the engine is gone
\* and the flag is set; the waiting client is notified.
RunUnload ==
    /\ Working({"kUnloadEngine", "kReloadEngine"})
    /\ live' = Remaining(DOMAIN live) /\ EmitEnded(DOMAIN live)
    /\ enginePc' = "unload"
    /\ UNCHANGED <<loopVars, local, loaded, owesNotify, failed, streamVars, clientVars, finished>>
\* fault
UnloadKeepsFlag == finished
UnloadSetsFlag == [finished EXCEPT !["kUnloadEngine"] = TRUE]
FinishUnload ==
    /\ enginePc = "unload" /\ toSend = <<>> /\ ~owesNotify
    /\ loaded' = FALSE
    /\ finished' = UnloadSetsFlag
    /\ enginePc' = "notifyUnload"
    /\ UNCHANGED <<loopVars, local, live, toSend, owesNotify, emitted, failed, streamVars, clientVars>>

\* reload_unload_cv_.notify_one(): any one of the sleeping clients, if there is one.
WakeClient ==
    LET sleeping == {c \in Clients : clientPc[c] = "asleep"}
    IN  IF sleeping = {} THEN UNCHANGED clientPc
        ELSE \E c \in sleeping : clientPc' = [clientPc EXCEPT ![c] = "woken"]
NotifyUnload ==
    /\ enginePc = "notifyUnload"
    /\ WakeClient
    /\ IF Head(local).kind = "kReloadEngine" THEN enginePc' = "reload" /\ UNCHANGED local
       ELSE enginePc' = "work" /\ local' = Tail(local)
    /\ UNCHANGED <<loopVars, loaded, live, toSend, owesNotify, emitted, failed, streamVars, op, asked, controls,
                   finished>>

\* EngineReloadImpl: the new engine, the flag, the notification.
RunReload ==
    /\ enginePc = "reload"
    /\ loaded' = TRUE
    /\ finished' = [finished EXCEPT !["kReloadEngine"] = TRUE]
    /\ enginePc' = "notifyReload"
    /\ UNCHANGED <<loopVars, local, live, toSend, owesNotify, emitted, failed, streamVars, clientVars>>
NotifyReload ==
    /\ enginePc = "notifyReload"
    /\ WakeClient
    /\ enginePc' = "work" /\ local' = Tail(local)
    /\ UNCHANGED <<loopVars, loaded, live, toSend, owesNotify, emitted, failed, streamVars, op, asked, controls,
                   finished>>

\* The queue is done: one step of the engine, with an output for each request,
\* the last one when it has no steps left.
StepEngine ==
    LET over == {r \in DOMAIN live : live[r] = 1}
        batch(rs) == [i \in DOMAIN rs |->
                        Output(rs[i], IF rs[i] \in over THEN "usage" ELSE "delta")]
    IN  /\ enginePc = "work" /\ local = <<>> /\ toSend = <<>> /\ ~owesNotify
        /\ live' = [r \in DOMAIN live \ over |-> live[r] - 1]
        /\ IF DOMAIN live = {} THEN UNCHANGED <<toSend, emitted>>
           ELSE \E rs \in SetToSeqs(DOMAIN live) : Emit(<<batch(rs)>>)
        /\ enginePc' = "top"
        /\ UNCHANGED <<loopVars, local, loaded, owesNotify, failed, streamVars, clientVars, finished>>

\* need_notify = stream_callback_waiting_
MustTell == cbWaiting
\* frequest_stream_callback_wrapper: the batch is put into the other queue, then
\* the stream-back thread is notified if it was waiting.
PushOutput ==
    /\ toSend # <<>> /\ ~owesNotify /\ ~cbHeld
    /\ outs' = Append(outs, Head(toSend)) /\ outCnt' = outCnt + 1
    /\ toSend' = Tail(toSend)
    /\ owesNotify' = MustTell
    /\ UNCHANGED <<loopVars, enginePc, local, loaded, live, emitted, failed, cbWaiting, cbHeld, streamPc,
                   cbLocal, delivered, clientVars, finished>>
NotifyStream ==
    /\ owesNotify
    /\ owesNotify' = FALSE
    /\ streamPc' = IF streamPc = "asleep" THEN "check" ELSE streamPc
    /\ UNCHANGED <<loopVars, enginePc, local, loaded, live, toSend, emitted, failed, outs, outCnt,
                   cbWaiting, cbHeld, cbLocal, delivered, clientVars, finished>>

EngineStep ==
    /\ ~failed /\ UNCHANGED spurious
    /\ \/ EngineTop \/ EngineWait \/ RunAdd \/ RunAbort \/ RunReset \/ RunUnload \/ FinishUnload
       \/ NotifyUnload \/ RunReload \/ NotifyReload \/ StepEngine \/ PushOutput \/ NotifyStream

----------------------------------------------------------------------------
(* The stream-back thread: RunBackgroundStreamBackLoop                     *)

StreamTop ==
    /\ streamPc = "top"
    /\ streamPc' = IF exitNow THEN "done" ELSE "check"
    /\ UNCHANGED <<loopVars, engineVars, outs, outCnt, cbWaiting, cbHeld, cbLocal, delivered, clientVars,
                   finished>>

\* The predicate of request_stream_callback_cv_; exit_now_ is not guarded by the
\* mutex that the thread holds from here to its sleep.
StreamCheck ==
    /\ streamPc = "check"
    /\ IF outCnt > 0 \/ exitNow
       THEN /\ cbWaiting' = FALSE /\ streamPc' = "deliver"
            /\ cbLocal' = outs /\ outs' = <<>> /\ outCnt' = 0 /\ UNCHANGED cbHeld
       ELSE /\ cbWaiting' = TRUE /\ streamPc' = "sleep" /\ cbHeld' = TRUE
            /\ UNCHANGED <<cbLocal, outs, outCnt>>
    /\ UNCHANGED <<loopVars, engineVars, delivered, clientVars, finished>>
StreamSleep ==
    /\ streamPc = "sleep"
    /\ streamPc' = "asleep" /\ cbHeld' = FALSE
    /\ UNCHANGED <<loopVars, engineVars, outs, outCnt, cbWaiting, cbLocal, delivered, clientVars, finished>>

\* fault: flattened_callback_inputs is not cleared
DeliverAgain == UNCHANGED cbLocal
Delivered == cbLocal' = <<>>
StreamDeliver ==
    /\ streamPc = "deliver"
    /\ delivered' = delivered \o cbLocal
    /\ Delivered
    /\ streamPc' = "top"
    /\ UNCHANGED <<loopVars, engineVars, outs, outCnt, cbWaiting, cbHeld, clientVars, finished>>

StreamStep == (StreamTop \/ StreamCheck \/ StreamSleep \/ StreamDeliver) /\ UNCHANGED spurious

\* A condition variable may wake without a notification.
SpuriousWakeup ==
    /\ spurious < MaxSpurious /\ spurious' = spurious + 1
    /\ \/ /\ enginePc = "asleep" /\ enginePc' = "woken"
          /\ UNCHANGED <<streamPc, clientPc>>
       \/ /\ streamPc = "asleep" /\ streamPc' = "check"
          /\ UNCHANGED <<enginePc, clientPc>>
       \/ /\ clientPc[Owner] = "asleep" /\ clientPc' = [clientPc EXCEPT ![Owner] = "woken"]
          /\ UNCHANGED <<enginePc, streamPc>>
    /\ UNCHANGED <<loopVars, OtherEngineVars, outs, outCnt, cbWaiting, cbHeld, cbLocal, delivered,
                   op, asked, controls, finished>>

----------------------------------------------------------------------------
(* Specification                                                           *)

Call ==
    /\ \/ \E c \in Clients, r \in Requests : CreateRequest(c, r) \/ AbortRequest(c, r)
       \/ Reset \/ Reload \/ Unload \/ ExitBackgroundLoop
    /\ UNCHANGED spurious
Next ==
    \/ Call \/ (\E c \in Clients : ClientStep(c)) \/ OwnerStep
    \/ EngineStep \/ StreamStep
    \/ SpuriousWakeup

\* Each thread goes on when it can; no thread has to make another call.
Fairness ==
    /\ WF_vars(EngineStep) /\ WF_vars(StreamStep) /\ WF_vars(OwnerStep)
    /\ \A c \in Clients : WF_vars(ClientStep(c))
Spec == Init /\ [][Next]_vars /\ Fairness

----------------------------------------------------------------------------
(* Properties                                                              *)

\* Types; the two counters, which the threads read in place of the queues, are
\* the lengths of the queues.
TypeOK ==
    /\ queue \in Seq(Ops) /\ local \in Seq(Ops)
    /\ pending = Len(queue) /\ outCnt = Len(outs)
    /\ {engineWaiting, exitNow, loaded, owesNotify, cbWaiting, cbHeld, failed} \subseteq BOOLEAN
    /\ enginePc \in {"top", "lock", "asleep", "woken", "work", "unload", "notifyUnload", "reload",
                     "notifyReload", "done"}
    /\ streamPc \in {"top", "check", "sleep", "asleep", "deliver", "done"}
    /\ clientPc \in [Clients -> {"idle", "created", "enqueue", "notify", "wait", "asleep", "woken",
                                 "exitEngine", "exitStream", "joining"}]
    /\ op \in [Clients -> Ops] /\ asked \subseteq Ops /\ controls \in 0..MaxControls
    /\ finished \in [{"kReloadEngine", "kUnloadEngine"} -> BOOLEAN]
    /\ DOMAIN live \subseteq Requests /\ IsFiniteSet(DOMAIN live)
    /\ {toSend, outs, cbLocal, emitted, delivered} \subseteq Seq(Batches)

\* The ICHECK "Background engine is not loaded." never fails, and the counters the
\* threads read in place of the queues are right whenever they read them.
ChecksHold == TypeOK /\ ~failed

\* The background thread never sleeps on work that nobody will tell it about:
\* requests in its engine, instructions or the exit flag.
EngineIsWoken ==
    enginePc = "asleep" /\ HasWork => \E c \in Clients : clientPc[c] \in {"notify", "exitEngine"}

\* The stream-back thread never sleeps on outputs that nobody will tell it about.
StreamIsWoken == streamPc \in {"sleep", "asleep"} /\ outCnt > 0 => owesNotify

\* No wakeup is lost.
NoLostWakeup == EngineIsWoken /\ StreamIsWoken

\* Outputs reach the callback once each and in order: what the engine streamed back
\* is what the callback got, followed by what the threads hand on.
NothingLost == emitted = delivered \o cbLocal \o outs \o toSend

\* A request that was added ends for its caller, unless the threads are told to exit.
Final(r) ==
    \E i \in DOMAIN delivered : \E j \in DOMAIN delivered[i] :
        delivered[i][j][1] = r /\ delivered[i][j][2] # "delta"
EveryRequestEnds ==
    \A r \in Requests : [kind |-> "kAddRequest", arg |-> r] \in asked ~> Final(r) \/ exitNow

\* Reload and Unload return.
CallsReturn == clientPc[Owner] = "enqueue" ~> clientPc[Owner] = "idle"

\* The background thread ends after ExitBackgroundLoop.
EngineExits == exitNow ~> enginePc = "done"

\* Everything a caller waits for happens.
EverythingEnds == EveryRequestEnds /\ CallsReturn /\ EngineExits

\* "ExitBackgroundLoop" lets both threads end.
BothExit == exitNow ~> enginePc = "done" /\ streamPc = "done"
=============================================================================
