------------------------ MODULE ThreadedEngineProofs ------------------------
(***************************************************************************)
(* The threads around the engine, for any number of clients, requests,     *)
(* calls and spurious wakeups:                                             *)
(*   - no wakeup is lost.  The two condition variables are independent, so *)
(*     each has its own inductive invariant: a thread that sleeps is known *)
(*     to be waiting (the flag that the other side reads in its critical   *)
(*     section), and whoever made the predicate true still owes the        *)
(*     notification;                                                       *)
(*   - no output is lost, doubled or overtaken on its way to the callback; *)
(*   - the engine is there whenever a request is to be added, if requests  *)
(*     are added by the thread that reloads and unloads it.                *)
(***************************************************************************)
EXTENDS ThreadedEngine, TLAPS, FiniteSetTheorems, SequenceTheorems

----------------------------------------------------------------------------
(* The background thread                                                   *)

\* Wakes or will wake the background thread.
Notifier(c) == clientPc[c] \in {"notify", "exitEngine"}

\* The inductive invariant: while the background thread sleeps, engine_waiting_
\* is set, and what it waits for comes with a notifier.
EngineInv ==
    /\ DOMAIN clientPc = Clients
    /\ enginePc = "asleep" => engineWaiting = TRUE
    /\ EngineIsWoken

\* EngineInv only depends on what a step leaves alone.
LEMMA EngineInvKept ==
    ASSUME EngineInv,
           UNCHANGED <<enginePc, engineWaiting, loaded, live, pending, exitNow>>,
           DOMAIN clientPc' = Clients,
           \A c \in Clients : Notifier(c) => Notifier(c)'
    PROVE  EngineInv'
BY DEF EngineInv, EngineIsWoken, HasWork, Notifier

\* A step after which the background thread is not asleep.
LEMMA EngineInvAwake ==
    ASSUME EngineInv, DOMAIN clientPc' = Clients, enginePc' # "asleep"
    PROVE  EngineInv'
BY DEF EngineInv, EngineIsWoken

\* What a client puts into the queue is announced if the background thread waits.
LEMMA EnqueueKeepsEngineInv ==
    ASSUME EngineInv, NEW c \in Clients, NEW o, Enqueue(c, o)
    PROVE  EngineInv'
<1>1. DOMAIN clientPc' = Clients
    BY DEF EngineInv, Enqueue
<1>2. CASE enginePc = "asleep"
    <2>1. clientPc'[c] = "notify"
        BY <1>2 DEF EngineInv, Enqueue, NextClientPc
    <2>2. UNCHANGED <<enginePc, engineWaiting>>
        BY DEF Enqueue, engineVars
    <2> QED
        BY <1>1, <1>2, <2>1, <2>2 DEF EngineInv, EngineIsWoken
<1>3. CASE enginePc # "asleep"
    BY <1>1, <1>3, EngineInvAwake DEF Enqueue, engineVars
<1> QED
    BY <1>2, <1>3

\* A client that pushes and notifies keeps what wakes the background thread.
LEMMA ClientKeepsEngineInv ==
    ASSUME EngineInv, NEW c \in Clients, ClientStep(c)
    PROVE  EngineInv'
<1>1. CASE AddRequest(c)
    BY <1>1, EnqueueKeepsEngineInv DEF AddRequest
<1>2. CASE NotifyEngine(c)
    <2>1. DOMAIN clientPc' = Clients /\ enginePc' # "asleep"
        BY <1>2 DEF NotifyEngine, WakeEngine, EngineInv
    <2> QED
        BY <2>1, EngineInvAwake
<1>3. CASE AwaitFinish(c)
    <2>1. \A d \in Clients : Notifier(d) => Notifier(d)'
        BY <1>3 DEF AwaitFinish, Notifier, EngineInv
    <2>2. DOMAIN clientPc' = Clients
        BY <1>3 DEF AwaitFinish, EngineInv
    <2>3. UNCHANGED <<enginePc, engineWaiting, loaded, live, pending, exitNow>>
        BY <1>3 DEF AwaitFinish, loopVars, engineVars
    <2> QED
        BY <2>1, <2>2, <2>3, EngineInvKept
<1> QED
    BY <1>1, <1>2, <1>3 DEF ClientStep

\* The owner keeps what wakes the background thread.
LEMMA OwnerKeepsEngineInv ==
    ASSUME EngineInv, OwnerStep
    PROVE  EngineInv'
<1>0. Owner \in Clients
    BY ThreadsAssumption
<1>1. CASE EnqueueAwaited
    BY <1>0, <1>1, EnqueueKeepsEngineInv DEF EnqueueAwaited
<1>2. CASE ExitNotifyEngine
    <2>1. DOMAIN clientPc' = Clients /\ enginePc' # "asleep"
        BY <1>2 DEF ExitNotifyEngine, WakeEngine, EngineInv
    <2> QED
        BY <2>1, EngineInvAwake
<1>3. CASE ExitNotifyStream
    <2>1. \A d \in Clients : Notifier(d) => Notifier(d)'
        BY <1>3 DEF ExitNotifyStream, Notifier, EngineInv
    <2>2. DOMAIN clientPc' = Clients
        BY <1>3 DEF ExitNotifyStream, EngineInv
    <2>3. UNCHANGED <<enginePc, engineWaiting, loaded, live, pending, exitNow>>
        BY <1>3 DEF ExitNotifyStream, loopVars, engineVars
    <2> QED
        BY <2>1, <2>2, <2>3, EngineInvKept
<1> QED
    BY <1>1, <1>2, <1>3 DEF OwnerStep

\* A new call keeps what wakes the background thread.
LEMMA CallKeepsEngineInv ==
    ASSUME EngineInv, Call
    PROVE  EngineInv'
<1>0. Owner \in Clients
    BY ThreadsAssumption
<1>1. ASSUME NEW c \in Clients, NEW r \in Requests, CreateRequest(c, r)
      PROVE  EngineInv'
    <2>1. clientPc[c] = "idle" /\ clientPc' = [clientPc EXCEPT ![c] = "created"]
        BY <1>1 DEF CreateRequest, Calls
    <2>2. \A d \in Clients : Notifier(d) => Notifier(d)'
        BY <2>1 DEF Notifier, EngineInv
    <2>3. DOMAIN clientPc' = Clients
        BY <2>1 DEF EngineInv
    <2>4. UNCHANGED <<enginePc, engineWaiting, loaded, live, pending, exitNow>>
        BY <1>1 DEF CreateRequest, loopVars, engineVars
    <2> QED
        BY <2>2, <2>3, <2>4, EngineInvKept
<1>2. ASSUME NEW c \in Clients, NEW r \in Requests, AbortRequest(c, r)
      PROVE  EngineInv'
    BY <1>2, EnqueueKeepsEngineInv DEF AbortRequest
<1>3. CASE Reset
    BY <1>0, <1>3, EnqueueKeepsEngineInv DEF Reset
<1>4. ASSUME NEW kind, Begin(kind)
      PROVE  EngineInv'
    <2>1. clientPc[Owner] = "idle" /\ clientPc' = [clientPc EXCEPT ![Owner] = "enqueue"]
        BY <1>4 DEF Begin, Calls
    <2>2. \A d \in Clients : Notifier(d) => Notifier(d)'
        BY <1>0, <2>1 DEF Notifier, EngineInv
    <2>3. DOMAIN clientPc' = Clients
        BY <2>1 DEF EngineInv
    <2>4. UNCHANGED <<enginePc, engineWaiting, loaded, live, pending, exitNow>>
        BY <1>4 DEF Begin, loopVars, engineVars
    <2> QED
        BY <2>2, <2>3, <2>4, EngineInvKept
<1>5. CASE ExitBackgroundLoop
    <2>1. DOMAIN clientPc' = Clients /\ Notifier(Owner)'
        BY <1>0, <1>5 DEF ExitBackgroundLoop, Notifier, EngineInv
    <2>2. UNCHANGED <<enginePc, engineWaiting>>
        BY <1>5 DEF ExitBackgroundLoop, engineVars
    <2> QED
        BY <1>0, <2>1, <2>2 DEF EngineInv, EngineIsWoken, Notifier
<1> QED
    BY <1>1, <1>2, <1>3, <1>4, <1>5 DEF Call, Reload, Unload

\* The thread itself goes to sleep only when it has nothing to do.
LEMMA EngineKeepsEngineInv ==
    ASSUME EngineInv, EngineStep
    PROVE  EngineInv'
<1>1. CASE EngineWait
    <2>1. UNCHANGED <<clientPc, exitNow, loaded, live>>
        BY <1>1 DEF EngineWait, clientVars
    <2>2. CASE HasWork
        BY <1>1, <2>1, <2>2, EngineInvAwake DEF EngineWait, EngineInv
    <2>3. CASE ~HasWork
        <3>1. UNCHANGED pending /\ engineWaiting' = TRUE
            BY <1>1, <2>3 DEF EngineWait
        <3>2. ~HasWork'
            BY <2>1, <2>3, <3>1 DEF HasWork
        <3> QED
            BY <2>1, <3>1, <3>2 DEF EngineInv, EngineIsWoken
    <2> QED
        BY <2>2, <2>3
<1>2. CASE EngineTop
    BY <1>2, EngineInvAwake DEF EngineTop, LoopHead, clientVars, EngineInv
<1>3. CASE RunAdd
    BY <1>3, EngineInvAwake DEF RunAdd, Working, clientVars, EngineInv
<1>4. CASE RunAbort
    BY <1>4, EngineInvAwake DEF RunAbort, Working, clientVars, EngineInv
<1>5. CASE RunReset
    BY <1>5, EngineInvAwake DEF RunReset, Working, clientVars, EngineInv
<1>6. CASE RunUnload
    BY <1>6, EngineInvAwake DEF RunUnload, clientVars, EngineInv
<1>7. CASE FinishUnload
    BY <1>7, EngineInvAwake DEF FinishUnload, clientVars, EngineInv
<1>8. CASE NotifyUnload
    BY <1>8, EngineInvAwake DEF NotifyUnload, WakeClient, EngineInv
<1>9. CASE RunReload
    BY <1>9, EngineInvAwake DEF RunReload, clientVars, EngineInv
<1>10. CASE NotifyReload
    BY <1>10, EngineInvAwake DEF NotifyReload, WakeClient, EngineInv
<1>11. CASE StepEngine
    BY <1>11, EngineInvAwake DEF StepEngine, clientVars, EngineInv
<1>12. CASE PushOutput
    BY <1>12, EngineInvKept DEF PushOutput, loopVars, clientVars, EngineInv, Notifier
<1>13. CASE NotifyStream
    BY <1>13, EngineInvKept DEF NotifyStream, loopVars, clientVars, EngineInv, Notifier
<1> QED
    BY <1>1, <1>2, <1>3, <1>4, <1>5, <1>6, <1>7, <1>8, <1>9, <1>10, <1>11, <1>12, <1>13
    DEF EngineStep

\* The stream-back thread does not touch the instruction queue.
LEMMA StreamKeepsEngineInv ==
    ASSUME EngineInv, StreamStep
    PROVE  EngineInv'
<1>1. UNCHANGED <<loopVars, engineVars, clientVars>>
    BY DEF StreamStep, StreamTop, StreamCheck, StreamSleep, StreamDeliver
<1> QED
    BY <1>1, EngineInvKept DEF loopVars, engineVars, clientVars, EngineInv, Notifier

\* A spurious wakeup keeps what wakes the background thread.
LEMMA SpuriousKeepsEngineInv ==
    ASSUME EngineInv, SpuriousWakeup
    PROVE  EngineInv'
<1>1. DOMAIN clientPc' = Clients
    BY DEF SpuriousWakeup, EngineInv
<1>2. CASE enginePc' # "asleep"
    BY <1>1, <1>2, EngineInvAwake
<1>3. CASE enginePc' = "asleep"
    <2>1. UNCHANGED enginePc
        BY <1>3 DEF SpuriousWakeup
    <2>2. \A d \in Clients : Notifier(d) => Notifier(d)'
        BY DEF SpuriousWakeup, Notifier, EngineInv
    <2>3. UNCHANGED <<engineWaiting, loaded, live, pending, exitNow>>
        BY DEF SpuriousWakeup, loopVars, OtherEngineVars
    <2> QED
        BY <1>1, <2>1, <2>2, <2>3, EngineInvKept
<1> QED
    BY <1>2, <1>3

\* The background thread never sleeps while there is work for it, unless a client
\* is about to notify it (background_loop_cv_).
THEOREM EngineNeverSleepsOnWork == Spec => []EngineIsWoken
<1>1. Init => EngineInv
    BY DEF Init, EngineInv, EngineIsWoken
<1>2. EngineInv /\ [Next]_vars => EngineInv'
    <2> SUFFICES ASSUME EngineInv, [Next]_vars
                 PROVE  EngineInv'
        OBVIOUS
    <2>1. CASE Next
        BY <2>1, CallKeepsEngineInv, ClientKeepsEngineInv, OwnerKeepsEngineInv,
           EngineKeepsEngineInv, StreamKeepsEngineInv, SpuriousKeepsEngineInv DEF Next
    <2>2. CASE UNCHANGED vars
        BY <2>2, EngineInvKept DEF vars, loopVars, engineVars, clientVars, EngineInv, Notifier
    <2> QED
        BY <2>1, <2>2
<1>3. EngineInv => EngineIsWoken
    BY DEF EngineInv
<1> QED
    BY <1>1, <1>2, <1>3, PTL DEF Spec

----------------------------------------------------------------------------
(* The stream-back thread                                                  *)

\* The inductive invariant: from its predicate to its sleep the stream-back thread
\* holds the mutex, so nothing is put into its queue; while it sleeps its flag is
\* set, so that whoever puts something there owes a notification.
StreamInv ==
    /\ streamPc = "sleep" => cbHeld = TRUE /\ ~(outCnt > 0)
    /\ streamPc \in {"sleep", "asleep"} => cbWaiting = TRUE
    /\ StreamIsWoken

\* StreamInv depends on the variables of the output queue only.
LEMMA StreamInvKept ==
    ASSUME StreamInv, UNCHANGED <<streamPc, outCnt, cbHeld, cbWaiting, owesNotify>>
    PROVE  StreamInv'
BY DEF StreamInv, StreamIsWoken

\* Clients and owner do not touch the output queue.
LEMMA ClientsKeepStreamInv ==
    ASSUME StreamInv, NEW c \in Clients, ClientStep(c) \/ OwnerStep \/ Call
    PROVE  StreamInv'
<1>1. CASE ExitNotifyStream
    BY <1>1 DEF ExitNotifyStream, StreamInv, StreamIsWoken, engineVars
<1>2. CASE ~ExitNotifyStream
    <2>1. UNCHANGED <<streamVars, owesNotify>>
        BY <1>2 DEF ClientStep, OwnerStep, Call, AddRequest, NotifyEngine, AwaitFinish, EnqueueAwaited,
           ExitNotifyEngine, CreateRequest, AbortRequest, Reset, Reload, Unload, Begin, Enqueue,
           ExitBackgroundLoop, engineVars, OtherEngineVars
    <2> QED
        BY <2>1, StreamInvKept DEF streamVars
<1> QED
    BY <1>1, <1>2

\* The background loop that pushes and notifies keeps what wakes the stream-back thread.
LEMMA EngineKeepsStreamInv ==
    ASSUME StreamInv, EngineStep
    PROVE  StreamInv'
<1>1. CASE PushOutput
    <2>1. ~cbHeld /\ owesNotify' = cbWaiting /\ UNCHANGED <<streamPc, cbWaiting, cbHeld>>
        BY <1>1 DEF PushOutput, MustTell
    <2> QED
        BY <2>1 DEF StreamInv, StreamIsWoken
<1>2. CASE NotifyStream
    BY <1>2 DEF NotifyStream, StreamInv, StreamIsWoken
<1>3. CASE ~PushOutput /\ ~NotifyStream
    <2>1. UNCHANGED <<streamVars, owesNotify>>
        BY <1>3 DEF EngineStep, EngineTop, EngineWait, RunAdd, RunAbort, RunReset, RunUnload, FinishUnload,
           NotifyUnload, RunReload, NotifyReload, StepEngine, OtherEngineVars
    <2> QED
        BY <2>1, StreamInvKept DEF streamVars
<1> QED
    BY <1>1, <1>2, <1>3

\* The stream-back loop keeps what wakes the stream-back thread.
LEMMA StreamKeepsStreamInv ==
    ASSUME StreamInv, StreamStep
    PROVE  StreamInv'
<1>1. CASE StreamTop
    BY <1>1 DEF StreamTop, StreamInv, StreamIsWoken
<1>2. CASE StreamCheck
    <2>1. CASE outCnt > 0 \/ exitNow
        BY <1>2, <2>1 DEF StreamCheck, StreamInv, StreamIsWoken
    <2>2. CASE ~(outCnt > 0 \/ exitNow)
        <3>1. streamPc' = "sleep" /\ cbHeld' = TRUE /\ cbWaiting' = TRUE /\ outCnt' = outCnt
            BY <1>2, <2>2 DEF StreamCheck
        <3> QED
            BY <2>2, <3>1 DEF StreamInv, StreamIsWoken
    <2> QED
        BY <2>1, <2>2
<1>3. CASE StreamSleep
    BY <1>3 DEF StreamSleep, StreamInv, StreamIsWoken, engineVars
<1>4. CASE StreamDeliver
    BY <1>4 DEF StreamDeliver, StreamInv, StreamIsWoken
<1> QED
    BY <1>1, <1>2, <1>3, <1>4 DEF StreamStep

\* A spurious wakeup keeps what wakes the stream-back thread.
LEMMA SpuriousKeepsStreamInv ==
    ASSUME StreamInv, SpuriousWakeup
    PROVE  StreamInv'
<1>1. UNCHANGED <<outCnt, cbHeld, cbWaiting, owesNotify>>
    BY DEF SpuriousWakeup, OtherEngineVars
<1>2. CASE streamPc' = "check"
    BY <1>2 DEF StreamInv, StreamIsWoken
<1>3. CASE streamPc' # "check"
    BY <1>1, <1>3, StreamInvKept DEF SpuriousWakeup
<1> QED
    BY <1>2, <1>3

\* The stream-back thread never sleeps while there are outputs for it, unless the
\* background thread is about to notify it (request_stream_callback_cv_).
THEOREM StreamNeverSleepsOnOutputs == Spec => []StreamIsWoken
<1>1. Init => StreamInv
    BY DEF Init, StreamInv, StreamIsWoken
<1>2. StreamInv /\ [Next]_vars => StreamInv'
    <2> SUFFICES ASSUME StreamInv, [Next]_vars
                 PROVE  StreamInv'
        OBVIOUS
    <2>0. Owner \in Clients
        BY ThreadsAssumption
    <2>1. CASE Next
        BY <2>0, <2>1, ClientsKeepStreamInv, EngineKeepsStreamInv, StreamKeepsStreamInv,
           SpuriousKeepsStreamInv DEF Next
    <2>2. CASE UNCHANGED vars
        BY <2>2, StreamInvKept DEF vars, streamVars, engineVars
    <2> QED
        BY <2>1, <2>2
<1>3. StreamInv => StreamIsWoken
    BY DEF StreamInv
<1> QED
    BY <1>1, <1>2, <1>3, PTL DEF Spec

\* No wakeup is lost, neither of the background nor of the stream-back thread.
THEOREM WakeupsAreNotLost == Spec => []NoLostWakeup
<1>1. EngineIsWoken /\ StreamIsWoken => NoLostWakeup
    BY DEF NoLostWakeup
<1> QED
    BY <1>1, EngineNeverSleepsOnWork, StreamNeverSleepsOnOutputs, PTL

----------------------------------------------------------------------------
(* Types                                                                   *)

\* What the instructions are about.
LEMMA OpsKinds ==
    /\ \A r \in Requests : /\ [kind |-> "kAddRequest", arg |-> r] \in Ops
                           /\ [kind |-> "kAbortRequest", arg |-> r] \in Ops
    /\ \A k \in {"kUnloadEngine", "kReloadEngine", "kResetEngine"} : Control(k) \in Ops
    /\ \A o \in Ops : o.kind \in {"kAddRequest", "kAbortRequest"} => o.arg \in Requests
BY DEF Ops, Control

\* A call adds to the calls and stays within the bound on controls.
LEMMA CallTypes ==
    ASSUME TypeOK, NEW c \in Clients, NEW o \in Ops, Calls(c, o)
    PROVE  asked' \subseteq Ops /\ controls' \in 0..MaxControls
BY ThreadsAssumption DEF TypeOK, Calls

\* Pushing an instruction keeps the types.
LEMMA EnqueueTypes ==
    ASSUME TypeOK, NEW c \in Clients, NEW o \in Ops, Enqueue(c, o),
           asked' \subseteq Ops, controls' \in 0..MaxControls,
           UNCHANGED finished
    PROVE  TypeOK'
BY DEF TypeOK, Enqueue, NextClientPc, AfterNotify, engineVars, streamVars

\* A call keeps the types.
LEMMA CallKeepsTypes ==
    ASSUME TypeOK, Call
    PROVE  TypeOK'
<1>0. Owner \in Clients
    BY ThreadsAssumption
<1>1. ASSUME NEW c \in Clients, NEW r \in Requests, CreateRequest(c, r)
      PROVE  TypeOK'
    BY <1>1, OpsKinds, CallTypes DEF CreateRequest, TypeOK, loopVars, engineVars, streamVars
<1>2. ASSUME NEW c \in Clients, NEW r \in Requests, AbortRequest(c, r)
      PROVE  TypeOK'
    BY <1>2, OpsKinds, CallTypes, EnqueueTypes DEF AbortRequest
<1>3. CASE Reset
    BY <1>0, <1>3, OpsKinds, CallTypes, EnqueueTypes DEF Reset
<1>4. ASSUME NEW kind \in {"kReloadEngine", "kUnloadEngine"}, Begin(kind)
      PROVE  TypeOK'
    BY <1>0, <1>4, OpsKinds, CallTypes DEF Begin, TypeOK, loopVars, engineVars, streamVars
<1>5. CASE ExitBackgroundLoop
    BY <1>0, <1>5 DEF ExitBackgroundLoop, TypeOK, engineVars, streamVars
<1> QED
    BY <1>1, <1>2, <1>3, <1>4, <1>5 DEF Call, Reload, Unload

\* The steps of clients and owner keep the types.
LEMMA ClientsKeepTypes ==
    ASSUME TypeOK, NEW c \in Clients, ClientStep(c) \/ OwnerStep
    PROVE  TypeOK'
<1>0. Owner \in Clients
    BY ThreadsAssumption
<1>1. CASE AddRequest(c)
    BY <1>1, EnqueueTypes DEF AddRequest, TypeOK
<1>2. CASE NotifyEngine(c)
    BY <1>2 DEF NotifyEngine, WakeEngine, AfterNotify, TypeOK, loopVars, OtherEngineVars, streamVars
<1>3. CASE AwaitFinish(c)
    BY <1>3 DEF AwaitFinish, TypeOK, loopVars, engineVars, streamVars
<1>4. CASE EnqueueAwaited
    BY <1>0, <1>4, EnqueueTypes DEF EnqueueAwaited, TypeOK
<1>5. CASE ExitNotifyEngine
    BY <1>5 DEF ExitNotifyEngine, WakeEngine, TypeOK, loopVars, OtherEngineVars, streamVars
<1>6. CASE ExitNotifyStream
    BY <1>6 DEF ExitNotifyStream, TypeOK, loopVars, engineVars
<1> QED
    BY <1>1, <1>2, <1>3, <1>4, <1>5, <1>6 DEF ClientStep, OwnerStep

\* The requests of an engine can be put in order, and what is said about them is a
\* list of batches.
LEMMA EndedTypes ==
    ASSUME NEW rs, rs \subseteq Requests, IsFiniteSet(rs), NEW batches \in Ended(rs)
    PROVE  batches \in Seq(Batches)
<1>1. PICK order \in SetToSeqs(rs) : batches = [i \in DOMAIN order |-> <<Output(order[i], "abort")>>]
    BY DEF Ended
<1>2. Cardinality(rs) \in Nat /\ order \in [1..Cardinality(rs) -> rs]
    BY FS_CardinalityType DEF SetToSeqs
<1>3. \A i \in 1..Cardinality(rs) : <<Output(order[i], "abort")>> \in Batches
    BY <1>2 DEF Output, Batches
<1> QED
    BY <1>1, <1>2, <1>3

\* What the engine emits are batches.
LEMMA EmitTypes ==
    ASSUME TypeOK, NEW batches \in Seq(Batches), Emit(batches)
    PROVE  toSend' \in Seq(Batches) /\ emitted' \in Seq(Batches)
<1>1. emitted \in Seq(Batches)
    BY DEF TypeOK
<1> QED
    BY <1>1 DEF Emit

\* A part of the work that ends requests.
LEMMA EmitEndedTypes ==
    ASSUME TypeOK, NEW rs, rs \subseteq DOMAIN live, EmitEnded(rs), live' = Remaining(rs)
    PROVE  /\ toSend' \in Seq(Batches) /\ emitted' \in Seq(Batches)
           /\ DOMAIN live' \subseteq Requests /\ IsFiniteSet(DOMAIN live')
<1>1. IsFiniteSet(rs) /\ rs \subseteq Requests
    BY FS_Subset DEF TypeOK
<1>2. toSend' \in Seq(Batches) /\ emitted' \in Seq(Batches)
    BY <1>1, EndedTypes, EmitTypes DEF EmitEnded
<1>3. DOMAIN live' \subseteq DOMAIN live
    BY DEF Remaining
<1> QED
    BY <1>2, <1>3, FS_Subset DEF TypeOK

\* A step of the engine with requests streams back one batch.
LEMMA StepTypes ==
    ASSUME TypeOK, StepEngine, DOMAIN live # {}
    PROVE  \E batches \in Seq(Batches) : Emit(batches)
<1> DEFINE over == {r \in DOMAIN live : live[r] = 1}
           batch(rs) == [i \in DOMAIN rs |->
                           Output(rs[i], IF rs[i] \in over THEN "usage" ELSE "delta")]
<1>1. ASSUME NEW rs \in SetToSeqs(DOMAIN live)
      PROVE  <<batch(rs)>> \in Seq(Batches)
    <2>1. Cardinality(DOMAIN live) \in Nat /\ rs \in [1..Cardinality(DOMAIN live) -> Requests]
        BY FS_CardinalityType DEF SetToSeqs, TypeOK
    <2>2. batch(rs) \in Batches
        BY <2>1 DEF Output, Batches
    <2> QED
        BY <2>2
<1> QED
    BY <1>1 DEF StepEngine

\* While it unloads or reloads, the background thread has the instruction in hand.
HoldsInstruction ==
    /\ enginePc \in {"top", "lock", "asleep", "woken", "done"} => local = <<>>
    /\ enginePc \in {"unload", "notifyUnload", "reload", "notifyReload"} =>
         local # <<>> /\ Awaited(Head(local))
    /\ enginePc \in {"reload", "notifyReload"} => Head(local).kind = "kReloadEngine"

\* The background loop keeps the types.
LEMMA EngineKeepsTypes ==
    ASSUME TypeOK, HoldsInstruction, EngineStep
    PROVE  TypeOK'
<1>1. CASE EngineTop
    BY <1>1 DEF EngineTop, LoopHead, TypeOK, loopVars, OtherEngineVars, streamVars, clientVars
<1>2. CASE EngineWait
    <2>1. engineWaiting' \in BOOLEAN
        BY <1>2 DEF EngineWait, HasWork
    <2>2. local' \in Seq(Ops) /\ queue' \in Seq(Ops) /\ pending' = Len(queue')
        <3>1. CASE HasWork
            BY <1>2, <3>1 DEF EngineWait, TypeOK, ClearsCount
        <3>2. CASE ~HasWork
            BY <1>2, <3>2 DEF EngineWait, TypeOK
        <3> QED
            BY <3>1, <3>2
    <2> QED
        BY <1>2, <2>1, <2>2 DEF EngineWait, TypeOK, streamVars, clientVars
<1>3. CASE RunAdd
    <2>1. Head(local) \in Ops /\ local' \in Seq(Ops)
        BY <1>3 DEF RunAdd, Working, TypeOK
    <2>2. Head(local).arg \in Requests
        BY <1>3, <2>1, OpsKinds DEF RunAdd, Working
    <2>3. DOMAIN live' \subseteq Requests /\ IsFiniteSet(DOMAIN live')
        BY <1>3, <2>2, FS_AddElement DEF RunAdd, TypeOK
    <2>4. toSend' \in Seq(Batches) /\ emitted' \in Seq(Batches)
        <3>1. << <<Output(Head(local).arg, "length")>> >> \in Seq(Batches)
            BY <2>2 DEF Output, Batches
        <3> QED
            BY <1>3, <3>1, EmitTypes DEF RunAdd, TypeOK
    <2> QED
        BY <1>3, <2>1, <2>3, <2>4 DEF RunAdd, TypeOK, loopVars, streamVars, clientVars
<1>4. CASE RunAbort
    <2>1. /\ toSend' \in Seq(Batches) /\ emitted' \in Seq(Batches)
          /\ DOMAIN live' \subseteq Requests /\ IsFiniteSet(DOMAIN live')
        BY <1>4, EmitEndedTypes DEF RunAbort
    <2>2. local' \in Seq(Ops)
        BY <1>4 DEF RunAbort, Working, TypeOK
    <2> QED
        BY <1>4, <2>1, <2>2 DEF RunAbort, Working, TypeOK, loopVars, streamVars, clientVars
<1>5. CASE RunReset
    <2>1. /\ toSend' \in Seq(Batches) /\ emitted' \in Seq(Batches)
          /\ DOMAIN live' \subseteq Requests /\ IsFiniteSet(DOMAIN live')
        BY <1>5, EmitEndedTypes DEF RunReset
    <2> QED
        BY <1>5, <2>1 DEF RunReset, Working, TypeOK, loopVars, streamVars, clientVars
<1>6. CASE RunUnload
    <2>1. /\ toSend' \in Seq(Batches) /\ emitted' \in Seq(Batches)
          /\ DOMAIN live' \subseteq Requests /\ IsFiniteSet(DOMAIN live')
        BY <1>6, EmitEndedTypes DEF RunUnload
    <2> QED
        BY <1>6, <2>1 DEF RunUnload, Working, TypeOK, loopVars, streamVars, clientVars
<1>7. CASE FinishUnload
    BY <1>7 DEF FinishUnload, UnloadSetsFlag, TypeOK, loopVars, streamVars, clientVars
<1>8. CASE NotifyUnload
    <2>1. local' \in Seq(Ops)
        <3>1. local \in Seq(Ops) /\ local # <<>>
            BY <1>8 DEF NotifyUnload, TypeOK, HoldsInstruction
        <3> QED
            BY <1>8, <3>1 DEF NotifyUnload
    <2> QED
        BY <1>8, <2>1 DEF NotifyUnload, WakeClient, TypeOK, loopVars, streamVars
<1>9. CASE RunReload
    BY <1>9 DEF RunReload, TypeOK, loopVars, streamVars, clientVars
<1>10. CASE NotifyReload
    <2>1. local' \in Seq(Ops)
        BY <1>10 DEF NotifyReload, TypeOK, HoldsInstruction
    <2> QED
        BY <1>10, <2>1 DEF NotifyReload, WakeClient, TypeOK, loopVars, streamVars
<1>11. CASE StepEngine
    <2>2. toSend' \in Seq(Batches) /\ emitted' \in Seq(Batches)
        <3>1. CASE DOMAIN live = {}
            BY <1>11, <3>1 DEF StepEngine, TypeOK
        <3>2. CASE DOMAIN live # {}
            BY <1>11, <3>2, StepTypes, EmitTypes
        <3> QED
            BY <3>1, <3>2
    <2>3. DOMAIN live' \subseteq Requests /\ IsFiniteSet(DOMAIN live')
        BY <1>11, FS_Subset DEF StepEngine, TypeOK
    <2> QED
        BY <1>11, <2>2, <2>3 DEF StepEngine, TypeOK, loopVars, streamVars, clientVars
<1>12. CASE PushOutput
    BY <1>12 DEF PushOutput, MustTell, TypeOK, loopVars, clientVars
<1>13. CASE NotifyStream
    BY <1>13 DEF NotifyStream, TypeOK, loopVars, clientVars
<1> QED
    BY <1>1, <1>2, <1>3, <1>4, <1>5, <1>6, <1>7, <1>8, <1>9, <1>10, <1>11, <1>12, <1>13
    DEF EngineStep

\* The stream-back loop keeps the types.
LEMMA StreamKeepsTypes ==
    ASSUME TypeOK, StreamStep
    PROVE  TypeOK'
<1>1. CASE StreamTop
    BY <1>1 DEF StreamTop, TypeOK, loopVars, engineVars, clientVars
<1>2. CASE StreamCheck
    <2>0. outs \in Seq(Batches) /\ cbLocal \in Seq(Batches) /\ outCnt = Len(outs)
        BY DEF TypeOK
    <2>1. cbLocal' \in Seq(Batches) /\ outs' \in Seq(Batches) /\ outCnt' = Len(outs')
        <3>1. CASE outCnt > 0 \/ exitNow
            <4>1. cbLocal' = outs /\ outs' = <<>> /\ outCnt' = 0
                BY <1>2, <3>1 DEF StreamCheck
            <4> QED
                BY <2>0, <4>1
        <3>2. CASE ~(outCnt > 0 \/ exitNow)
            <4>1. UNCHANGED <<cbLocal, outs, outCnt>>
                BY <1>2, <3>2 DEF StreamCheck
            <4> QED
                BY <2>0, <4>1
        <3> QED
            BY <3>1, <3>2
    <2> QED
        BY <1>2, <2>1 DEF StreamCheck, TypeOK, loopVars, engineVars, clientVars
<1>3. CASE StreamSleep
    BY <1>3 DEF StreamSleep, TypeOK, loopVars, engineVars, clientVars
<1>4. CASE StreamDeliver
    BY <1>4 DEF StreamDeliver, Delivered, TypeOK, loopVars, engineVars, clientVars
<1> QED
    BY <1>1, <1>2, <1>3, <1>4 DEF StreamStep

\* A spurious wakeup keeps the types.
LEMMA SpuriousKeepsTypes ==
    ASSUME TypeOK, SpuriousWakeup
    PROVE  TypeOK'
BY DEF SpuriousWakeup, TypeOK, loopVars, OtherEngineVars

\* While the background loop works on an instruction, it holds one.
LEMMA EngineHoldsInstruction ==
    ASSUME TypeOK, HoldsInstruction, EngineStep
    PROVE  HoldsInstruction'
<1> USE DEF HoldsInstruction
<1>1. CASE EngineTop
    BY <1>1 DEF EngineTop, LoopHead, OtherEngineVars
<1>2. CASE EngineWait
    BY <1>2 DEF EngineWait
<1>3. CASE RunAdd
    BY <1>3 DEF RunAdd, Working
<1>4. CASE RunAbort
    BY <1>4 DEF RunAbort, Working
<1>5. CASE RunReset
    BY <1>5 DEF RunReset, Working
<1>6. CASE RunUnload
    BY <1>6 DEF RunUnload, Working, Awaited
<1>7. CASE FinishUnload
    BY <1>7 DEF FinishUnload
<1>8. CASE NotifyUnload
    BY <1>8 DEF NotifyUnload
<1>9. CASE RunReload
    BY <1>9 DEF RunReload
<1>10. CASE NotifyReload
    BY <1>10 DEF NotifyReload
<1>11. CASE StepEngine
    BY <1>11 DEF StepEngine
<1>12. CASE PushOutput
    BY <1>12 DEF PushOutput
<1>13. CASE NotifyStream
    BY <1>13 DEF NotifyStream
<1> QED
    BY <1>1, <1>2, <1>3, <1>4, <1>5, <1>6, <1>7, <1>8, <1>9, <1>10, <1>11, <1>12, <1>13
    DEF EngineStep

\* Other threads leave the instruction alone; they may wake the background thread.
LEMMA OthersHoldInstruction ==
    ASSUME HoldsInstruction,
           StreamStep \/ SpuriousWakeup \/ OwnerStep \/ Call \/ (\E c \in Clients : ClientStep(c))
    PROVE  HoldsInstruction'
<1>1. UNCHANGED local /\ (UNCHANGED enginePc \/ (enginePc = "asleep" /\ enginePc' = "woken"))
    BY DEF StreamStep, StreamTop, StreamCheck, StreamSleep, StreamDeliver, SpuriousWakeup, OwnerStep,
       EnqueueAwaited, ExitNotifyEngine, ExitNotifyStream, ClientStep, AddRequest, NotifyEngine,
       AwaitFinish, Call, CreateRequest, AbortRequest, Reset, Reload, Unload, Begin, Enqueue,
       ExitBackgroundLoop, WakeEngine, OtherEngineVars, engineVars
<1> QED
    BY <1>1 DEF HoldsInstruction

\* The types hold, and the two counters count: TypeOK is inductive together with
\* HoldsInstruction.
LEMMA TypesInvariant == Spec => [](TypeOK /\ HoldsInstruction)
<1> DEFINE Inv == TypeOK /\ HoldsInstruction
<1>1. Init => Inv
    <2> SUFFICES ASSUME Init
                 PROVE  Inv
        OBVIOUS
    <2>1. DOMAIN live = {} /\ IsFiniteSet(DOMAIN live)
        BY FS_EmptySet DEF Init
    <2>2. TypeOK
        <3>1. op \in [Clients -> Ops] /\ controls \in 0..MaxControls
            BY OpsKinds, ThreadsAssumption DEF Init
        <3>2. {toSend, outs, cbLocal, emitted, delivered} \subseteq Seq(Batches)
            BY DEF Init
        <3>3. finished \in [{"kReloadEngine", "kUnloadEngine"} -> BOOLEAN]
            BY DEF Init
        <3>4. queue \in Seq(Ops) /\ local \in Seq(Ops) /\ pending = Len(queue) /\ outCnt = Len(outs)
            BY DEF Init
        <3> QED
            BY <2>1, <3>1, <3>2, <3>3, <3>4 DEF Init, TypeOK
    <2> QED
        BY <2>2 DEF Init, HoldsInstruction
<1>2. Inv /\ [Next]_vars => Inv'
    <2> SUFFICES ASSUME TypeOK, HoldsInstruction, [Next]_vars
                 PROVE  Inv'
        OBVIOUS
    <2>0. Owner \in Clients
        BY ThreadsAssumption
    <2>1. CASE Next
        BY <2>0, <2>1, CallKeepsTypes, ClientsKeepTypes, EngineKeepsTypes, StreamKeepsTypes,
           SpuriousKeepsTypes, EngineHoldsInstruction, OthersHoldInstruction DEF Next
    <2>2. CASE UNCHANGED vars
        BY <2>2 DEF vars, loopVars, engineVars, streamVars, clientVars, TypeOK, HoldsInstruction
    <2> QED
        BY <2>1, <2>2
<1> QED
    BY <1>1, <1>2, PTL DEF Spec

----------------------------------------------------------------------------
(* No output is lost                                                       *)

\* A batch that is taken out of a list is its first.
LEMMA HeadThenTail ==
    ASSUME NEW S, NEW d \in Seq(S), d # <<>>
    PROVE  d = <<Head(d)>> \o Tail(d)
<1>1. Head(d) \in S /\ Tail(d) \in Seq(S) /\ <<Head(d)>> \in Seq(S)
    BY HeadTailProperties
<1>2. <<Head(d)>> \o Tail(d) \in Seq(S)
    BY <1>1
<1>3. Len(<<Head(d)>> \o Tail(d)) = Len(d)
    BY <1>1
<1>4. \A i \in 1..Len(d) : (<<Head(d)>> \o Tail(d))[i] = d[i]
    BY <1>1
<1> QED
    BY <1>2, <1>3, <1>4, SeqEqual

\* The inductive invariant: the stream-back thread takes a list of batches over only
\* when it has delivered the last one.
OutputsInv == NothingLost /\ (streamPc # "deliver" => cbLocal = <<>>)

\* Emitting puts the batches where they will be sent from.
LEMMA EmitLosesNothing ==
    ASSUME TypeOK, NothingLost, toSend = <<>>, NEW batches \in Seq(Batches), Emit(batches),
           UNCHANGED <<delivered, cbLocal, outs>>
    PROVE  NothingLost'
<1>1. delivered \o cbLocal \o outs \in Seq(Batches)
    BY DEF TypeOK
<1> QED
    BY <1>1, ConcatEmptySeq DEF NothingLost, Emit

\* Pushing a batch to the output queue loses nothing.
LEMMA PushLosesNothing ==
    ASSUME TypeOK, NothingLost, PushOutput
    PROVE  NothingLost'
<1>1. /\ delivered \o cbLocal \in Seq(Batches) /\ outs \in Seq(Batches)
      /\ toSend \in Seq(Batches) /\ toSend # <<>>
    BY DEF TypeOK, PushOutput
<1>2. /\ outs' = Append(outs, Head(toSend)) /\ toSend' = Tail(toSend)
      /\ UNCHANGED <<delivered, cbLocal, emitted>>
    BY DEF PushOutput
<1>3. PICK h \in Batches : outs' = outs \o <<h>> /\ toSend = <<h>> \o toSend' /\ toSend' \in Seq(Batches)
    <2>1. Head(toSend) \in Batches /\ toSend' \in Seq(Batches)
        BY <1>1, <1>2, HeadTailProperties
    <2>2. outs' = outs \o <<Head(toSend)>>
        BY <1>1, <1>2, <2>1, AppendIsConcat
    <2>3. toSend = <<Head(toSend)>> \o toSend'
        BY <1>1, <1>2, HeadThenTail
    <2> QED
        BY <2>1, <2>2, <2>3
<1>4. PICK a \in Seq(Batches) : a = delivered \o cbLocal
    BY <1>1
<1>5. a \o outs' \o toSend' = a \o outs \o toSend
    <2>1. a \o outs \in Seq(Batches) /\ <<h>> \in Seq(Batches) /\ toSend' \in Seq(Batches)
        BY <1>1, <1>3
    <2>2. a \o outs' = (a \o outs) \o <<h>>
        BY <1>1, <1>3, <2>1, ConcatAssociative
    <2>3. ((a \o outs) \o <<h>>) \o toSend' = (a \o outs) \o toSend
        BY <1>3, <2>1, ConcatAssociative
    <2> QED
        BY <2>2, <2>3
<1> QED
    BY <1>2, <1>4, <1>5 DEF NothingLost

\* Every step keeps the outputs in order and complete.
LEMMA OutputsNext ==
    ASSUME TypeOK, OutputsInv, [Next]_vars
    PROVE  OutputsInv'
<1>0. Owner \in Clients
    BY ThreadsAssumption
<1>1. CASE EngineStep
    <2>1. UNCHANGED <<delivered, cbLocal>> /\ (streamPc' = "deliver" <=> streamPc = "deliver")
        BY <1>1 DEF EngineStep, EngineTop, EngineWait, RunAdd, RunAbort, RunReset, RunUnload, FinishUnload,
           NotifyUnload, RunReload, NotifyReload, StepEngine, PushOutput, NotifyStream, streamVars
    <2>2. CASE PushOutput
        BY <2>1, <2>2, PushLosesNothing DEF OutputsInv
    <2>3. CASE UNCHANGED <<toSend, emitted, outs>>
        BY <2>1, <2>3 DEF OutputsInv, NothingLost
    <2>4. ASSUME NEW batches \in Seq(Batches), Emit(batches), toSend = <<>>, UNCHANGED outs
          PROVE  OutputsInv'
        BY <2>1, <2>4, EmitLosesNothing DEF OutputsInv
    <2>5. CASE RunAdd
        <3>1. Head(local) \in Ops
            BY <2>5 DEF RunAdd, Working, TypeOK
        <3>2. Head(local).arg \in Requests
            BY <2>5, <3>1, OpsKinds DEF RunAdd, Working
        <3>3. << <<Output(Head(local).arg, "length")>> >> \in Seq(Batches)
            BY <3>2 DEF Output, Batches
        <3> QED
            BY <2>3, <2>4, <2>5, <3>3 DEF RunAdd, Working, streamVars
    <2>6. ASSUME NEW rs, rs \subseteq DOMAIN live, EmitEnded(rs), toSend = <<>>, UNCHANGED outs
          PROVE  OutputsInv'
        <3>1. IsFiniteSet(rs) /\ rs \subseteq Requests
            BY <2>6, FS_Subset DEF TypeOK
        <3> QED
            BY <2>4, <2>6, <3>1, EndedTypes DEF EmitEnded
    <2>7. CASE RunAbort \/ RunReset \/ RunUnload
        BY <2>6, <2>7 DEF RunAbort, RunReset, RunUnload, Working, streamVars
    <2>8. CASE StepEngine
        <3>1. CASE DOMAIN live = {}
            BY <2>3, <2>8, <3>1 DEF StepEngine, streamVars
        <3>2. CASE DOMAIN live # {}
            BY <2>4, <2>8, <3>2, StepTypes DEF StepEngine, streamVars
        <3> QED
            BY <3>1, <3>2
    <2> QED
        BY <1>1, <2>2, <2>3, <2>5, <2>7, <2>8 DEF EngineStep, EngineTop, EngineWait, FinishUnload,
           NotifyUnload, RunReload, NotifyReload, NotifyStream, OtherEngineVars, streamVars
<1>2. CASE StreamStep
    <2>0. /\ delivered \in Seq(Batches) /\ cbLocal \in Seq(Batches) /\ outs \in Seq(Batches)
          /\ UNCHANGED <<emitted, toSend>>
        BY <1>2 DEF TypeOK, StreamStep, StreamTop, StreamCheck, StreamSleep, StreamDeliver, engineVars
    <2>1. CASE StreamTop
        BY <2>1 DEF StreamTop, OutputsInv, NothingLost, engineVars
    <2>2. CASE StreamCheck
        <3>1. CASE outCnt > 0 \/ exitNow
            <4>1. cbLocal = <<>> /\ cbLocal' = outs /\ outs' = <<>> /\ streamPc' = "deliver"
                  /\ UNCHANGED delivered
                BY <2>2, <3>1 DEF StreamCheck, OutputsInv
            <4>2. delivered \o cbLocal \o outs = delivered' \o cbLocal' \o outs'
                BY <2>0, <4>1, ConcatEmptySeq
            <4> QED
                BY <2>0, <4>1, <4>2 DEF OutputsInv, NothingLost
        <3>2. CASE ~(outCnt > 0 \/ exitNow)
            <4>1. UNCHANGED <<cbLocal, outs, delivered>> /\ streamPc = "check" /\ streamPc' = "sleep"
                BY <2>2, <3>2 DEF StreamCheck
            <4> QED
                BY <2>0, <4>1 DEF OutputsInv, NothingLost
        <3> QED
            BY <3>1, <3>2
    <2>3. CASE StreamSleep
        BY <2>3 DEF StreamSleep, OutputsInv, NothingLost, engineVars
    <2>4. CASE StreamDeliver
        <3>1. delivered' = delivered \o cbLocal /\ cbLocal' = <<>> /\ UNCHANGED outs
            BY <2>4 DEF StreamDeliver, Delivered
        <3>2. delivered \o cbLocal \in Seq(Batches)
            BY <2>0
        <3>3. delivered' \o cbLocal' = delivered \o cbLocal
            BY <3>1, <3>2, ConcatEmptySeq
        <3> QED
            BY <2>0, <3>1, <3>3 DEF OutputsInv, NothingLost
    <2> QED
        BY <1>2, <2>1, <2>2, <2>3, <2>4 DEF StreamStep
<1>3. CASE ~EngineStep /\ ~StreamStep
    <2>1. UNCHANGED <<emitted, delivered, cbLocal, outs, toSend>>
        BY <1>3 DEF Next, SpuriousWakeup, OwnerStep, EnqueueAwaited, ExitNotifyEngine, ExitNotifyStream,
           ClientStep, AddRequest, NotifyEngine, AwaitFinish, Call, CreateRequest, AbortRequest, Reset,
           Reload, Unload, Begin, Enqueue, ExitBackgroundLoop, OtherEngineVars, engineVars, streamVars,
           vars
    <2>2. streamPc = "deliver" <=> streamPc' = "deliver"
        BY <1>3 DEF Next, SpuriousWakeup, OwnerStep, EnqueueAwaited, ExitNotifyEngine, ExitNotifyStream,
           ClientStep, AddRequest, NotifyEngine, AwaitFinish, Call, CreateRequest, AbortRequest, Reset,
           Reload, Unload, Begin, Enqueue, ExitBackgroundLoop, streamVars, vars
    <2> QED
        BY <2>1, <2>2 DEF OutputsInv, NothingLost
<1> QED
    BY <1>1, <1>2, <1>3

----------------------------------------------------------------------------
(* The engine is there                                                     *)

\* The instructions that are not done yet, in the order in which they will be done.
Work == local \o queue
IsAdd(o) == o.kind = "kAddRequest"

\* The first of them is over for its caller, who has only to be notified.
Answered ==
    \/ enginePc = "notifyReload"
    \/ enginePc = "notifyUnload" /\ Head(local).kind = "kUnloadEngine"

\* The i-th is one that its caller waits for.
Open(i) == Awaited(Work[i]) /\ ~(i = 1 /\ Answered)
OwnerWaits == clientPc[Owner] \in {"notify", "wait", "asleep", "woken"}

\* The inductive invariant.  The owner waits for what it asked for until the flag of
\* that call is set, so there is one such instruction at most and nothing is added
\* behind it; whenever a request is to be added, the engine is loaded.
OrderInv ==
    /\ \A c \in Clients : clientPc[c] = "created" => c = Owner /\ IsAdd(op[c]) /\ loaded = TRUE
    /\ clientPc[Owner] = "enqueue" => Awaited(op[Owner]) /\ finished[op[Owner].kind] = FALSE
    /\ \A i \in 1..Len(Work) : Open(i) =>
         OwnerWaits /\ op[Owner] = Work[i] /\ finished[Work[i].kind] = FALSE
    /\ \A i, j \in 1..Len(Work) : Open(i) /\ Open(j) => i = j
    /\ \A i, j \in 1..Len(Work) : Open(i) /\ i < j => ~IsAdd(Work[j])
    /\ \A i \in 1..Len(Work) : IsAdd(Work[i]) => loaded = TRUE

\* The instructions that are left are operations, the held one first.
LEMMA WorkTypes ==
    ASSUME TypeOK
    PROVE  /\ Work \in Seq(Ops) /\ Len(Work) \in Nat
           /\ local # <<>> => Work # <<>> /\ Work[1] = Head(local)
BY DEF TypeOK, Work

\* The first instruction is done.
LEMMA WorkDone ==
    ASSUME TypeOK, local # <<>>, local' = Tail(local), UNCHANGED queue
    PROVE  /\ Len(Work') = Len(Work) - 1
           /\ \A i \in 1..Len(Work') : Work'[i] = Work[i + 1]
BY DEF TypeOK, Work

\* An instruction is added.
LEMMA WorkAdded ==
    ASSUME TypeOK, NEW o \in Ops, queue' = Append(queue, o), UNCHANGED local
    PROVE  /\ Len(Work') = Len(Work) + 1
           /\ \A i \in 1..Len(Work) : Work'[i] = Work[i]
           /\ Work'[Len(Work) + 1] = o
BY DEF TypeOK, Work

\* The queue is taken over.
LEMMA WorkTaken ==
    ASSUME TypeOK, HoldsInstruction, EngineWait
    PROVE  Work' = Work
<1>1. queue \in Seq(Ops) /\ local = <<>>
    BY DEF TypeOK, HoldsInstruction, EngineWait
<1>2. CASE HasWork
    <2>1. local' = queue /\ queue' = <<>>
        BY <1>2 DEF EngineWait
    <2> QED
        BY <1>1, <2>1, ConcatEmptySeq DEF Work
<1>3. CASE ~HasWork
    BY <1>3 DEF EngineWait, Work
<1> QED
    BY <1>2, <1>3

\* What a step may do to the clients without disturbing the order.
ClientsAgree ==
    /\ UNCHANGED op
    /\ \A i \in 1..Len(Work) : Open(i) => OwnerWaits'
    /\ \A c \in Clients : clientPc'[c] = "created" => clientPc[c] = "created"
    /\ clientPc'[Owner] = "enqueue" => clientPc[Owner] = "enqueue"

\* A step that leaves the instructions alone keeps their order.
LEMMA SameKeepsOrder ==
    ASSUME OrderInv, UNCHANGED <<Work, loaded, finished>>, ClientsAgree,
           Answered <=> Answered'
    PROVE  OrderInv'
<1>1. \A i : Open(i) <=> Open(i)'
    BY DEF Open
<1> QED
    BY <1>1 DEF OrderInv, ClientsAgree

\* Finishing an instruction keeps the order of the rest.
LEMMA DoneKeepsOrder ==
    ASSUME TypeOK, OrderInv, local # <<>>, local' = Tail(local), enginePc' = "work",
           UNCHANGED <<queue, loaded, finished>>, ClientsAgree, ~Open(1)
    PROVE  OrderInv'
<1>1. \A i \in 1..Len(Work') : i + 1 \in 1..Len(Work) /\ Work'[i] = Work[i + 1] /\ (Open(i)' <=> Open(i + 1))
    <2>1. ~Answered'
        BY DEF Answered
    <2>2. Len(Work) \in Nat
        BY WorkTypes
    <2>3. \A i \in 1..Len(Work') : i + 1 \in 1..Len(Work) /\ i + 1 # 1 /\ Work'[i] = Work[i + 1]
        BY <2>2, WorkDone
    <2> QED
        BY <2>1, <2>3 DEF Open
<1>2. \A i, j \in 1..Len(Work') : i < j => i + 1 < j + 1
    OBVIOUS
<1>3. \A i, j \in 1..Len(Work') : i + 1 = j + 1 => i = j
    OBVIOUS
<1>4. \A c \in Clients : clientPc'[c] = "created" => c = Owner /\ IsAdd(op'[c]) /\ loaded' = TRUE
    BY DEF OrderInv, ClientsAgree
<1>5. clientPc'[Owner] = "enqueue" => Awaited(op'[Owner]) /\ finished'[op'[Owner].kind] = FALSE
    BY DEF OrderInv, ClientsAgree
<1>6. \A i \in 1..Len(Work') : Open(i)' =>
         OwnerWaits' /\ op'[Owner] = Work'[i] /\ finished'[Work'[i].kind] = FALSE
    BY <1>1 DEF OrderInv, ClientsAgree
<1>7. \A i, j \in 1..Len(Work') : Open(i)' /\ Open(j)' => i = j
    BY <1>1, <1>3 DEF OrderInv
<1>8. \A i, j \in 1..Len(Work') : Open(i)' /\ i < j => ~IsAdd(Work'[j])
    BY <1>1, <1>2 DEF OrderInv
<1>9. \A i \in 1..Len(Work') : IsAdd(Work'[i]) => loaded' = TRUE
    BY <1>1 DEF OrderInv
<1> QED
    BY <1>4, <1>5, <1>6, <1>7, <1>8, <1>9 DEF OrderInv

\* An instruction that its caller does not wait for is put into the queue.
LEMMA EnqueueKeepsOrder ==
    ASSUME TypeOK, HoldsInstruction, OrderInv, NEW c \in Clients, NEW o \in Ops, Enqueue(c, o), ~Awaited(o),
           UNCHANGED finished, clientPc[c] \in {"idle", "created"},
           IsAdd(o) => c = Owner /\ clientPc[c] = "created"
    PROVE  OrderInv'
<1>0. Owner \in Clients
    BY ThreadsAssumption
<1>1. UNCHANGED <<local, enginePc, loaded>> /\ queue' = Append(queue, o)
    BY DEF Enqueue, engineVars
<1>2. /\ Len(Work) \in Nat /\ Len(Work') = Len(Work) + 1
      /\ \A i \in 1..Len(Work) : Work'[i] = Work[i]
      /\ Work'[Len(Work) + 1] = o
    BY <1>1, WorkTypes, WorkAdded
<1>3. Answered' <=> Answered
    BY <1>1 DEF Answered
<1>4. \A i \in 1..Len(Work') :
        \/ i \in 1..Len(Work) /\ Work'[i] = Work[i] /\ (Open(i)' <=> Open(i))
        \/ i = Len(Work) + 1 /\ Work'[i] = o /\ ~Open(i)'
    BY <1>2, <1>3 DEF Open
<1>5. /\ clientPc' = [clientPc EXCEPT ![c] = IF engineWaiting THEN "notify" ELSE "idle"]
      /\ op' = [op EXCEPT ![c] = o]
    BY DEF Enqueue, NextClientPc, AfterNotify
<1>6. c = Owner => ~OwnerWaits
    BY DEF OwnerWaits
<1>7. c # Owner => clientPc'[Owner] = clientPc[Owner] /\ op'[Owner] = op[Owner]
    BY <1>0, <1>5 DEF TypeOK
<1>8. DOMAIN clientPc = Clients /\ op \in [Clients -> Ops]
    BY DEF TypeOK
<1>9. \A d \in Clients : clientPc'[d] = "created" => d # c /\ clientPc[d] = "created" /\ op'[d] = op[d]
    BY <1>5, <1>8
<1>10. clientPc'[Owner] = "enqueue" => c # Owner
    BY <1>0, <1>5, <1>8
<1>11. \A i \in 1..Len(Work') : Open(i)' =>
         OwnerWaits' /\ op'[Owner] = Work'[i] /\ finished'[Work'[i].kind] = FALSE
    BY <1>4, <1>6, <1>7 DEF OrderInv, OwnerWaits
<1>12. \A i, j \in 1..Len(Work') : Open(i)' /\ Open(j)' => i = j
    BY <1>4 DEF OrderInv
<1>13. \A i, j \in 1..Len(Work') : Open(i)' /\ i < j => ~IsAdd(Work'[j])
    <2> SUFFICES ASSUME NEW i \in 1..Len(Work'), NEW j \in 1..Len(Work'), Open(i)', i < j,
                        IsAdd(Work'[j])
                 PROVE  FALSE
        OBVIOUS
    <2>1. i \in 1..Len(Work) /\ Open(i)
        BY <1>4
    <2>2. OwnerWaits
        BY <2>1 DEF OrderInv
    <2>3. j = Len(Work) + 1 /\ Work'[j] = o
        BY <1>4, <2>1 DEF OrderInv
    <2> QED
        BY <1>6, <2>2, <2>3
<1>14. \A i \in 1..Len(Work') : IsAdd(Work'[i]) => loaded' = TRUE
    BY <1>1, <1>4 DEF OrderInv
<1> QED
    BY <1>1, <1>7, <1>9, <1>10, <1>11, <1>12, <1>13, <1>14 DEF OrderInv

\* Reload or Unload puts its instruction into the queue.
LEMMA AwaitedKeepsOrder ==
    ASSUME TypeOK, HoldsInstruction, OrderInv, EnqueueAwaited
    PROVE  OrderInv'
<1> DEFINE o == op[Owner]
<1>0. Owner \in Clients /\ o \in Ops /\ Awaited(o) /\ finished[o.kind] = FALSE
    BY ThreadsAssumption DEF EnqueueAwaited, OrderInv, TypeOK
<1>1. UNCHANGED <<local, enginePc, loaded, finished>> /\ queue' = Append(queue, o)
    BY DEF EnqueueAwaited, Enqueue, engineVars
<1>2. /\ Len(Work) \in Nat /\ Len(Work') = Len(Work) + 1
      /\ \A i \in 1..Len(Work) : Work'[i] = Work[i]
      /\ Work'[Len(Work) + 1] = o
    BY <1>0, <1>1, WorkTypes, WorkAdded
<1>3. Answered' <=> Answered
    BY <1>1 DEF Answered
<1>4. clientPc[Owner] = "enqueue" /\ ~OwnerWaits
    BY DEF EnqueueAwaited, OwnerWaits
<1>5. \A i \in 1..Len(Work') :
        \/ i \in 1..Len(Work) /\ Work'[i] = Work[i] /\ ~Open(i)'
        \/ i = Len(Work) + 1 /\ Work'[i] = o
    BY <1>2, <1>3, <1>4 DEF Open, OrderInv
<1>6. /\ clientPc' = [clientPc EXCEPT ![Owner] = IF engineWaiting THEN "notify" ELSE "wait"]
      /\ op' = [op EXCEPT ![Owner] = o]
    BY <1>0 DEF EnqueueAwaited, Enqueue, NextClientPc, AfterNotify
<1>7. DOMAIN clientPc = Clients /\ op \in [Clients -> Ops]
    BY DEF TypeOK
<1>8. op'[Owner] = o /\ clientPc'[Owner] \in {"notify", "wait"}
    BY <1>0, <1>6, <1>7
<1>9. \A d \in Clients : clientPc'[d] = "created" => clientPc[d] = "created" /\ op'[d] = op[d]
    BY <1>6, <1>7
<1>10. \A i \in 1..Len(Work') : Open(i)' =>
         OwnerWaits' /\ op'[Owner] = Work'[i] /\ finished'[Work'[i].kind] = FALSE
    BY <1>0, <1>1, <1>5, <1>8 DEF OwnerWaits
<1>11. \A i, j \in 1..Len(Work') : Open(i)' /\ Open(j)' => i = j
    BY <1>5
<1>12. \A i, j \in 1..Len(Work') : Open(i)' /\ i < j => ~IsAdd(Work'[j])
    BY <1>2, <1>5
<1>13. \A i \in 1..Len(Work') : IsAdd(Work'[i]) => loaded' = TRUE
    BY <1>0, <1>1, <1>5 DEF OrderInv, IsAdd, Awaited
<1> QED
    BY <1>1, <1>8, <1>9, <1>10, <1>11, <1>12, <1>13 DEF OrderInv

\* The caller of the first instruction gets its flag: it is the only open one.
LEMMA FlagKeepsOrder ==
    ASSUME TypeOK, HoldsInstruction, OrderInv, FinishUnload \/ RunReload
    PROVE  OrderInv'
<1>0. local # <<>> /\ Awaited(Head(local)) /\ Head(local) \in Ops
    BY DEF HoldsInstruction, FinishUnload, RunReload, TypeOK
<1>1. 1 \in 1..Len(Work) /\ Work[1] = Head(local) /\ Open(1)
    BY <1>0, WorkTypes DEF FinishUnload, RunReload, Open, Answered
<1>2. UNCHANGED <<local, queue, clientPc, op>> /\ Work' = Work
    BY DEF FinishUnload, RunReload, Work, loopVars, clientVars
<1>3. \A i \in 1..Len(Work) : (Open(i)' => i = 1) /\ (IsAdd(Work[i]) => FALSE)
    <2>1. \A i \in 1..Len(Work) : i = 1 \/ 1 < i
        BY WorkTypes
    <2>2. \A i \in 1..Len(Work) : ~IsAdd(Work[i])
        BY <1>0, <1>1, <2>1 DEF OrderInv, IsAdd, Awaited
    <2>3. \A i \in 1..Len(Work) : Open(i)' => i = 1 \/ Open(i)
        BY <1>2 DEF Open
    <2> QED
        BY <1>1, <2>2, <2>3 DEF OrderInv
<1>4. OwnerWaits /\ op[Owner] = Work[1] /\ finished[Work[1].kind] = FALSE
    BY <1>1 DEF OrderInv
<1>5. Open(1)' => finished'[Work[1].kind] = FALSE
    <2>1. CASE FinishUnload
        <3>1. finished' = [finished EXCEPT !["kUnloadEngine"] = TRUE] /\ enginePc' = "notifyUnload"
            BY <2>1 DEF FinishUnload, UnloadSetsFlag
        <3>2. Open(1)' => Work[1].kind # "kUnloadEngine"
            BY <1>1, <1>2, <3>1 DEF Open, Answered
        <3> QED
            BY <1>4, <3>1, <3>2 DEF TypeOK
    <2>2. CASE RunReload
        BY <2>2 DEF RunReload, Open, Answered
    <2> QED
        BY <2>1, <2>2
<1>6. \A c \in Clients : clientPc[c] # "created"
    BY <1>4 DEF OrderInv, OwnerWaits
<1> QED
    BY <1>2, <1>3, <1>4, <1>5, <1>6 DEF OrderInv, OwnerWaits

\* A step in which the owner only moves on as a caller, or not at all.
LEMMA WaitingStays ==
    ASSUME OrderInv, UNCHANGED op, OwnerWaits => OwnerWaits',
           \A c \in Clients : clientPc'[c] = "created" => clientPc[c] = "created",
           clientPc'[Owner] = "enqueue" => clientPc[Owner] = "enqueue"
    PROVE  ClientsAgree
BY DEF OrderInv, ClientsAgree

\* Calls.  Requests are added by the owner only.
LEMMA CallKeepsOrder ==
    ASSUME Adders \subseteq {Owner}, TypeOK, HoldsInstruction, OrderInv, Call
    PROVE  OrderInv'
<1>0. Owner \in Clients /\ DOMAIN clientPc = Clients /\ DOMAIN op = Clients
    BY ThreadsAssumption DEF TypeOK
<1>1. ASSUME NEW c \in Clients, NEW r \in Requests, CreateRequest(c, r)
      PROVE  OrderInv'
    <2>1. c = Owner /\ clientPc[Owner] = "idle" /\ loaded = TRUE
        BY <1>1 DEF CreateRequest, Calls, TypeOK
    <2>2. /\ clientPc' = [clientPc EXCEPT ![Owner] = "created"]
          /\ op' = [op EXCEPT ![Owner] = [kind |-> "kAddRequest", arg |-> r]]
          /\ UNCHANGED <<loaded, finished, enginePc, local, queue>>
        BY <1>1, <2>1 DEF CreateRequest, loopVars, engineVars
    <2>3. \A i \in 1..Len(Work) : ~Open(i)
        BY <2>1 DEF OrderInv, OwnerWaits
    <2>4. Work' = Work /\ (\A i \in 1..Len(Work) : ~Open(i)')
        BY <2>2, <2>3 DEF Work, Open, Answered
    <2>5. \A d \in Clients : clientPc'[d] = "created" => d = Owner /\ IsAdd(op'[d]) /\ loaded' = TRUE
        BY <1>0, <2>1, <2>2 DEF OrderInv, IsAdd
    <2>6. clientPc'[Owner] # "enqueue"
        BY <1>0, <2>2
    <2> QED
        BY <2>1, <2>2, <2>4, <2>5, <2>6 DEF OrderInv
<1>2. ASSUME NEW c \in Clients, NEW r \in Requests, AbortRequest(c, r)
      PROVE  OrderInv'
    <2> DEFINE o == [kind |-> "kAbortRequest", arg |-> r]
    <2>1. o \in Ops /\ ~Awaited(o) /\ ~IsAdd(o)
        BY OpsKinds DEF Awaited, IsAdd
    <2>2. clientPc[c] = "idle" /\ Enqueue(c, o) /\ UNCHANGED finished
        BY <1>2 DEF AbortRequest, Calls
    <2> QED
        BY <2>1, <2>2, EnqueueKeepsOrder
<1>3. CASE Reset
    <2> DEFINE o == Control("kResetEngine")
    <2>1. o \in Ops /\ ~Awaited(o) /\ ~IsAdd(o)
        BY OpsKinds DEF Awaited, IsAdd, Control
    <2>2. clientPc[Owner] = "idle" /\ Enqueue(Owner, o) /\ UNCHANGED finished
        BY <1>3 DEF Reset, Calls
    <2> QED
        BY <1>0, <2>1, <2>2, EnqueueKeepsOrder
<1>4. ASSUME NEW kind \in {"kReloadEngine", "kUnloadEngine"}, Begin(kind)
      PROVE  OrderInv'
    <2>1. /\ clientPc[Owner] = "idle" /\ clientPc' = [clientPc EXCEPT ![Owner] = "enqueue"]
          /\ op' = [op EXCEPT ![Owner] = Control(kind)]
          /\ finished' = [finished EXCEPT ![kind] = FALSE]
          /\ UNCHANGED <<loaded, enginePc, local, queue>>
        BY <1>4 DEF Begin, Calls, loopVars, engineVars
    <2>2. \A i \in 1..Len(Work) : ~Open(i)
        BY <2>1 DEF OrderInv, OwnerWaits
    <2>3. Work' = Work /\ (\A i \in 1..Len(Work) : ~Open(i)')
        BY <2>1, <2>2 DEF Work, Open, Answered
    <2>4. \A d \in Clients : clientPc'[d] = "created" => d = Owner /\ IsAdd(op'[d]) /\ loaded' = TRUE
        BY <1>0, <2>1 DEF OrderInv
    <2>5. Awaited(op'[Owner]) /\ finished'[op'[Owner].kind] = FALSE
        BY <1>0, <2>1 DEF Awaited, Control, TypeOK
    <2> QED
        BY <2>1, <2>3, <2>4, <2>5 DEF OrderInv
<1>5. CASE ExitBackgroundLoop
    <2>1. /\ UNCHANGED <<loaded, enginePc, local, queue, op, finished>>
          /\ clientPc[Owner] = "idle" /\ clientPc' = [clientPc EXCEPT ![Owner] = "exitEngine"]
        BY <1>5 DEF ExitBackgroundLoop, engineVars
    <2>2. ClientsAgree
        BY <1>0, <2>1, WaitingStays DEF OwnerWaits
    <2> QED
        BY <2>1, <2>2, SameKeepsOrder DEF Work, Answered
<1> QED
    BY <1>1, <1>2, <1>3, <1>4, <1>5 DEF Call, Reload, Unload

\* What follows a call, in the threads of the clients.
LEMMA ClientsKeepOrder ==
    ASSUME TypeOK, HoldsInstruction, OrderInv, NEW c \in Clients, ClientStep(c) \/ OwnerStep
    PROVE  OrderInv'
<1>0. Owner \in Clients /\ DOMAIN clientPc = Clients /\ op \in [Clients -> Ops]
    BY ThreadsAssumption DEF TypeOK
<1>1. CASE AddRequest(c)
    <2>1. clientPc[c] = "created" /\ Enqueue(c, op[c]) /\ UNCHANGED finished /\ op[c] \in Ops
        BY <1>0, <1>1 DEF AddRequest
    <2>2. c = Owner /\ IsAdd(op[c]) /\ ~Awaited(op[c])
        BY <2>1 DEF OrderInv, IsAdd, Awaited
    <2> QED
        BY <2>1, <2>2, EnqueueKeepsOrder
<1>2. CASE NotifyEngine(c)
    <2>1. /\ UNCHANGED <<loaded, local, queue, op, finished>> /\ WakeEngine
          /\ clientPc[c] = "notify" /\ clientPc' = [clientPc EXCEPT ![c] = AfterNotify(op[c])]
        BY <1>2 DEF NotifyEngine, loopVars, OtherEngineVars
    <2>2. \A d \in Clients : clientPc'[d] = "created" => clientPc[d] = "created"
        BY <1>0, <2>1 DEF AfterNotify
    <2>3. clientPc'[Owner] = "enqueue" => clientPc[Owner] = "enqueue"
        BY <1>0, <2>1 DEF AfterNotify
    <2>4. Awaited(op[Owner]) /\ OwnerWaits => OwnerWaits'
        BY <1>0, <2>1 DEF AfterNotify, OwnerWaits
    <2>5. \A i \in 1..Len(Work) : Open(i) => Awaited(op[Owner]) /\ OwnerWaits
        BY DEF OrderInv, Open
    <2>6. ClientsAgree
        BY <2>1, <2>2, <2>3, <2>4, <2>5 DEF ClientsAgree
    <2> QED
        BY <2>1, <2>6, SameKeepsOrder DEF Work, Answered, WakeEngine
<1>3. CASE AwaitFinish(c)
    <2>1. /\ UNCHANGED <<loaded, enginePc, local, queue, op, finished>>
          /\ clientPc[c] \in {"wait", "woken"}
          /\ clientPc' = [clientPc EXCEPT ![c] = IF finished[op[c].kind] THEN "idle" ELSE "asleep"]
        BY <1>3 DEF AwaitFinish, loopVars, engineVars
    <2>2. \A d \in Clients : clientPc'[d] = "created" => clientPc[d] = "created"
        BY <1>0, <2>1
    <2>3. clientPc'[Owner] = "enqueue" => clientPc[Owner] = "enqueue"
        BY <1>0, <2>1
    <2>4. finished[op[Owner].kind] = FALSE /\ OwnerWaits => OwnerWaits'
        BY <1>0, <2>1 DEF OwnerWaits
    <2>5. \A i \in 1..Len(Work) : Open(i) => finished[op[Owner].kind] = FALSE /\ OwnerWaits
        BY DEF OrderInv
    <2>6. ClientsAgree
        BY <2>1, <2>2, <2>3, <2>4, <2>5 DEF ClientsAgree
    <2> QED
        BY <2>1, <2>6, SameKeepsOrder DEF Work, Answered
<1>4. CASE EnqueueAwaited
    BY <1>4, AwaitedKeepsOrder
<1>5. CASE ExitNotifyEngine \/ ExitNotifyStream
    <2>1. /\ UNCHANGED <<loaded, local, queue, op, finished>>
          /\ clientPc[Owner] \in {"exitEngine", "exitStream"}
          /\ \E pc \in {"exitStream", "joining"} : clientPc' = [clientPc EXCEPT ![Owner] = pc]
          /\ Answered <=> Answered'
        BY <1>5 DEF ExitNotifyEngine, ExitNotifyStream, WakeEngine, loopVars, OtherEngineVars, engineVars,
           Answered
    <2>2. ClientsAgree
        BY <1>0, <2>1, WaitingStays DEF OwnerWaits
    <2> QED
        BY <2>1, <2>2, SameKeepsOrder DEF Work
<1> QED
    BY <1>1, <1>2, <1>3, <1>4, <1>5 DEF ClientStep, OwnerStep

\* notify_one only wakes a client.
LEMMA WakeClientAgrees ==
    ASSUME TypeOK, OrderInv, WakeClient, UNCHANGED op
    PROVE  ClientsAgree
<1>0. Owner \in Clients /\ DOMAIN clientPc = Clients
    BY ThreadsAssumption DEF TypeOK
<1>1. CASE UNCHANGED clientPc
    BY <1>1, WaitingStays DEF OwnerWaits
<1>2. CASE ~UNCHANGED clientPc
    <2>1. PICK c \in Clients : clientPc[c] = "asleep" /\ clientPc' = [clientPc EXCEPT ![c] = "woken"]
        BY <1>2 DEF WakeClient
    <2> QED
        BY <1>0, <2>1, WaitingStays DEF OwnerWaits
<1> QED
    BY <1>1, <1>2

\* The background thread: an instruction is done, or none is.
LEMMA EngineKeepsOrder ==
    ASSUME TypeOK, HoldsInstruction, OrderInv, EngineStep
    PROVE  OrderInv'
<1>0. UNCHANGED <<clientPc, op>> => ClientsAgree
    BY WaitingStays DEF OwnerWaits
<1>1. CASE RunAdd \/ RunAbort \/ RunReset
    <2>1. /\ enginePc = "work" /\ UNCHANGED <<enginePc, clientPc, op, queue, loaded, finished>>
          /\ local # <<>> /\ local' = Tail(local)
          /\ Head(local).kind \in {"kAddRequest", "kAbortRequest", "kResetEngine"}
        BY <1>1 DEF RunAdd, RunAbort, RunReset, Working, loopVars, clientVars
    <2>2. ~Open(1)
        BY <2>1, WorkTypes DEF Open, Awaited
    <2> QED
        BY <1>0, <2>1, <2>2, DoneKeepsOrder
<1>2. CASE FinishUnload \/ RunReload
    BY <1>2, FlagKeepsOrder
<1>3. CASE EngineWait
    <2>1. UNCHANGED <<clientPc, op, loaded, finished>> /\ (Answered <=> Answered')
        BY <1>3 DEF EngineWait, clientVars, Answered
    <2> QED
        BY <1>0, <1>3, <2>1, WorkTaken, SameKeepsOrder
<1>4. CASE EngineTop \/ RunUnload \/ StepEngine \/ PushOutput \/ NotifyStream
    <2>1. UNCHANGED <<clientPc, op, loaded, finished, local, queue>> /\ (Answered <=> Answered')
        BY <1>4 DEF EngineTop, LoopHead, RunUnload, Working, StepEngine, PushOutput, NotifyStream, Answered,
           loopVars, OtherEngineVars, clientVars
    <2> QED
        BY <1>0, <2>1, SameKeepsOrder DEF Work
<1>5. CASE NotifyUnload \/ NotifyReload
    <2>1. ClientsAgree /\ local # <<>> /\ UNCHANGED <<queue, loaded, finished>>
        BY <1>5, WakeClientAgrees DEF NotifyUnload, NotifyReload, HoldsInstruction, loopVars
    <2>2. CASE enginePc' = "reload"
        <3>1. UNCHANGED local /\ (Answered <=> Answered')
            BY <1>5, <2>2 DEF NotifyUnload, NotifyReload, Answered
        <3> QED
            BY <2>1, <3>1, SameKeepsOrder DEF Work
    <2>3. CASE enginePc' # "reload"
        <3>1. enginePc' = "work" /\ local' = Tail(local)
            BY <1>5, <2>3 DEF NotifyUnload, NotifyReload
        <3>2. Answered
            BY <1>5, <2>3 DEF NotifyUnload, NotifyReload, Answered, HoldsInstruction, Awaited
        <3> QED
            BY <2>1, <3>1, <3>2, DoneKeepsOrder DEF Open
    <2> QED
        BY <2>2, <2>3
<1> QED
    BY <1>1, <1>2, <1>3, <1>4, <1>5 DEF EngineStep

\* The stream-back loop and wakeups keep the order of instructions.
LEMMA OthersKeepOrder ==
    ASSUME TypeOK, OrderInv, StreamStep \/ SpuriousWakeup \/ UNCHANGED vars
    PROVE  OrderInv'
<1>0. Owner \in Clients /\ DOMAIN clientPc = Clients
    BY ThreadsAssumption DEF TypeOK
<1>1. UNCHANGED <<op, loaded, finished, local, queue>> /\ (Answered <=> Answered')
    BY DEF StreamStep, StreamTop, StreamCheck, StreamSleep, StreamDeliver, SpuriousWakeup, Answered, vars,
       loopVars, engineVars, OtherEngineVars, clientVars
<1>2. \/ UNCHANGED clientPc
      \/ clientPc[Owner] = "asleep" /\ clientPc' = [clientPc EXCEPT ![Owner] = "woken"]
    BY DEF StreamStep, StreamTop, StreamCheck, StreamSleep, StreamDeliver, SpuriousWakeup, vars, clientVars
<1>3. ClientsAgree
    BY <1>0, <1>1, <1>2, WaitingStays DEF OwnerWaits
<1> QED
    BY <1>1, <1>3, SameKeepsOrder DEF Work

\* Only kAddRequest checks that the engine is there.
LEMMA CheckHolds ==
    ASSUME TypeOK, OrderInv, failed = FALSE, [Next]_vars
    PROVE  failed' = FALSE
<1>1. CASE RunAdd
    <2>1. local # <<>> /\ IsAdd(Head(local))
        BY <1>1 DEF RunAdd, Working, IsAdd
    <2>2. 1 \in 1..Len(Work) /\ IsAdd(Work[1])
        BY <2>1, WorkTypes
    <2>3. loaded = TRUE
        BY <2>2 DEF OrderInv
    <2> QED
        BY <1>1, <2>3 DEF RunAdd
<1>2. CASE EngineStep /\ ~RunAdd
    BY <1>2 DEF EngineStep, EngineTop, EngineWait, RunAbort, RunReset, RunUnload, FinishUnload, NotifyUnload,
       RunReload, NotifyReload, StepEngine, PushOutput, NotifyStream, OtherEngineVars
<1>3. CASE ~EngineStep
    BY <1>3 DEF Next, Call, CreateRequest, AbortRequest, Reset, Reload, Unload, Begin, Enqueue,
       ExitBackgroundLoop, ClientStep, AddRequest, NotifyEngine, AwaitFinish, OwnerStep, EnqueueAwaited,
       ExitNotifyEngine, ExitNotifyStream, StreamStep, StreamTop, StreamCheck, StreamSleep, StreamDeliver,
       SpuriousWakeup, OtherEngineVars, engineVars, vars
<1> QED
    BY <1>1, <1>2, <1>3

\* The ICHECK of RunBackgroundLoop never fails, and the two counters are right, if
\* only the thread that reloads and unloads the engine adds requests (as the servers
\* and the language bindings do).
THEOREM EngineIsThere ==
    ASSUME Adders \subseteq {Owner}
    PROVE  Spec => []ChecksHold
<1> DEFINE Inv == OrderInv /\ failed = FALSE
<1>1. Init => Inv
    <2> SUFFICES ASSUME Init
                 PROVE  Inv
        OBVIOUS
    <2>1. Owner \in Clients
        BY ThreadsAssumption
    <2>2. Work = <<>> /\ Len(Work) = 0 /\ 1..Len(Work) = {}
        BY ConcatEmptySeq DEF Init, Work
    <2> QED
        BY <2>1, <2>2 DEF Init, OrderInv
<1>2. TypeOK /\ HoldsInstruction /\ Inv /\ [Next]_vars => Inv'
    <2> SUFFICES ASSUME TypeOK, HoldsInstruction, OrderInv, failed = FALSE, [Next]_vars
                 PROVE  OrderInv' /\ failed' = FALSE
        OBVIOUS
    <2>0. Owner \in Clients
        BY ThreadsAssumption
    <2>1. OrderInv'
        BY <2>0, CallKeepsOrder, ClientsKeepOrder, EngineKeepsOrder, OthersKeepOrder DEF Next
    <2> QED
        BY <2>1, CheckHolds
<1>3. TypeOK /\ Inv => ChecksHold
    BY DEF ChecksHold
<1> QED
    BY <1>1, <1>2, <1>3, TypesInvariant, PTL DEF Spec

\* What the engine streams back reaches the callback once each and in order: nothing
\* is lost, doubled or overtaken between the background thread, the queue of outputs
\* and the stream-back thread.
THEOREM OutputsAreNotLost == Spec => []NothingLost
<1>1. Init => OutputsInv
    <2> SUFFICES ASSUME Init
                 PROVE  OutputsInv
        OBVIOUS
    <2>1. <<>> \in Seq(Batches)
        OBVIOUS
    <2> QED
        BY <2>1, ConcatEmptySeq DEF Init, OutputsInv, NothingLost
<1>2. TypeOK /\ OutputsInv /\ [Next]_vars => OutputsInv'
    BY OutputsNext
<1>3. OutputsInv => NothingLost
    BY DEF OutputsInv
<1> QED
    BY <1>1, <1>2, <1>3, TypesInvariant, PTL DEF Spec
=============================================================================
