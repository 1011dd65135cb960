---------------------------- MODULE RouterProofs ----------------------------
(***************************************************************************)
(* Proofs about the router and disaggregated serving, for any number of     *)
(* servers, GPUs and requests, any prompt and any bounds:                   *)
(*   - after terminate no process of a server is left (LaunchInv);          *)
(*   - num_running_requests is the number of attempts under way at a server *)
(*     and of those left by an exception nobody catches (LoadInv);          *)
(*   - calls find what they need, the KV window is written once and where   *)
(*     it was reserved, and retries leave no reservation behind (FlowInv);  *)
(*   - an answer ends with all responses of its last attempt (AnswerInv).   *)
(* FlowInv says, for every request, in which stage its servers are, given   *)
(* what its coroutine waits for: each stage lists what handlers and engines *)
(* hold.  It is needed because the checks of a server depend on what the    *)
(* router asked other servers before.                                       *)
(***************************************************************************)
EXTENDS Router, TLAPS, FiniteSetTheorems, SequenceTheorems

----------------------------------------------------------------------------
(* Choosing a server                                                       *)

\* A non-empty set of naturals has a least element.
LEMMA LeastNatural ==
  ASSUME NEW S \in SUBSET Nat, S # {}
  PROVE  Min(S) \in S /\ \A y \in S : Min(S) <= y
<1>1. PICK x \in S : \A y \in S : ~(<<y, x>> \in OpToRel(<, Nat))
  BY NatLessThanWellFounded, WFMin
<1>2. \A m, n \in Nat : m < n => <<m, n>> \in OpToRel(<, Nat)
  BY Zenon DEF OpToRel
<1>3. \A y \in S : ~(y < x)
  BY <1>1, <1>2
<1>4. \E z \in S : \A y \in S : z <= y
  BY <1>3
<1> QED
  BY <1>4 DEF Min

\* An interval from zero.
LEMMA CountTo ==
  ASSUME NEW n \in Int, n >= 0
  PROVE  IsFiniteSet(0..(n - 1)) /\ Cardinality(0..(n - 1)) = n
<1>1. \A b \in Int : IsFiniteSet(0..b) /\ Cardinality(0..b) = IF 0 > b THEN 0 ELSE b - 0 + 1
  BY FS_Interval
<1> QED
  BY <1>1

\* _pick_endpoint returns one of its candidates.
LEMMA PickIsCandidate ==
  ASSUME running \in [Servers -> Nat], NEW cands \in SUBSET Servers, cands # {}
  PROVE  PickEndpoint(cands) \in cands
<1> DEFINE Loads == {running[t] : t \in cands}
           Fewest == {s \in cands : \A t \in cands : running[s] <= running[t]}
<1>1. Servers \subseteq Nat
  BY RouterAssumption DEF Servers
<1>2. Loads \in SUBSET Nat /\ Loads # {}
  OBVIOUS
<1>3. \E n \in Loads : \A m \in Loads : n <= m
  BY <1>2, LeastNatural
<1>4. PICK s \in cands : \A t \in cands : running[s] <= running[t]
  BY <1>3
<1> HIDE DEF Loads
<1>5. Min(Fewest) \in Fewest
  <2>1. s \in Fewest
    BY <1>4
  <2>2. Fewest # {} /\ Fewest \in SUBSET Nat
    BY <1>1, <2>1
  <2> QED
    BY <2>2, LeastNatural
<1> QED
  BY <1>5 DEF PickEndpoint

\* The server that translate_request picks.
Picked == PickEndpoint(IF mode = "disagg" THEN Servers \ {Prefiller} ELSE Servers)
\* The picked server exists, and is not the prefill server when that is apart.
LEMMA PickedIsServer ==
  ASSUME TypeOK
  PROVE  Picked \in Servers /\ (mode = "disagg" => Picked # Prefiller)
<1>1. {0, 1} \subseteq Servers
  BY RouterAssumption DEF Servers
<1>2. running \in [Servers -> Nat]
  BY DEF TypeOK
<1>3. CASE mode = "disagg"
  <2>1. PickEndpoint(Servers \ {Prefiller}) \in Servers \ {Prefiller}
    BY <1>1, <1>2, PickIsCandidate DEF Prefiller
  <2> QED
    BY <1>3, <2>1 DEF Picked
<1>4. CASE mode # "disagg"
  <2>1. PickEndpoint(Servers) \in Servers
    BY <1>1, <1>2, PickIsCandidate
  <2> QED
    BY <1>4, <2>1 DEF Picked
<1> QED
  BY <1>3, <1>4

----------------------------------------------------------------------------
(* Ranks of workers                                                        *)

WorkersBefore(s) == UNION {Workers(t) : t \in 0..(s - 1)}

\* A server has as many workers as GPUs.
LEMMA WorkersFinite ==
  ASSUME NEW s \in Servers
  PROVE  IsFiniteSet(Workers(s)) /\ Cardinality(Workers(s)) = NumGpus[s]
<1>1. NumGpus[s] \in Nat \ {0}
  BY RouterAssumption
<1>2. IsFiniteSet(0..(NumGpus[s] - 1)) /\ Cardinality(0..(NumGpus[s] - 1)) = NumGpus[s]
  BY <1>1, CountTo
<1>3. IsFiniteSet({s}) /\ Cardinality({s}) = 1
  BY FS_Singleton
<1>4. /\ IsFiniteSet({s} \X (0..(NumGpus[s] - 1)))
      /\ Cardinality({s} \X (0..(NumGpus[s] - 1))) = 1 * NumGpus[s]
  BY <1>2, <1>3, FS_Product
<1> QED
  BY <1>1, <1>4 DEF Workers

\* There are finitely many workers before a server.
LEMMA WorkersBeforeFinite ==
  ASSUME NEW s \in Servers
  PROVE  IsFiniteSet(WorkersBefore(s))
<1> DEFINE T == 0..(s - 1)
           R == {Workers(t) : t \in T}
           f == [t \in T |-> Workers(t)]
<1>1. IsFiniteSet(T) /\ T \subseteq Servers
  <2>1. s \in Nat /\ s <= NumServers - 1 /\ NumServers \in Nat
    BY RouterAssumption DEF Servers
  <2>2. IsFiniteSet(T)
    BY <2>1, CountTo
  <2> QED
    BY <2>1, <2>2 DEF Servers
<1>2. f \in Surjection(T, R)
  BY DEF Surjection
<1>3. IsFiniteSet(R)
  BY <1>1, <1>2, FS_Surjection
<1>4. \A W \in R : IsFiniteSet(W)
  BY <1>1, WorkersFinite
<1> QED
  BY <1>3, <1>4, FS_UNION DEF WorkersBefore

\* The ranks of a later server come after those of an earlier one.
LEMMA RanksAreOrdered ==
  ASSUME NEW s \in Servers, NEW t \in Servers, s < t
  PROVE  DeviceIdStart(s) + NumGpus[s] <= DeviceIdStart(t)
<1>1. Servers \subseteq Nat
  BY RouterAssumption DEF Servers
<1>2. WorkersBefore(s) \cup Workers(s) \subseteq WorkersBefore(t)
  BY <1>1 DEF WorkersBefore
<1>3. WorkersBefore(s) \cap Workers(s) = {}
  BY <1>1 DEF WorkersBefore, Workers
<1>4. /\ IsFiniteSet(WorkersBefore(s)) /\ IsFiniteSet(WorkersBefore(t))
      /\ IsFiniteSet(Workers(s)) /\ Cardinality(Workers(s)) = NumGpus[s]
  BY WorkersFinite, WorkersBeforeFinite
<1>5. /\ Cardinality(WorkersBefore(s) \cup Workers(s)) <= Cardinality(WorkersBefore(t))
      /\ Cardinality(WorkersBefore(s) \cup Workers(s))
           = Cardinality(WorkersBefore(s)) + NumGpus[s] - Cardinality({})
  BY <1>2, <1>3, <1>4, FS_Subset, FS_Union
<1>6. Cardinality({}) = 0 /\ Cardinality(WorkersBefore(s)) \in Nat /\ NumGpus[s] \in Nat
  BY <1>4, FS_EmptySet, FS_CardinalityType, RouterAssumption
<1> QED
  BY <1>5, <1>6 DEF DeviceIdStart, WorkersBefore

\* The rank that the router names as the receiver is one of the server it picked.
LEMMA RankIsOwned ==
  ASSUME NEW s \in Servers
  PROVE  OwnerOf(DeviceIdStart(s)) = s
<1>1. \A t \in Servers : DeviceIdStart(t) \in Nat /\ NumGpus[t] \in Nat \ {0}
  BY WorkersBeforeFinite, FS_CardinalityType, RouterAssumption DEF DeviceIdStart, WorkersBefore
<1>2. \A t \in Servers : DeviceIdStart(t) <= DeviceIdStart(s) /\ DeviceIdStart(s) < DeviceIdStart(t) + NumGpus[t]
                        => t = s
  <2> SUFFICES ASSUME NEW t \in Servers, t # s, DeviceIdStart(t) <= DeviceIdStart(s),
                      DeviceIdStart(s) < DeviceIdStart(t) + NumGpus[t]
               PROVE  FALSE
    OBVIOUS
  <2>1. s \in Nat /\ t \in Nat
    BY RouterAssumption DEF Servers
  <2>2. CASE s < t
    BY <1>1, <2>2, RanksAreOrdered
  <2>3. CASE t < s
    BY <1>1, <2>3, RanksAreOrdered
  <2> QED
    BY <2>1, <2>2, <2>3
<1>3. DeviceIdStart(s) <= DeviceIdStart(s) /\ DeviceIdStart(s) < DeviceIdStart(s) + NumGpus[s]
  BY <1>1
<1> QED
  BY <1>2, <1>3 DEF OwnerOf

----------------------------------------------------------------------------
(* Launching and terminating                                               *)

\* The inductive invariant: every thread that was started has appended its server,
\* and all were joined before the router serves.
LaunchInv ==
  /\ DOMAIN proc = Servers /\ DOMAIN thread = Servers
  /\ \A s \in Servers : thread[s] # "new" => s \in servers
  /\ phase # "launching" => \A s \in Servers : thread[s] = "joined"
  /\ NoStrayServers

\* After terminate no process of a server is left, whether its start succeeded,
\* failed or timed out.
THEOREM ServersAreTerminated == Spec => []NoStrayServers
<1>1. Init => LaunchInv
  BY DEF Init, LaunchInv, NoStrayServers
<1>2. LaunchInv /\ [Next]_vars => LaunchInv'
  <2> SUFFICES ASSUME LaunchInv, [Next]_vars
               PROVE  LaunchInv'
    OBVIOUS
  <2> USE DEF LaunchInv, NoStrayServers
  <2>1. ASSUME NEW s \in Servers, StartServer(s)
        PROVE  LaunchInv'
    BY <2>1 DEF StartServer
  <2>2. ASSUME NEW s \in Servers, Boot(s)
        PROVE  LaunchInv'
    <3>1. phase # "terminated"
      BY <2>2 DEF Boot
    <3> QED
      BY <2>2, <3>1 DEF Boot
  <2>3. ASSUME NEW s \in Servers, Poll(s)
        PROVE  LaunchInv'
    BY <2>3 DEF Poll
  <2>4. CASE Join
    BY <2>4 DEF Join
  <2>5. CASE Terminate
    BY <2>5 DEF Terminate, Killed
  <2>6. CASE UNCHANGED launch
    BY <2>6 DEF launch
  <2>7. (\E r \in Requests : RouterStep(r) \/ Fail(r) \/ Cancel(r)) => UNCHANGED launch
    BY DEF RouterStep, Fail, Cancel, Translate, ReceivePrep, ReceiveSend, ReceiveChunk, ReceivePreempt,
       ReceiveEnd
  <2>8. ASSUME NEW s \in Servers, NEW r \in Requests, EngineStep(s, r) \/ Preempt(s, r)
        PROVE  UNCHANGED launch
    <3>1. AddRequest(s, r) => UNCHANGED launch
      BY DEF AddRequest
    <3>2. PrepareReceive(s, r) => UNCHANGED launch
      BY DEF PrepareReceive
    <3>3. RemoteSend(s, r) => UNCHANGED launch
      BY DEF RemoteSend
    <3>4. StartPlain(s, r) \/ Generate(s, r) \/ AbortDisconnected(s, r) \/ Preempt(s, r) => UNCHANGED launch
      BY DEF StartPlain, Generate, AbortDisconnected, Preempt
    <3> QED
      BY <2>8, <3>1, <3>2, <3>3, <3>4 DEF EngineStep
  <2> QED
    BY <2>1, <2>2, <2>3, <2>4, <2>5, <2>6, <2>7, <2>8 DEF Next, vars
<1>3. LaunchInv => NoStrayServers
  BY DEF LaunchInv
<1> QED
  BY <1>1, <1>2, <1>3, PTL DEF Spec

----------------------------------------------------------------------------
(* Counting requests                                                       *)

\* What num_running_requests of a server counts.
Counted(s) == Underway(s) \cup {a \in abandoned : a[3] = s}

\* The inductive invariant: no attempt is counted twice, because what was abandoned
\* is an earlier attempt or one of a request that is not under way.
LoadInv ==
  /\ \A s \in Servers : IsFiniteSet(Counted(s)) /\ running[s] = Cardinality(Counted(s))
  /\ \A a \in abandoned : a[2] <= attempt[a[1]] /\ (pc[a[1]] \in Working => a[2] < attempt[a[1]])

\* A step after which the same requests are under way.
LEMMA SameCounted ==
  ASSUME LoadInv, UNCHANGED <<at, attempt, abandoned, running>>,
         \A q \in Requests : pc'[q] \in Working <=> pc[q] \in Working, TypeOK
  PROVE  LoadInv'
<1>1. \A s \in Servers : Underway(s)' = Underway(s)
  BY DEF Underway
<1>2. \A s \in Servers : Counted(s)' = Counted(s)
  BY <1>1 DEF Counted
<1>3. \A a \in abandoned : a[1] \in Requests
  BY DEF TypeOK
<1> QED
  BY <1>2, <1>3 DEF LoadInv

\* Request r is no longer under way.
Leaves(r) ==
  /\ pc[r] \in Working /\ \E x : x \notin Working /\ pc' = [pc EXCEPT ![r] = x]
  /\ UNCHANGED <<at, attempt>>

\* The attempts under way, when one leaves.
LEMMA LeavesUnderway ==
  ASSUME TypeOK, NEW r \in Requests, Leaves(r)
  PROVE  /\ <<r, attempt[r], at[r]>> \in Underway(at[r])
         /\ \A s \in Servers : Underway(s)' = Underway(s) \ {<<r, attempt[r], at[r]>>}
<1>1. \A q \in Requests : pc'[q] \in Working <=> q # r /\ pc[q] \in Working
  BY DEF TypeOK, Leaves
<1>2. <<r, attempt[r], at[r]>> \in Underway(at[r])
  BY DEF Leaves, Underway
<1>3. ASSUME NEW s \in Servers
      PROVE  Underway(s)' = Underway(s) \ {<<r, attempt[r], at[r]>>}
  <2>1. Underway(s)' \subseteq Underway(s) \ {<<r, attempt[r], at[r]>>}
    BY <1>1 DEF Leaves, Underway
  <2>2. Underway(s) \ {<<r, attempt[r], at[r]>>} \subseteq Underway(s)'
    BY <1>1 DEF Leaves, Underway
  <2> QED
    BY <2>1, <2>2
<1> QED
  BY <1>2, <1>3

\* It stays counted.
LEMMA AbandonCounted ==
  ASSUME TypeOK, LoadInv, NEW r \in Requests, Leaves(r), UNCHANGED running,
         abandoned' = abandoned \cup {<<r, attempt[r], at[r]>>}
  PROVE  LoadInv'
<1> DEFINE e == <<r, attempt[r], at[r]>>
<1>1. e[1] = r /\ e[2] = attempt[r] /\ e[3] = at[r] /\ attempt[r] \in Nat
  BY DEF TypeOK
<1>2. ASSUME NEW s \in Servers
      PROVE  Counted(s)' = Counted(s)
  <2>1. CASE s = at[r]
    <3>1. {a \in abandoned' : a[3] = s} = {a \in abandoned : a[3] = s} \cup {e}
      BY <1>1, <2>1
    <3>2. e \in Underway(s) /\ Underway(s)' = Underway(s) \ {e}
      BY <2>1, LeavesUnderway
    <3> HIDE DEF e
    <3> QED
      BY <3>1, <3>2 DEF Counted
  <2>2. CASE s # at[r]
    <3>1. e \notin Underway(s)
      BY <2>2 DEF Underway
    <3> QED
      BY <1>1, <2>2, <3>1, LeavesUnderway DEF Counted
  <2> QED
    BY <2>1, <2>2
<1>3. \A q \in Requests : pc'[q] \in Working <=> q # r /\ pc[q] \in Working
  BY DEF TypeOK, Leaves
<1>4. \A a \in abandoned' : a = e \/ (a \in abandoned /\ a[1] \in Requests)
  BY DEF TypeOK
<1> HIDE DEF e
<1>5. \A a \in abandoned' : a[2] <= attempt[a[1]] /\ (pc'[a[1]] \in Working => a[2] < attempt[a[1]])
  BY <1>1, <1>3, <1>4 DEF LoadInv
<1>6. UNCHANGED attempt
  BY DEF Leaves
<1> QED
  BY <1>2, <1>5, <1>6 DEF LoadInv

\* It is uncounted.
LEMMA Uncounted ==
  ASSUME TypeOK, LoadInv, NEW r \in Requests, Leaves(r), UNCHANGED abandoned,
         running' = [running EXCEPT ![at[r]] = @ - 1]
  PROVE  LoadInv'
<1> DEFINE e == <<r, attempt[r], at[r]>>
<1>1. e[1] = r /\ e[2] = attempt[r] /\ e[3] = at[r] /\ attempt[r] \in Nat /\ at[r] \in Servers
  BY DEF TypeOK
<1>2. e \notin abandoned
  BY <1>1 DEF LoadInv, Leaves
<1>3. \A s \in Servers : Counted(s)' = Counted(s) \ {e}
  BY <1>2, LeavesUnderway DEF Counted
<1>4. e \in Counted(at[r]) /\ \A s \in Servers : s # at[r] => e \notin Counted(s)
  BY <1>2, LeavesUnderway DEF Counted, Underway
<1>5. \A q \in Requests : pc'[q] \in Working <=> q # r /\ pc[q] \in Working
  BY DEF TypeOK, Leaves
<1> HIDE DEF e
<1>6. ASSUME NEW s \in Servers
      PROVE  IsFiniteSet(Counted(s)') /\ running'[s] = Cardinality(Counted(s)')
  <2>1. IsFiniteSet(Counted(s)) /\ running[s] = Cardinality(Counted(s)) /\ running[s] \in Nat
    BY DEF LoadInv, TypeOK
  <2>2. /\ IsFiniteSet(Counted(s)')
        /\ Cardinality(Counted(s)') = IF e \in Counted(s) THEN running[s] - 1 ELSE running[s]
    BY <1>3, <2>1, FS_RemoveElement
  <2>3. running'[s] = IF s = at[r] THEN running[s] - 1 ELSE running[s]
    BY DEF TypeOK
  <2> QED
    BY <1>4, <2>2, <2>3
<1>7. \A a \in abandoned : a[1] \in Requests
  BY DEF TypeOK
<1>8. UNCHANGED attempt
  BY DEF Leaves
<1> QED
  BY <1>5, <1>6, <1>7, <1>8 DEF LoadInv

\* translate_request counts the new attempt, once.
LEMMA TranslateCounted ==
  ASSUME TypeOK, LoadInv, NEW r \in Requests, Translate(r)
  PROVE  LoadInv'
<1>0. PICK p \in Servers : p = Picked
  BY PickedIsServer
<1> DEFINE e == <<r, attempt[r] + 1, p>>
<1>12. attempt[r] \in Nat
  BY DEF TypeOK
<1>1. /\ pc[r] \notin Working /\ pc'[r] \in Working
      /\ at' = [at EXCEPT ![r] = p] /\ attempt' = [attempt EXCEPT ![r] = @ + 1]
      /\ running' = [running EXCEPT ![p] = @ + 1]
      /\ \E x : pc' = [pc EXCEPT ![r] = x]
      /\ UNCHANGED abandoned
  BY <1>0 DEF Translate, Picked, Working, TypeOK
<1>2. e[1] = r /\ e[2] = attempt[r] + 1 /\ e[3] = p
  OBVIOUS
<1>3. /\ at'[r] = p /\ attempt'[r] = attempt[r] + 1
      /\ \A q \in Requests : q # r => pc'[q] = pc[q] /\ at'[q] = at[q] /\ attempt'[q] = attempt[q]
  BY <1>1 DEF TypeOK
<1>4. Underway(p)' = Underway(p) \cup {e}
  <2>1. Underway(p)' \subseteq Underway(p) \cup {e}
    BY <1>3 DEF Underway
  <2>2. e \in Underway(p)'
    BY <1>1, <1>3 DEF Underway
  <2>3. Underway(p) \subseteq Underway(p)'
    BY <1>1, <1>3 DEF Underway
  <2> QED
    BY <2>1, <2>2, <2>3
<1>5. \A s \in Servers : s # p => Underway(s)' = Underway(s)
  BY <1>1, <1>3 DEF Underway
<1>6. e \notin abandoned
  BY <1>12, <1>2 DEF LoadInv
<1>7. e \notin Counted(p)
  BY <1>1, <1>6 DEF Counted, Underway
<1>8. Counted(p)' = Counted(p) \cup {e} /\ \A s \in Servers : s # p => Counted(s)' = Counted(s)
  BY <1>1, <1>4, <1>5 DEF Counted
<1> HIDE DEF e
<1>9. ASSUME NEW s \in Servers
      PROVE  IsFiniteSet(Counted(s)') /\ running'[s] = Cardinality(Counted(s)')
  <2>1. IsFiniteSet(Counted(s)) /\ running[s] = Cardinality(Counted(s)) /\ running[s] \in Nat
    BY DEF LoadInv, TypeOK
  <2>2. CASE s = p
    <3>1. IsFiniteSet(Counted(s)') /\ Cardinality(Counted(s)') = running[s] + 1
      BY <1>7, <1>8, <2>1, <2>2, FS_AddElement
    <3> QED
      BY <1>0, <1>1, <2>2, <3>1 DEF TypeOK
  <2>3. CASE s # p
    <3>1. running'[s] = running[s]
      BY <1>1, <2>3 DEF TypeOK
    <3> QED
      BY <1>8, <2>1, <2>3, <3>1
  <2> QED
    BY <2>2, <2>3
<1>10. \A a \in abandoned : a[1] \in Requests /\ a[2] \in Nat
  BY DEF TypeOK
<1>11. \A a \in abandoned : a[2] <= attempt'[a[1]] /\ (pc'[a[1]] \in Working => a[2] < attempt'[a[1]])
  BY <1>12, <1>3, <1>10 DEF LoadInv
<1> QED
  BY <1>1, <1>9, <1>11 DEF LoadInv

\* What the servers do leaves the counters and the coroutines alone.
LEMMA EngineFrame ==
  ASSUME NEW s \in Servers, NEW r \in Requests, EngineStep(s, r) \/ Preempt(s, r)
  PROVE  UNCHANGED <<config, launch, running, pc, at, attempt, got, abandoned, faults>>
<1>1. AddRequest(s, r) => UNCHANGED <<config, launch, running, pc, at, attempt, got, abandoned, faults>>
  BY DEF AddRequest, client, bounds
<1>2. PrepareReceive(s, r) => UNCHANGED <<config, launch, running, pc, at, attempt, got, abandoned, faults>>
  BY DEF PrepareReceive, bounds
<1>3. RemoteSend(s, r) => UNCHANGED <<config, launch, running, pc, at, attempt, got, abandoned, faults>>
  BY DEF RemoteSend, bounds
<1>4. StartPlain(s, r) => UNCHANGED <<config, launch, running, pc, at, attempt, got, abandoned, faults>>
  BY DEF StartPlain, client, bounds
<1>5. Generate(s, r) => UNCHANGED <<config, launch, running, pc, at, attempt, got, abandoned, faults>>
  BY DEF Generate, bounds
<1>6. AbortDisconnected(s, r) => UNCHANGED <<config, launch, running, pc, at, attempt, got, abandoned, faults>>
  BY DEF AbortDisconnected, client, bounds
<1>7. Preempt(s, r) => UNCHANGED <<config, launch, running, pc, at, attempt, got, abandoned, faults>>
  BY DEF Preempt
<1> QED
  BY <1>1, <1>2, <1>3, <1>4, <1>5, <1>6, <1>7 DEF EngineStep

\* Every step keeps the counters right.
LEMMA LoadNext ==
  ASSUME TypeOK, LoadInv, [Next]_vars
  PROVE  LoadInv'
<1>1. ASSUME NEW r \in Requests, RouterStep(r)
      PROVE  LoadInv'
  <2>1. CASE Translate(r)
    BY <2>1, TranslateCounted
  <2>2. CASE ReceivePrep(r) \/ ReceiveSend(r) \/ ReceiveChunk(r)
    <3>1. UNCHANGED <<at, attempt, abandoned, running>>
      BY <2>2 DEF ReceivePrep, ReceiveSend, ReceiveChunk
    <3>2. \A q \in Requests : pc'[q] \in Working <=> pc[q] \in Working
      <4>1. UNCHANGED pc \/ (pc[r] \in Working /\ \E x \in Working : pc' = [pc EXCEPT ![r] = x])
        BY <2>2 DEF ReceivePrep, ReceiveSend, ReceiveChunk, Working
      <4> QED
        BY <4>1 DEF TypeOK
    <3> QED
      BY <3>1, <3>2, SameCounted
  <2>3. CASE ReceivePreempt(r)
    <3>1. Leaves(r)
      BY <2>3 DEF ReceivePreempt, Leaves, Working
    <3> QED
      BY <2>3, <3>1, AbandonCounted DEF ReceivePreempt
  <2>4. CASE ReceiveEnd(r)
    <3>1. Leaves(r)
      BY <2>4 DEF ReceiveEnd, Leaves, Working
    <3> QED
      BY <2>4, <3>1, Uncounted DEF ReceiveEnd
  <2> QED
    BY <1>1, <2>1, <2>2, <2>3, <2>4 DEF RouterStep
<1>2. ASSUME NEW r \in Requests, Fail(r)
      PROVE  LoadInv'
  <2>1. Leaves(r)
    BY <1>2 DEF Fail, Leaves, Working
  <2>2. CASE mode = "disagg"
    BY <1>2, <2>1, <2>2, Uncounted DEF Fail, Uncount
  <2>3. CASE mode # "disagg"
    BY <1>2, <2>1, <2>3, AbandonCounted DEF Fail, Uncount
  <2> QED
    BY <2>2, <2>3
<1>3. ASSUME NEW r \in Requests, Cancel(r)
      PROVE  LoadInv'
  <2>1. CASE pc[r] = "retry"
    <3>1. UNCHANGED <<at, attempt, abandoned, running>>
      BY <1>3, <2>1 DEF Cancel
    <3>2. \A q \in Requests : pc'[q] \in Working <=> pc[q] \in Working
      BY <1>3, <2>1 DEF Cancel, Working, TypeOK
    <3> QED
      BY <3>1, <3>2, SameCounted
  <2>2. CASE pc[r] # "retry"
    <3>1. Leaves(r)
      BY <1>3, <2>2 DEF Cancel, Leaves, Working
    <3> QED
      BY <1>3, <2>2, <3>1, AbandonCounted DEF Cancel
  <2> QED
    BY <2>1, <2>2
<1>4. UNCHANGED <<pc, at, attempt, abandoned, running>> => LoadInv'
  BY SameCounted
<1>5. (\E s \in Servers : StartServer(s) \/ Boot(s) \/ Poll(s)) \/ Join \/ Terminate \/ UNCHANGED vars
        => UNCHANGED <<pc, at, attempt, abandoned, running>>
  BY DEF StartServer, Boot, Poll, Join, Terminate, client, vars
<1>6. (\E s \in Servers, r \in Requests : EngineStep(s, r) \/ Preempt(s, r))
        => UNCHANGED <<pc, at, attempt, abandoned, running>>
  BY EngineFrame
<1> QED
  BY <1>1, <1>2, <1>3, <1>4, <1>5, <1>6 DEF Next

----------------------------------------------------------------------------
(* Where a request is                                                      *)

\* The positions before n were put into the sequence, once each.
Upto(n) == [i \in Positions |-> IF i < n THEN 1 ELSE 0]
Job(st, task, n, made) == [st |-> st, task |-> task, written |-> Upto(n), made |-> made]
JobIs(s, r, st, n, made) == job[s][r] = Job(st, job[s][r].task, n, made)
Ends == {-1} \cup Positions

Idle(s, r) == handler[s][r] = NoTask /\ job[s][r] = NoJob
Nothing(r) == \A s \in Servers : Idle(s, r)
Alone(r) == \A s \in Servers \ {at[r]} : Idle(s, r)

\* The stages of a request.
PrepCalled(r) ==
  /\ Alone(r) /\ at[r] # Prefiller /\ job[at[r]][r] = NoJob
  /\ \E end \in Ends : handler[at[r]][r] = Task("prep", 0, end, 0, 0)
PrepWaits(r) ==
  /\ Alone(r) /\ at[r] # Prefiller /\ handler[at[r]][r] = NoTask
  /\ \E end \in Ends : job[at[r]][r] = Job("waiting", Task("prep", 0, end, 0, 0), 0, 0)
Prepared(r, n) ==
  /\ Alone(r) /\ at[r] # Prefiller /\ handler[at[r]][r] = NoTask
  /\ n \in Positions /\ JobIs(at[r], r, "prepared", n, 0)

\* What is to be sent for request r.
Window(r, task) ==
  /\ task = Task("send", task.begin, task.end, DeviceIdStart(at[r]), task.end - task.begin)
  /\ task.begin \in Positions /\ task.end \in Positions /\ task.begin < task.end
Pair(r) ==
  /\ at[r] # Prefiller /\ handler[at[r]][r] = NoTask
  /\ \A s \in Servers \ {at[r], Prefiller} : Idle(s, r)
SendCalled(r) ==
  /\ Pair(r) /\ Window(r, handler[Prefiller][r]) /\ job[Prefiller][r] = NoJob
  /\ JobIs(at[r], r, "prepared", handler[Prefiller][r].begin, 0)
Sends(r) ==
  LET j == job[Prefiller][r]
  IN  /\ Pair(r) /\ Window(r, j.task) /\ handler[Prefiller][r] = NoTask
      /\ j = Job(j.st, j.task, 0, j.made) /\ j.st \in {"waiting", "sending"}
      /\ j.made \in 0..(j.task.end - j.task.begin - 1)
      /\ JobIs(at[r], r, "prepared", j.task.begin + j.made, 0)

GenCalled(r) ==
  LET begin == handler[at[r]][r].begin
  IN  /\ Alone(r) /\ at[r] # Prefiller
      /\ begin \in Positions /\ handler[at[r]][r] = Task("gen", begin, 0, 0, 0)
      /\ JobIs(at[r], r, "prepared", begin, 0)
PlainCalled(r) ==
  Alone(r) /\ handler[at[r]][r] = Task("plain", 0, 0, 0, 0) /\ job[at[r]][r] = NoJob
PlainWaits(r) ==
  /\ Alone(r) /\ handler[at[r]][r] = NoTask
  /\ job[at[r]][r] = Job("waiting", Task("plain", 0, 0, 0, 0), 0, 0)
Runs(r) ==
  LET j == job[at[r]][r]
  IN  /\ Alone(r) /\ handler[at[r]][r] = NoTask
      /\ j.made \in 0..(NumResponses(r) - 1) /\ j.task.begin \in Positions
      /\ j = Job("running", j.task, IF j.made = 0 THEN j.task.begin ELSE PromptLen, j.made)

\* What is under way from a server that generates.
Chunks == [kind : {"chunk"}, no : Nat]
Messages == Chunks \cup [kind : {"preempt", "end"}]

Prepares(r) == PrepCalled(r) \/ PrepWaits(r)
Transfers(r) == SendCalled(r) \/ Sends(r)
Begins(r) == GenCalled(r) \/ PlainCalled(r) \/ PlainWaits(r)

Stage(r) ==
  \/ Nothing(r) \/ Prepares(r) \/ (\E n \in Positions : Prepared(r, n)) \/ Transfers(r)
  \/ Begins(r) \/ Runs(r)

\* The inductive invariant: the stage of a request follows from what its coroutine
\* waits for; only one that was given up may be in any stage.
Flow(r) ==
  /\ pc[r] \in {"new", "retry", "ended"} => Nothing(r) /\ reply[r] = <<>>
  /\ pc[r] = "prep" =>
       \/ Prepares(r) /\ reply[r] = <<>>
       \/ \E end \in Ends : \E n \in 0..Resolved(end) :
            /\ Prepared(r, n)
            /\ reply[r] = <<[kind |-> "prepared", matched |-> n, reserved |-> Resolved(end) - n,
                             end |-> end]>>
  /\ pc[r] = "send" =>
       \/ Transfers(r) /\ reply[r] = <<>>
       \/ \E end \in Positions : Prepared(r, end) /\ reply[r] = <<[kind |-> "sent", end |-> end]>>
  /\ pc[r] = "gen" =>
       \/ Begins(r) /\ reply[r] = <<>>
       \/ Runs(r) /\ reply[r] \in Seq(Chunks)
       \/ Nothing(r) /\ reply[r] \in Seq(Messages)
  /\ pc[r] \in {"failed", "cancelled"} => reply[r] = <<>> /\ Stage(r)
FlowInv == \A r \in Requests : Flow(r)


----------------------------------------------------------------------------
(* Tables of requests and servers                                          *)

Grid(f) == DOMAIN f = Servers /\ \A s \in Servers : DOMAIN f[s] = Requests
Tables == Grid(handler) /\ Grid(job) /\ DOMAIN reply = Requests /\ DOMAIN got = Requests

\* A call to a server.
LEMMA PostUpdate ==
  ASSUME Grid(handler), NEW s \in Servers, NEW r \in Requests, NEW v, handler' = Post(handler, s, r, v)
  PROVE  /\ Grid(handler') /\ handler'[s][r] = v
         /\ \A t \in Servers, q \in Requests : t # s \/ q # r => handler'[t][q] = handler[t][q]
BY DEF Grid, Post

\* The fields of jobs and tasks.
LEMMA Fields ==
  /\ \A st, task, n, made : /\ Job(st, task, n, made).st = st /\ Job(st, task, n, made).task = task
                            /\ Job(st, task, n, made).written = Upto(n)
                            /\ Job(st, task, n, made).made = made
  /\ \A kind, begin, end, rank, meta :
       LET task == Task(kind, begin, end, rank, meta)
       IN  /\ task.kind = kind /\ task.begin = begin /\ task.end = end /\ task.rank = rank /\ task.meta = meta
  /\ NoTask.kind = "none" /\ NoJob.st = "none"
  /\ NoJob = Job("none", NoTask, 0, 0)
<1>1. \A st, task, n, made : /\ Job(st, task, n, made).st = st /\ Job(st, task, n, made).task = task
                            /\ Job(st, task, n, made).written = Upto(n)
                            /\ Job(st, task, n, made).made = made
  BY DEF Job
<1>2. \A kind, begin, end, rank, meta :
        LET task == Task(kind, begin, end, rank, meta)
        IN  /\ task.kind = kind /\ task.begin = begin /\ task.end = end /\ task.rank = rank /\ task.meta = meta
  BY DEF Task
<1>3. NoTask.kind = "none" /\ NoJob.st = "none"
  BY DEF NoTask, NoJob, Task
<1>4. NoJob = Job("none", NoTask, 0, 0)
  <2>1. \A i \in Positions : ~(i < 0)
    BY RouterAssumption DEF Positions
  <2>2. Upto(0) = [i \in Positions |-> 0]
    BY <2>1 DEF Upto
  <2> QED
    BY <2>2 DEF Job, NoJob
<1> QED
  BY <1>1, <1>2, <1>3, <1>4

\* A server that knows nothing of a request has no handler and no job.
LEMMA IdleIs ==
  ASSUME NEW s, NEW r, Idle(s, r)
  PROVE  handler[s][r].kind = "none" /\ job[s][r].st = "none"
BY Fields DEF Idle

\* What the servers hold in each stage.
LEMMA InNothing ==
  ASSUME NEW r \in Requests, Nothing(r)
  PROVE  \A s \in Servers : handler[s][r].kind = "none" /\ job[s][r].st = "none"
BY IdleIs DEF Nothing

\* The preparation is called for, and nothing else.
LEMMA InPrepCalled ==
  ASSUME NEW r \in Requests, PrepCalled(r), NEW s \in Servers
  PROVE  /\ job[s][r].st = "none"
         /\ handler[s][r].kind = IF s = at[r] THEN "prep" ELSE "none"
BY IdleIs, Fields DEF PrepCalled, Alone

\* The preparation waits in the engine of the decode server.
LEMMA InPrepWaits ==
  ASSUME NEW r \in Requests, PrepWaits(r), NEW s \in Servers
  PROVE  /\ handler[s][r].kind = "none"
         /\ job[s][r].st = (IF s = at[r] THEN "waiting" ELSE "none")
         /\ s = at[r] => job[s][r].task.kind = "prep"
BY IdleIs, Fields DEF PrepWaits, Alone

\* The sequence is reserved at the decode server.
LEMMA InPrepared ==
  ASSUME NEW r \in Requests, NEW n, Prepared(r, n), NEW s \in Servers
  PROVE  handler[s][r].kind = "none" /\ job[s][r].st = IF s = at[r] THEN "prepared" ELSE "none"
BY IdleIs, Fields DEF Prepared, Alone, JobIs

\* The transfer is called for; the sequence is reserved.
LEMMA InSendCalled ==
  ASSUME NEW r \in Requests, SendCalled(r), NEW s \in Servers
  PROVE  /\ at[r] # Prefiller
         /\ handler[s][r].kind = (IF s = Prefiller THEN "send" ELSE "none")
         /\ job[s][r].st = (IF s = at[r] THEN "prepared" ELSE "none")
<1>1. handler[Prefiller][r].kind = "send"
  BY Fields DEF SendCalled, Window
<1>2. job[at[r]][r].st = "prepared"
  BY Fields DEF SendCalled, JobIs
<1> QED
  BY <1>1, <1>2, IdleIs, Fields DEF SendCalled, Pair

\* The prefill server sends into the reserved sequence.
LEMMA InSends ==
  ASSUME NEW r \in Requests, Sends(r), NEW s \in Servers
  PROVE  /\ at[r] # Prefiller
         /\ handler[s][r].kind = "none"
         /\ s = Prefiller => job[s][r].st \in {"waiting", "sending"} /\ job[s][r].task.kind = "send"
         /\ s # Prefiller => job[s][r].st = (IF s = at[r] THEN "prepared" ELSE "none")
<1>1. job[Prefiller][r].task.kind = "send" /\ job[Prefiller][r].st \in {"waiting", "sending"}
  BY Fields DEF Sends, Window
<1>2. job[at[r]][r].st = "prepared"
  BY Fields DEF Sends, JobIs
<1> QED
  BY <1>1, <1>2, IdleIs, Fields DEF Sends, Pair

\* The generation is called for; the sequence is reserved.
LEMMA InGenCalled ==
  ASSUME NEW r \in Requests, GenCalled(r), NEW s \in Servers
  PROVE  /\ handler[s][r].kind = (IF s = at[r] THEN "gen" ELSE "none")
         /\ job[s][r].st = (IF s = at[r] THEN "prepared" ELSE "none")
<1>1. handler[at[r]][r].kind = "gen" /\ job[at[r]][r].st = "prepared"
  BY Fields DEF GenCalled, JobIs
<1> QED
  BY <1>1, IdleIs DEF GenCalled, Alone

\* A plain completion is called for, or waits.
LEMMA InPlain ==
  ASSUME NEW r \in Requests, PlainCalled(r) \/ PlainWaits(r), NEW s \in Servers
  PROVE  /\ PlainCalled(r) => /\ handler[s][r].kind = (IF s = at[r] THEN "plain" ELSE "none")
                              /\ job[s][r].st = "none"
         /\ PlainWaits(r) => /\ handler[s][r].kind = "none"
                             /\ job[s][r].st = (IF s = at[r] THEN "waiting" ELSE "none")
                             /\ s = at[r] => job[s][r].task.kind = "plain"
BY IdleIs, Fields DEF PlainCalled, PlainWaits, Alone

\* The request runs at its server.
LEMMA InRuns ==
  ASSUME NEW r \in Requests, Runs(r), NEW s \in Servers
  PROVE  handler[s][r].kind = "none" /\ job[s][r].st = IF s = at[r] THEN "running" ELSE "none"
BY IdleIs, Fields DEF Runs, Alone

----------------------------------------------------------------------------
(* Requests that a step is not about                                       *)

\* Nothing of request q changes.
Same(q) ==
  /\ pc'[q] = pc[q] /\ at'[q] = at[q] /\ reply'[q] = reply[q]
  /\ attempt'[q] = attempt[q] /\ got'[q] = got[q]
  /\ \A s \in Servers : handler'[s][q] = handler[s][q] /\ job'[s][q] = job[s][q]

\* The stage of a request depends on nothing else.
LEMMA SameStage ==
  ASSUME NEW q \in Requests, at[q] \in Servers, at'[q] = at[q],
         \A s \in Servers : handler'[s][q] = handler[s][q] /\ job'[s][q] = job[s][q]
  PROVE  /\ Nothing(q)' <=> Nothing(q)
         /\ PrepCalled(q)' <=> PrepCalled(q)
         /\ PrepWaits(q)' <=> PrepWaits(q)
         /\ \A n : Prepared(q, n)' <=> Prepared(q, n)
         /\ SendCalled(q)' <=> SendCalled(q)
         /\ Sends(q)' <=> Sends(q)
         /\ GenCalled(q)' <=> GenCalled(q)
         /\ PlainCalled(q)' <=> PlainCalled(q)
         /\ PlainWaits(q)' <=> PlainWaits(q)
         /\ Runs(q)' <=> Runs(q)
         /\ Stage(q)' <=> Stage(q)
<1>0. Prefiller \in Servers
  BY RouterAssumption DEF Servers, Prefiller
<1>1. \A s \in Servers : Idle(s, q)' <=> Idle(s, q)
  BY DEF Idle
<1>2. Alone(q)' <=> Alone(q)
  BY <1>1 DEF Alone
<1>3. Pair(q)' <=> Pair(q)
  BY <1>1 DEF Pair
<1>4. \A task : Window(q, task)' <=> Window(q, task)
  BY DEF Window
<1>5. \A st, n, made : JobIs(at[q], q, st, n, made)' <=> JobIs(at[q], q, st, n, made)
  BY DEF JobIs
<1>6. Nothing(q)' <=> Nothing(q)
  BY <1>1 DEF Nothing
<1>7. PrepCalled(q)' <=> PrepCalled(q)
  BY <1>2 DEF PrepCalled
<1>8. PrepWaits(q)' <=> PrepWaits(q)
  BY <1>2 DEF PrepWaits
<1>9. \A n : Prepared(q, n)' <=> Prepared(q, n)
  BY <1>2 DEF Prepared, JobIs
<1>10. SendCalled(q)' <=> SendCalled(q)
  BY <1>0, <1>3 DEF SendCalled, JobIs, Window
<1>11. Sends(q)' <=> Sends(q)
  BY <1>0, <1>3 DEF Sends, JobIs, Window
<1>12. GenCalled(q)' <=> GenCalled(q)
  BY <1>2 DEF GenCalled, JobIs
<1>13. PlainCalled(q)' <=> PlainCalled(q)
  BY <1>2 DEF PlainCalled
<1>14. PlainWaits(q)' <=> PlainWaits(q)
  BY <1>2 DEF PlainWaits
<1>15. Runs(q)' <=> Runs(q)
  BY <1>2 DEF Runs
<1>16. Stage(q)' <=> Stage(q)
  BY <1>6, <1>7, <1>8, <1>9, <1>10, <1>11, <1>12, <1>13, <1>14, <1>15
  DEF Stage, Prepares, Transfers, Begins
<1> QED
  BY <1>6, <1>7, <1>8, <1>9, <1>10, <1>11, <1>12, <1>13, <1>14, <1>15, <1>16

\* Flow is kept where nothing of the request changes.
LEMMA SameFlow ==
  ASSUME NEW q \in Requests, at[q] \in Servers, Same(q), Flow(q)
  PROVE  Flow(q)'
BY SameStage DEF Flow, Same, Prepares, Transfers, Begins

----------------------------------------------------------------------------
(* The router moves a request                                              *)

\* kv_window_end leaves at least one token of the prompt to the decode server.
LEMMA WindowEndsAre ==
  ASSUME TypeOK
  PROVE  WindowEnds \subseteq Ends /\ \A end \in Ends : Resolved(end) \in Positions
<1>1. PromptLen \in Nat \ {0}
  BY RouterAssumption
<1>2. \A end \in Ends : Resolved(end) \in Positions
  BY <1>1 DEF Ends, Resolved, Positions
<1>3. CASE balance = 0
  BY <1>2, <1>3 DEF WindowEnds, Ends
<1>4. CASE balance # 0
  <2>1. balance \in 1..10
    BY <1>4, RouterAssumption DEF TypeOK
  <2>2. PICK k \in 0..9 : k = 10 - balance
    BY <2>1
  <2>3. k * PromptLen \in Nat /\ k * PromptLen <= 9 * PromptLen
    <3>1. k \in {0, 1, 2, 3, 4, 5, 6, 7, 8, 9}
      BY <2>2
    <3> QED
      BY <1>1, <3>1
  <2>4. PICK x \in Nat : x = k * PromptLen
    BY <2>3
  <2>5. x \div 10 \in 0..(PromptLen - 1)
    BY <1>1, <2>3, <2>4
  <2>6. \A end \in WindowEnds : end \in 0..(PromptLen - 1)
    <3>1. WindowEnds = IF x % 10 = 0 /\ x \div 10 > 0 THEN {x \div 10, x \div 10 - 1} ELSE {x \div 10}
      BY <1>4, <2>2, <2>4 DEF WindowEnds
    <3> QED
      BY <1>1, <2>5, <3>1
  <2> QED
    BY <1>2, <2>6 DEF Ends, Positions
<1> QED
  BY <1>2, <1>3, <1>4

\* translate_request starts from nothing.
LEMMA TranslateFlow ==
  ASSUME TypeOK, Tables, NEW r \in Requests, Flow(r), Translate(r)
  PROVE  Flow(r)' /\ \A q \in Requests : q # r => Same(q)
<1>1. PICK p \in Servers : p = Picked /\ (mode = "disagg" => p # Prefiller)
  BY PickedIsServer
<1>2. Nothing(r) /\ reply[r] = <<>>
  BY DEF Translate, Flow
<1>3. /\ at' = [at EXCEPT ![r] = p] /\ attempt' = [attempt EXCEPT ![r] = @ + 1]
      /\ UNCHANGED <<reply, job, got>>
  BY <1>1 DEF Translate, Picked
<1>4. at'[r] = p
  BY <1>3 DEF TypeOK
<1>5. CASE mode = "disagg"
  <2>1. PICK end \in WindowEnds : handler' = Post(handler, p, r, Task("prep", 0, end, 0, 0))
    BY <1>1, <1>5 DEF Translate, Picked
  <2>2. end \in Ends /\ pc' = [pc EXCEPT ![r] = "prep"]
    BY <1>5, WindowEndsAre DEF Translate
  <2>3. /\ handler'[p][r] = Task("prep", 0, end, 0, 0)
        /\ \A t \in Servers, q \in Requests : t # p \/ q # r => handler'[t][q] = handler[t][q]
    BY <2>1, PostUpdate DEF Tables
  <2>4. PrepCalled(r)'
    BY <1>1, <1>2, <1>3, <1>4, <1>5, <2>2, <2>3 DEF PrepCalled, Alone, Nothing, Idle
  <2>5. pc'[r] = "prep" /\ reply'[r] = <<>>
    BY <1>2, <1>3, <2>2 DEF TypeOK
  <2> QED
    BY <1>3, <2>2, <2>3, <2>4, <2>5 DEF Flow, Prepares, Same, TypeOK
<1>6. CASE mode # "disagg"
  <2>1. handler' = Post(handler, p, r, Task("plain", 0, 0, 0, 0)) /\ pc' = [pc EXCEPT ![r] = "gen"]
    BY <1>1, <1>6 DEF Translate, Picked
  <2>2. /\ handler'[p][r] = Task("plain", 0, 0, 0, 0)
        /\ \A t \in Servers, q \in Requests : t # p \/ q # r => handler'[t][q] = handler[t][q]
    BY <2>1, PostUpdate DEF Tables
  <2>3. PlainCalled(r)'
    BY <1>2, <1>3, <1>4, <2>2 DEF PlainCalled, Alone, Nothing, Idle
  <2>4. pc'[r] = "gen" /\ reply'[r] = <<>>
    BY <1>2, <1>3, <2>1 DEF TypeOK
  <2> QED
    BY <1>3, <2>1, <2>2, <2>3, <2>4 DEF Flow, Begins, Same, TypeOK
<1> QED
  BY <1>5, <1>6

\* The decode server is told to generate from position begin on.
LEMMA CallsGenerate ==
  ASSUME TypeOK, Tables, NEW r \in Requests, NEW n, Prepared(r, n), UNCHANGED <<at, job>>,
         handler' = Post(handler, at[r], r, Task("gen", n, 0, 0, 0))
  PROVE  /\ GenCalled(r)'
         /\ \A q \in Requests : q # r => \A s \in Servers : handler'[s][q] = handler[s][q]
<1>1. at[r] \in Servers
  BY DEF TypeOK
<1>2. /\ handler'[at[r]][r] = Task("gen", n, 0, 0, 0)
      /\ \A t \in Servers, q \in Requests : t # at[r] \/ q # r => handler'[t][q] = handler[t][q]
  BY <1>1, PostUpdate DEF Tables
<1>3. Alone(r)'
  BY <1>1, <1>2 DEF Prepared, Alone, Idle
<1>4. handler'[at[r]][r].begin = n
  BY <1>2, Fields
<1>5. GenCalled(r)'
  BY <1>2, <1>3, <1>4 DEF GenCalled, Prepared, JobIs
<1> QED
  BY <1>2, <1>5

\* After the preparation: a transfer of what is missing, or the generation.
LEMMA ReceivePrepFlow ==
  ASSUME TypeOK, Tables, NEW r \in Requests, Flow(r), ReceivePrep(r)
  PROVE  Flow(r)' /\ \A q \in Requests : q # r => Same(q)
<1>0. Prefiller \in Servers
  BY RouterAssumption DEF Servers, Prefiller
<1>1. PICK end \in Ends : \E n \in 0..Resolved(end) :
        /\ Prepared(r, n)
        /\ reply[r] = <<[kind |-> "prepared", matched |-> n, reserved |-> Resolved(end) - n, end |-> end]>>
  BY DEF ReceivePrep, Flow
<1>2. PICK n \in 0..Resolved(end) :
        /\ Prepared(r, n)
        /\ reply[r] = <<[kind |-> "prepared", matched |-> n, reserved |-> Resolved(end) - n, end |-> end]>>
  BY <1>1
<1>3. PICK m \in Positions : m = Resolved(end)
  BY WindowEndsAre
<1>4. /\ Head(reply[r]).matched = n /\ Head(reply[r]).reserved = m - n /\ Resolved(Head(reply[r]).end) = m
      /\ Tail(reply[r]) = <<>>
  BY <1>2, <1>3
<1>5. /\ UNCHANGED <<at, attempt, got, job>> /\ reply' = [reply EXCEPT ![r] = <<>>]
  BY <1>4 DEF ReceivePrep, Tables
<1>6. CASE n < m
  <2>1. /\ pc' = [pc EXCEPT ![r] = "send"]
        /\ handler' = Post(handler, Prefiller, r, Task("send", n, m, DeviceIdStart(at[r]), m - n))
    BY <1>4, <1>6 DEF ReceivePrep, SendBegin
  <2>2. /\ handler'[Prefiller][r] = Task("send", n, m, DeviceIdStart(at[r]), m - n)
        /\ \A t \in Servers, q \in Requests : t # Prefiller \/ q # r => handler'[t][q] = handler[t][q]
    BY <1>0, <2>1, PostUpdate DEF Tables
  <2>3. Window(r, handler[Prefiller][r])'
    BY <1>2, <1>3, <1>5, <1>6, <2>2, Fields DEF Window, Prepared
  <2>4. SendCalled(r)'
    <3>1. at[r] \in Servers /\ at[r] # Prefiller /\ handler'[Prefiller][r].begin = n
      BY <1>2, <2>2, Fields DEF Prepared, TypeOK
    <3> QED
      BY <1>0, <1>2, <1>5, <2>2, <2>3, <3>1 DEF SendCalled, Pair, Prepared, Alone, Idle, JobIs
  <2> QED
    BY <1>5, <2>1, <2>2, <2>4 DEF Flow, Transfers, Same, TypeOK, Tables
<1>7. CASE ~(n < m)
  <2>1. n = m
    BY <1>2, <1>3, <1>7 DEF Positions
  <2>2. /\ pc' = [pc EXCEPT ![r] = "gen"]
        /\ handler' = Post(handler, at[r], r, Task("gen", n, 0, 0, 0))
    BY <1>4, <1>7, <2>1 DEF ReceivePrep
  <2>3. GenCalled(r)' /\ \A q \in Requests : q # r => \A s \in Servers : handler'[s][q] = handler[s][q]
    BY <1>2, <1>5, <2>2, CallsGenerate
  <2> QED
    BY <1>5, <2>2, <2>3 DEF Flow, Begins, Same, TypeOK, Tables
<1> QED
  BY <1>6, <1>7

\* After the transfer: the generation.
LEMMA ReceiveSendFlow ==
  ASSUME TypeOK, Tables, NEW r \in Requests, Flow(r), ReceiveSend(r)
  PROVE  Flow(r)' /\ \A q \in Requests : q # r => Same(q)
<1>1. PICK end \in Positions : Prepared(r, end) /\ reply[r] = <<[kind |-> "sent", end |-> end]>>
  BY DEF ReceiveSend, Flow
<1>2. Head(reply[r]).end = end /\ Tail(reply[r]) = <<>>
  BY <1>1
<1>3. /\ UNCHANGED <<at, attempt, got, job>> /\ reply' = [reply EXCEPT ![r] = <<>>]
      /\ pc' = [pc EXCEPT ![r] = "gen"]
      /\ handler' = Post(handler, at[r], r, Task("gen", end, 0, 0, 0))
  BY <1>2 DEF ReceiveSend, Tables
<1>4. GenCalled(r)' /\ \A q \in Requests : q # r => \A s \in Servers : handler'[s][q] = handler[s][q]
  BY <1>1, <1>3, CallsGenerate
<1> QED
  BY <1>3, <1>4 DEF Flow, Begins, Same, TypeOK, Tables

\* A chunk, the end or a preemption is received.
LEMMA ReceiveGenFlow ==
  ASSUME TypeOK, Tables, NEW r \in Requests, Flow(r),
         ReceiveChunk(r) \/ ReceivePreempt(r) \/ ReceiveEnd(r)
  PROVE  Flow(r)' /\ \A q \in Requests : q # r => Same(q)
<1>0. at[r] \in Servers /\ UNCHANGED <<at, attempt, engine>>
  BY DEF TypeOK, ReceiveChunk, ReceivePreempt, ReceiveEnd
<1>1. \A s \in Servers : \A q \in Requests : handler'[s][q] = handler[s][q] /\ job'[s][q] = job[s][q]
  BY <1>0 DEF engine
<1>2. pc[r] = "gen" /\ reply[r] # <<>>
  BY DEF ReceiveChunk, ReceivePreempt, ReceiveEnd
<1>3. (Runs(r) /\ reply[r] \in Seq(Chunks)) \/ (Nothing(r) /\ reply[r] \in Seq(Messages))
  BY <1>2 DEF Flow
<1>4. (Runs(r)' <=> Runs(r)) /\ (Nothing(r)' <=> Nothing(r))
  BY <1>0, <1>1, SameStage
<1>5. CASE ReceiveChunk(r)
  <2>1. UNCHANGED pc /\ reply' = [reply EXCEPT ![r] = Tail(@)]
        /\ got' = [got EXCEPT ![r] = Append(@, <<attempt[r], Head(reply[r]).no>>)]
    BY <1>5 DEF ReceiveChunk
  <2>2. /\ reply[r] \in Seq(Chunks) => Tail(reply[r]) \in Seq(Chunks)
        /\ reply[r] \in Seq(Messages) => Tail(reply[r]) \in Seq(Messages)
    BY <1>2
  <2>3. pc'[r] = "gen" /\ reply'[r] = Tail(reply[r])
    BY <1>2, <2>1 DEF Tables
  <2>4. Flow(r)'
    BY <1>3, <1>4, <2>2, <2>3 DEF Flow
  <2> QED
    BY <1>0, <1>1, <2>1, <2>4 DEF Same, Tables, TypeOK
<1>6. CASE ReceivePreempt(r) \/ ReceiveEnd(r)
  <2>1. UNCHANGED got /\ reply' = [reply EXCEPT ![r] = <<>>] /\ Head(reply[r]).kind # "chunk"
        /\ \E x \in {"retry", "ended"} : pc' = [pc EXCEPT ![r] = x]
    BY <1>6 DEF ReceivePreempt, ReceiveEnd, DropPreempted
  <2>2. reply[r] \notin Seq(Chunks)
    <3>1. reply[r] \in Seq(Chunks) => Head(reply[r]) \in Chunks
      BY <1>2
    <3>2. \A x \in Chunks : x.kind = "chunk"
      BY DEF Chunks
    <3> QED
      BY <2>1, <3>1, <3>2
  <2>3. Nothing(r)' /\ reply'[r] = <<>> /\ pc'[r] \in {"retry", "ended"}
    BY <1>3, <1>4, <2>1, <2>2 DEF Tables, TypeOK
  <2>4. Flow(r)'
    BY <2>3 DEF Flow
  <2> QED
    BY <1>0, <1>1, <2>1, <2>4 DEF Same, Tables, TypeOK
<1> QED
  BY <1>5, <1>6

\* Every request is in one of the stages.
LEMMA FlowIsStage ==
  ASSUME TypeOK, NEW r \in Requests, Flow(r)
  PROVE  Stage(r)
<1>1. \A end \in Ends : \A n \in 0..Resolved(end) : n \in Positions
  BY WindowEndsAre, RouterAssumption DEF Positions
<1>2. pc[r] \in {"prep", "send", "gen", "new", "retry", "ended", "failed", "cancelled"}
  BY DEF TypeOK, Working
<1> QED
  BY <1>1, <1>2 DEF Flow, Stage

\* The handler that a request waited for is gone before it added the request.
LEMMA HandlerGone ==
  ASSUME TypeOK, Tables, NEW r \in Requests, Flow(r), pc[r] \in Working,
         UNCHANGED <<at, job>>, handler' = Post(handler, Waited(r), r, NoTask)
  PROVE  Stage(r)' /\ \A q \in Requests : q # r => \A s \in Servers : handler'[s][q] = handler[s][q]
<1>0. Prefiller \in Servers /\ at[r] \in Servers
  BY RouterAssumption DEF Servers, Prefiller, TypeOK
<1>1. PICK w \in Servers : w = Waited(r)
  BY <1>0 DEF Waited
<1>2. /\ handler'[w][r] = NoTask
      /\ \A t \in Servers, q \in Requests : t # w \/ q # r => handler'[t][q] = handler[t][q]
  BY <1>1, PostUpdate DEF Tables
<1>3. CASE handler[w][r] = NoTask
  <2>1. \A s \in Servers : handler'[s][r] = handler[s][r]
    BY <1>2, <1>3
  <2>2. Stage(r)'
    BY <1>0, <2>1, FlowIsStage, SameStage
  <2> QED
    BY <1>2, <2>2
<1>4. CASE handler[w][r] # NoTask
  <2>1. PrepCalled(r) /\ w = at[r] => Nothing(r)'
    BY <1>2 DEF PrepCalled, Alone, Idle, Nothing
  <2>2. PlainCalled(r) /\ w = at[r] => Nothing(r)'
    BY <1>2 DEF PlainCalled, Alone, Idle, Nothing
  <2>3. GenCalled(r) /\ w = at[r] => \E n \in Positions : Prepared(r, n)'
    BY <1>2 DEF GenCalled, Alone, Idle, Prepared, JobIs
  <2>4. SendCalled(r) /\ w = Prefiller => \E n \in Positions : Prepared(r, n)'
    <3> SUFFICES ASSUME SendCalled(r), w = Prefiller
                 PROVE  \E n \in Positions : Prepared(r, n)'
      OBVIOUS
    <3>1. PICK n \in Positions : n = handler[Prefiller][r].begin
      BY DEF SendCalled, Window
    <3>2. at[r] # Prefiller /\ handler'[at[r]][r] = NoTask
      BY <1>0, <1>2 DEF SendCalled, Pair
    <3>3. Alone(r)'
      BY <1>2 DEF SendCalled, Pair, Alone, Idle
    <3>4. Prepared(r, n)'
      BY <3>1, <3>2, <3>3 DEF SendCalled, Prepared, JobIs
    <3> QED
      BY <3>4
  <2>5. pc[r] = "prep" => PrepCalled(r) /\ w = at[r]
    BY <1>1, <1>4 DEF Flow, Prepares, Waited, PrepWaits, Prepared
  <2>6. pc[r] = "send" => SendCalled(r) /\ w = Prefiller
    BY <1>0, <1>1, <1>4 DEF Flow, Transfers, Waited, Sends, Prepared, Alone, Idle
  <2>7. pc[r] = "gen" => (GenCalled(r) \/ PlainCalled(r)) /\ w = at[r]
    BY <1>0, <1>1, <1>4 DEF Flow, Begins, Waited, PlainWaits, Runs, Nothing, Idle
  <2>8. Stage(r)'
    BY <2>1, <2>2, <2>3, <2>4, <2>5, <2>6, <2>7 DEF Stage, Working
  <2> QED
    BY <1>2, <2>8
<1> QED
  BY <1>3, <1>4

\* A request is given up.
LEMMA GiveUpFlow ==
  ASSUME TypeOK, Tables, NEW r \in Requests, Flow(r), Fail(r) \/ Cancel(r)
  PROVE  Flow(r)' /\ \A q \in Requests : q # r => Same(q)
<1>0. at[r] \in Servers
  BY DEF TypeOK
<1>1. /\ UNCHANGED <<at, attempt, got, job>> /\ reply' = [reply EXCEPT ![r] = <<>>]
      /\ \E x \in {"failed", "cancelled"} : pc' = [pc EXCEPT ![r] = x]
      /\ UNCHANGED handler \/ (pc[r] \in Working /\ handler' = Post(handler, Waited(r), r, NoTask))
  BY DEF Fail, Cancel
<1>2. CASE UNCHANGED handler
  <2>1. Stage(r)'
    BY <1>0, <1>1, <1>2, FlowIsStage, SameStage
  <2> QED
    BY <1>1, <1>2, <2>1 DEF Flow, Same, TypeOK, Tables
<1>3. CASE pc[r] \in Working /\ handler' = Post(handler, Waited(r), r, NoTask)
  <2>1. Stage(r)' /\ \A q \in Requests : q # r => \A s \in Servers : handler'[s][q] = handler[s][q]
    BY <1>1, <1>3, HandlerGone
  <2> QED
    BY <1>1, <2>1 DEF Flow, Same, TypeOK, Tables
<1> QED
  BY <1>1, <1>2, <1>3

----------------------------------------------------------------------------
(* The servers move a request                                              *)

\* The engine takes up what its handler was asked for.
LEMMA AddRequestFlow ==
  ASSUME TypeOK, Tables, NEW s \in Servers, NEW r \in Requests, Flow(r), AddRequest(s, r)
  PROVE  Flow(r)' /\ \A q \in Requests : q # r => Same(q)
<1> DEFINE task == handler[s][r]
           j == IF task.kind = "gen" THEN [job[s][r] EXCEPT !.st = "running", !.task = task]
                ELSE [NoJob EXCEPT !.st = "waiting", !.task = task]
<1>0. Prefiller \in Servers /\ at[r] \in Servers /\ PromptLen \in Nat
  BY RouterAssumption DEF Servers, Prefiller, TypeOK
<1>1. task.kind # "none" /\ UNCHANGED client
  BY DEF AddRequest
<1>2. /\ job'[s][r] = j
      /\ \A t \in Servers, q \in Requests : t # s \/ q # r => job'[t][q] = job[t][q]
  BY DEF AddRequest, Tables, Grid
<1>3. /\ handler'[s][r] = NoTask
      /\ \A t \in Servers, q \in Requests : t # s \/ q # r => handler'[t][q] = handler[t][q]
  <2>1. handler' = Post(handler, s, r, NoTask)
    BY DEF AddRequest
  <2> QED
    BY <2>1, PostUpdate DEF Tables
<1>4. task.kind # "gen" => j = Job("waiting", task, 0, 0)
  BY Fields DEF Job
<1> HIDE DEF j
<1>5. UNCHANGED <<pc, at, attempt, reply, got>>
  BY <1>1 DEF client
<1>6. PrepCalled(r) => PrepWaits(r)'
  <2> SUFFICES ASSUME PrepCalled(r)
               PROVE  PrepWaits(r)'
    OBVIOUS
  <2>1. s = at[r] /\ task.kind = "prep"
    BY <1>1, InPrepCalled
  <2>2. Alone(r)'
    BY <1>2, <1>3, <1>5, <2>1 DEF PrepCalled, Alone, Idle
  <2> QED
    BY <1>2, <1>3, <1>4, <1>5, <2>1, <2>2 DEF PrepCalled, PrepWaits
<1>7. PlainCalled(r) => PlainWaits(r)'
  <2> SUFFICES ASSUME PlainCalled(r)
               PROVE  PlainWaits(r)'
    OBVIOUS
  <2>1. s = at[r] /\ task.kind = "plain"
    BY <1>1, InPlain
  <2>2. Alone(r)'
    BY <1>2, <1>3, <1>5, <2>1 DEF PlainCalled, Alone, Idle
  <2> QED
    BY <1>2, <1>3, <1>4, <1>5, <2>1, <2>2 DEF PlainCalled, PlainWaits
<1>8. GenCalled(r) => Runs(r)'
  <2> SUFFICES ASSUME GenCalled(r)
               PROVE  Runs(r)'
    OBVIOUS
  <2>1. s = at[r] /\ task.kind = "gen"
    BY <1>1, InGenCalled
  <2>2. Alone(r)'
    BY <1>2, <1>3, <1>5, <2>1 DEF GenCalled, Alone, Idle
  <2>3. task.begin \in Positions /\ job[s][r] = Job("prepared", job[s][r].task, task.begin, 0)
    BY <2>1 DEF GenCalled, JobIs
  <2>4. j = [job[s][r] EXCEPT !.st = "running", !.task = task]
    BY <2>1 DEF j
  <2>5. j = Job("running", task, task.begin, 0)
    <3> DEFINE t == job[s][r].task
    <3> HIDE DEF t, task
    <3>1. j = [Job("prepared", t, task.begin, 0) EXCEPT !.st = "running", !.task = task]
      BY <2>3, <2>4 DEF t
    <3> QED
      BY <3>1 DEF Job
  <2>6. NumResponses(r) \in Nat /\ NumResponses(r) > 0
    BY RouterAssumption DEF NumResponses
  <2>7. job'[at[r]][r] = Job("running", task, task.begin, 0)
    BY <1>2, <2>1, <2>5
  <2>8. job'[at[r]][r].made = 0 /\ job'[at[r]][r].task = task
    BY <2>7, Fields
  <2> HIDE DEF task
  <2> QED
    BY <1>3, <1>5, <2>1, <2>2, <2>3, <2>6, <2>7, <2>8 DEF Runs, NumResponses
<1>9. SendCalled(r) => Sends(r)'
  <2> SUFFICES ASSUME SendCalled(r)
               PROVE  Sends(r)'
    OBVIOUS
  <2>1. s = Prefiller /\ task.kind = "send" /\ at[r] # Prefiller
    BY <1>1, InSendCalled
  <2>2. Pair(r)'
    BY <1>0, <1>2, <1>3, <1>5, <2>1 DEF SendCalled, Pair, Idle
  <2>3. job'[Prefiller][r] = Job("waiting", task, 0, 0)
    BY <1>2, <1>4, <2>1
  <2>4. /\ job'[Prefiller][r].task = task /\ job'[Prefiller][r].made = 0
        /\ job'[Prefiller][r].st = "waiting"
    BY <2>3, Fields
  <2>5. Window(r, task) /\ JobIs(at[r], r, "prepared", task.begin, 0)
    BY <2>1 DEF SendCalled
  <2>6. task.begin \in Nat /\ task.end \in Nat /\ task.begin < task.end
    BY <2>5 DEF Window, Positions
  <2> HIDE DEF task
  <2>7. Window(r, job[Prefiller][r].task)'
    BY <1>5, <2>4, <2>5 DEF Window
  <2>8. job'[at[r]][r] = job[at[r]][r]
    BY <1>0, <1>2, <2>1
  <2>9. task.begin + 0 = task.begin /\ 0 \in 0..(task.end - task.begin - 1)
    BY <2>6
  <2> QED
    BY <1>3, <1>5, <2>1, <2>2, <2>3, <2>4, <2>5, <2>7, <2>8, <2>9 DEF Sends, JobIs
<1>10. ~(PrepWaits(r) \/ Sends(r) \/ PlainWaits(r) \/ Runs(r) \/ Nothing(r)) /\ \A n : ~Prepared(r, n)
  BY <1>1, InPrepWaits, InSends, InPlain, InRuns, InNothing, InPrepared
<1>11. Flow(r)'
  <2>1. pc'[r] = pc[r] /\ reply'[r] = reply[r] /\ <<>> \in Seq(Chunks)
    BY <1>5
  <2>2. pc[r] \in {"new", "retry", "ended"} => FALSE
    BY <1>10 DEF Flow
  <2>3. Stage(r)'
    BY <1>6, <1>7, <1>8, <1>9, <1>10, FlowIsStage DEF Stage, Prepares, Transfers, Begins
  <2>4. pc[r] = "prep" => Prepares(r)' /\ reply[r] = <<>>
    BY <1>6, <1>10 DEF Flow, Prepares
  <2>5. pc[r] = "send" => Transfers(r)' /\ reply[r] = <<>>
    BY <1>9, <1>10 DEF Flow, Transfers
  <2>6. pc[r] = "gen" => (Begins(r)' \/ Runs(r)') /\ reply[r] = <<>>
    BY <1>7, <1>8, <1>10 DEF Flow, Begins
  <2>7. pc[r] \in {"failed", "cancelled"} => reply[r] = <<>>
    BY DEF Flow
  <2> QED
    BY <2>1, <2>2, <2>3, <2>4, <2>5, <2>6, <2>7 DEF Flow
<1> QED
  BY <1>2, <1>3, <1>5, <1>11 DEF Same

\* Writing [a, b) after the positions before a.
LEMMA WritesExtend ==
  ASSUME NEW a \in Nat, NEW b \in Nat, a <= b
  PROVE  Writes(Upto(a), a, b) = Upto(b)
<1>1. \A i \in Positions : i \in Nat
  BY RouterAssumption DEF Positions
<1>2. \A i \in Positions : Upto(a)[i] + (IF a <= i /\ i < b THEN 1 ELSE 0) = IF i < b THEN 1 ELSE 0
  BY <1>1 DEF Upto
<1> QED
  BY <1>2 DEF Writes, Upto

\* The reply reaches the router only if the request still waits for it.
LEMMA ReplyIs ==
  ASSUME Tables, NEW s, NEW r \in Requests, NEW stage, NEW msgs, Reply(s, r, stage, msgs)
  PROVE  /\ \A q \in Requests : q # r => reply'[q] = reply[q]
         /\ pc[r] = stage /\ Waited(r) = s => reply'[r] = reply[r] \o msgs
         /\ ~(pc[r] = stage /\ Waited(r) = s) => reply'[r] = reply[r]
BY DEF Reply, Tables

\* The decode server reserves the sequence and tells the router.
LEMMA PrepareReceiveFlow ==
  ASSUME TypeOK, Tables, NEW s \in Servers, NEW r \in Requests, Flow(r), PrepareReceive(s, r)
  PROVE  Flow(r)' /\ \A q \in Requests : q # r => Same(q)
<1>1. job[s][r].st = "waiting" /\ job[s][r].task.kind = "prep"
  BY DEF PrepareReceive
<1>2. PrepWaits(r) /\ s = at[r]
  BY <1>1, FlowIsStage, InNothing, InPrepCalled, InPrepWaits, InPrepared, InSendCalled, InSends, InGenCalled,
     InPlain, InRuns DEF Stage, Prepares, Transfers, Begins
<1>3. PICK end \in Ends : job[s][r] = Job("waiting", Task("prep", 0, end, 0, 0), 0, 0)
  BY <1>2 DEF PrepWaits
<1>4. PICK e \in Positions : e = Resolved(end)
  BY WindowEndsAre
<1>5. job[s][r].task.end = end /\ job[s][r].written = Upto(0)
  BY <1>3, Fields
<1>6. PICK m \in Matches(e) :
        /\ job' = [job EXCEPT ![s][r] =
                      [job[s][r] EXCEPT !.st = "prepared", !.written = Writes(job[s][r].written, 0, m)]]
        /\ Reply(s, r, "prep", <<[kind |-> "prepared", matched |-> m, reserved |-> e - m, end |-> end]>>)
  BY <1>4, <1>5 DEF PrepareReceive
<1>7. m \in 0..e /\ m \in Positions
  BY <1>4, RouterAssumption DEF Matches, Positions
<1>8. [job[s][r] EXCEPT !.st = "prepared", !.written = Writes(job[s][r].written, 0, m)]
        = Job("prepared", Task("prep", 0, end, 0, 0), m, 0)
  <2>1. Writes(Upto(0), 0, m) = Upto(m)
    BY <1>7, WritesExtend DEF Positions
  <2>2. PICK j, t, g : /\ j = job[s][r] /\ t = Task("prep", 0, end, 0, 0) /\ g = Job("prepared", t, 0, 0)
    OBVIOUS
  <2>3. j = Job("waiting", t, 0, 0)
    BY <1>3, <2>2
  <2>4. [j EXCEPT !.st = "prepared"] = g
    BY <2>2, <2>3 DEF Job
  <2>5. [g EXCEPT !.written = Upto(m)] = Job("prepared", t, m, 0)
    BY <2>2 DEF Job
  <2>6. [j EXCEPT !.st = "prepared", !.written = Upto(m)]
          = [[j EXCEPT !.st = "prepared"] EXCEPT !.written = Upto(m)]
    BY Zenon
  <2> QED
    BY <1>5, <2>1, <2>2, <2>4, <2>5, <2>6
<1>9. /\ job'[s][r] = Job("prepared", Task("prep", 0, end, 0, 0), m, 0)
      /\ \A t \in Servers, q \in Requests : t # s \/ q # r => job'[t][q] = job[t][q]
  BY <1>6, <1>8 DEF Tables, Grid
<1>10. UNCHANGED <<pc, at, attempt, got, handler>>
  BY DEF PrepareReceive
<1>11. Prepared(r, m)'
  <2>1. Alone(r)'
    BY <1>2, <1>9, <1>10 DEF PrepWaits, Alone, Idle
  <2> QED
    BY <1>2, <1>7, <1>9, <1>10, <2>1, Fields DEF PrepWaits, Prepared, JobIs
<1>12. \A q \in Requests : q # r => reply'[q] = reply[q]
  BY <1>6, ReplyIs
<1>13. pc[r] = "prep" => reply'[r] = <<[kind |-> "prepared", matched |-> m, reserved |-> e - m, end |-> end]>>
  <2>1. pc[r] = "prep" => reply[r] = <<>> /\ Waited(r) = s
    BY <1>1, <1>2, InPrepared DEF Flow, Waited
  <2>2. pc[r] = "prep" =>
          reply'[r] = <<>> \o <<[kind |-> "prepared", matched |-> m, reserved |-> e - m, end |-> end]>>
    BY <1>6, <2>1, ReplyIs
  <2> QED
    BY <2>2
<1>14. pc[r] # "prep" => reply'[r] = reply[r]
  BY <1>6, ReplyIs
<1>15. pc[r] \in {"prep", "failed", "cancelled"}
  <2>1. ~Nothing(r) /\ ~Transfers(r) /\ ~Begins(r) /\ ~Runs(r) /\ \A n : ~Prepared(r, n)
    BY <1>1, <1>2, InNothing, InPrepared, InSendCalled, InSends, InGenCalled, InPlain, InRuns
    DEF Transfers, Begins
  <2>2. pc[r] \in {"prep", "send", "gen", "new", "retry", "ended", "failed", "cancelled"}
    BY DEF TypeOK, Working
  <2> QED
    BY <2>1, <2>2 DEF Flow
<1>16. Flow(r)'
  <2>1. CASE pc[r] = "prep"
    BY <1>4, <1>7, <1>10, <1>11, <1>13, <2>1 DEF Flow
  <2>2. CASE pc[r] \in {"failed", "cancelled"}
    BY <1>7, <1>10, <1>11, <1>14, <2>2 DEF Flow, Stage
  <2> QED
    BY <1>15, <2>1, <2>2
<1> QED
  BY <1>9, <1>10, <1>12, <1>16 DEF Same

\* The transfer: what is written to the decode server's sequence continues what is there.
LEMMA RemoteSendFlow ==
  ASSUME TypeOK, Tables, NEW s \in Servers, NEW r \in Requests, Flow(r), RemoteSend(s, r)
  PROVE  Flow(r)' /\ \A q \in Requests : q # r => Same(q)
<1>18. PICK task, made, d : task = job[s][r].task /\ made = job[s][r].made /\ d = at[r]
  OBVIOUS
<1>0. Prefiller \in Servers /\ d \in Servers
  BY <1>18, RouterAssumption DEF Servers, Prefiller, TypeOK
<1>1. job[s][r].st \in {"waiting", "sending"} /\ task.kind = "send" /\ job[s][r].task.kind = "send"
  BY <1>18 DEF RemoteSend
<1>2. Sends(r) /\ s = Prefiller
  BY <1>1, FlowIsStage, InNothing, InPrepCalled, InPrepWaits, InPrepared, InSendCalled, InSends, InGenCalled,
     InPlain, InRuns DEF Stage, Prepares, Transfers, Begins
<1>3. /\ Window(r, task) /\ job[s][r] = Job(job[s][r].st, task, 0, made) /\ d # s
      /\ made \in 0..(task.end - task.begin - 1)
      /\ job[d][r] = Job("prepared", job[d][r].task, task.begin + made, 0)
  BY <1>18, <1>2 DEF Sends, JobIs, Pair
<1>4. PICK b \in Positions, e \in Positions : task = Task("send", b, e, DeviceIdStart(d), e - b) /\ b < e
  BY <1>18, <1>3 DEF Window
<1>5. task.begin = b /\ task.end = e /\ task.rank = DeviceIdStart(d) /\ b \in Nat /\ e \in Nat /\ made \in Nat
  BY <1>3, <1>4, Fields DEF Positions
<1>6. OwnerOf(task.rank) = d
  BY <1>0, <1>18, <1>5, RankIsOwned
<1> DEFINE sent(n) == [job EXCEPT ![d][r] = [job[d][r] EXCEPT
                         !.written = Writes(job[d][r].written, b + made, b + made + n)]]
<1>7. PICK n \in 1..(e - b - made) :
        IF made + n = e - b
        THEN /\ job' = [sent(n) EXCEPT ![s][r] = NoJob]
             /\ Reply(s, r, "send", <<[kind |-> "sent", end |-> e]>>)
        ELSE /\ job' = [sent(n) EXCEPT ![s][r] = [@ EXCEPT !.st = "sending", !.made = made + n]]
             /\ UNCHANGED reply
  BY <1>18, <1>5, <1>6 DEF RemoteSend, AllSent
<1>8. UNCHANGED <<pc, at, attempt, got, handler>>
  BY DEF RemoteSend
<1>9. [job[d][r] EXCEPT !.written = Writes(job[d][r].written, b + made, b + made + n)]
        = Job("prepared", job[d][r].task, b + made + n, 0)
  <2>1. job[d][r].written = Upto(b + made)
    BY <1>3, <1>5, Fields
  <2>2. Writes(Upto(b + made), b + made, b + made + n) = Upto(b + made + n)
    BY <1>5, WritesExtend
  <2>3. PICK t : job[d][r] = Job("prepared", t, b + made, 0) /\ t = job[d][r].task
    BY <1>3, <1>5
  <2>4. [Job("prepared", t, b + made, 0) EXCEPT !.written = Upto(b + made + n)]
          = Job("prepared", t, b + made + n, 0)
    <3>1. PICK k, m : k = b + made /\ m = b + made + n
      OBVIOUS
    <3>2. [Job("prepared", t, k, 0) EXCEPT !.written = Upto(m)] = Job("prepared", t, m, 0)
      BY DEF Job
    <3> QED
      BY <3>1, <3>2
  <2> QED
    BY <2>1, <2>2, <2>3, <2>4
<1>10. /\ Grid(sent(n)) /\ sent(n)[d][r] = Job("prepared", job[d][r].task, b + made + n, 0)
       /\ \A t \in Servers, q \in Requests : t # d \/ q # r => sent(n)[t][q] = job[t][q]
  BY <1>0, <1>9 DEF Tables, Grid
<1> HIDE DEF sent
<1>11. /\ \A t \in Servers, q \in Requests : t # s \/ q # r => job'[t][q] = sent(n)[t][q]
       /\ job'[s][r] = IF made + n = e - b THEN NoJob
                       ELSE [sent(n)[s][r] EXCEPT !.st = "sending", !.made = made + n]
  <2>1. CASE made + n = e - b
    BY <1>7, <1>10, <2>1 DEF Grid
  <2>2. CASE made + n # e - b
    BY <1>7, <1>10, <2>2 DEF Grid
  <2> QED
    BY <2>1, <2>2
<1>12. /\ job'[d][r] = Job("prepared", job[d][r].task, b + made + n, 0)
       /\ \A t \in Servers \ {s, d} : job'[t][r] = job[t][r]
       /\ \A t \in Servers, q \in Requests : q # r => job'[t][q] = job[t][q]
  BY <1>0, <1>3, <1>10, <1>11
<1>13. \A t \in Servers \ {s, d} : Idle(t, r)'
  BY <1>18, <1>2, <1>8, <1>12 DEF Sends, Pair, Idle
<1>14. \A q \in Requests : q # r => reply'[q] = reply[q]
  BY <1>7, ReplyIs
<1>15. pc[r] \in {"send", "failed", "cancelled"} /\ reply[r] = <<>>
  <2>1. ~Nothing(r) /\ ~Prepares(r) /\ ~Begins(r) /\ ~Runs(r) /\ \A k : ~Prepared(r, k)
    BY <1>1, InNothing, InPrepCalled, InPrepWaits, InPrepared, InGenCalled, InPlain, InRuns
    DEF Prepares, Begins
  <2>2. pc[r] \in {"prep", "send", "gen", "new", "retry", "ended", "failed", "cancelled"}
    BY DEF TypeOK, Working
  <2> QED
    BY <2>1, <2>2 DEF Flow
<1>16. CASE made + n = e - b
  <2>1. Prepared(r, e)'
    <3>1. Alone(r)'
      BY <1>18, <1>2, <1>8, <1>11, <1>13, <1>16 DEF Alone, Idle, Sends
    <3>2. b + made + n = e
      BY <1>5, <1>16
    <3> QED
      BY <1>18, <1>2, <1>3, <1>8, <1>12, <3>1, <3>2, Fields DEF Prepared, JobIs, Sends, Pair
  <2>2. pc[r] = "send" => reply'[r] = <<[kind |-> "sent", end |-> e]>>
    <3>1. Reply(s, r, "send", <<[kind |-> "sent", end |-> e]>>)
      BY <1>7, <1>16
    <3>2. pc[r] = "send" => reply'[r] = <<>> \o <<[kind |-> "sent", end |-> e]>>
      BY <1>2, <1>15, <3>1, ReplyIs DEF Waited
    <3> QED
      BY <3>2
  <2>3. pc[r] # "send" => reply'[r] = <<>>
    BY <1>7, <1>15, <1>16, ReplyIs
  <2>4. Flow(r)'
    BY <1>8, <1>15, <2>1, <2>2, <2>3 DEF Flow, Stage
  <2> QED
    BY <1>8, <1>12, <1>14, <2>4 DEF Same
<1>17. CASE made + n # e - b
  <2>1. job'[s][r] = Job("sending", task, 0, made + n)
    <3>1. PICK st, t, k : job[s][r] = Job(st, t, 0, k) /\ t = task
      BY <1>3
    <3>2. job'[s][r] = [Job(st, t, 0, k) EXCEPT !.st = "sending", !.made = made + n]
      BY <1>3, <1>10, <1>11, <1>17, <3>1
    <3>3. PICK j, g, m : j = Job(st, t, 0, k) /\ g = Job("sending", t, 0, k) /\ m = made + n
      OBVIOUS
    <3>4. [j EXCEPT !.st = "sending"] = g
      BY <3>3 DEF Job
    <3>5. [g EXCEPT !.made = m] = Job("sending", t, 0, m)
      BY <3>3 DEF Job
    <3>6. [j EXCEPT !.st = "sending", !.made = m] = [[j EXCEPT !.st = "sending"] EXCEPT !.made = m]
      BY Zenon
    <3> QED
      BY <3>1, <3>2, <3>3, <3>4, <3>5, <3>6
  <2>2. job'[s][r].task = task /\ job'[s][r].made = made + n /\ job'[s][r].st = "sending"
    BY <2>1, Fields
  <2>3. made + n \in 0..(e - b - 1) /\ b + (made + n) = b + made + n
    BY <1>5, <1>17
  <2>4. Pair(r)'
    BY <1>18, <1>2, <1>3, <1>8, <1>13 DEF Sends, Pair
  <2>5. handler'[s][r] = NoTask /\ at'[r] = d
    BY <1>18, <1>2, <1>8 DEF Sends
  <2>6. Sends(r)'
    <3>1. JobIs(d, r, "prepared", b + (made + n), 0)'
      BY <1>12, <2>3, Fields DEF JobIs
    <3>2. Window(r, job[Prefiller][r].task)'
      BY <1>2, <1>3, <1>8, <2>2 DEF Window
    <3>3. (task.begin = b /\ task.end = e) /\ job'[Prefiller][r].task = task
      BY <1>2, <1>5, <2>2
    <3> QED
      BY <1>2, <1>8, <2>1, <2>2, <2>3, <2>4, <2>5, <3>1, <3>2, <3>3 DEF Sends, JobIs
  <2>7. Flow(r)'
    BY <1>7, <1>8, <1>15, <1>17, <2>6 DEF Flow, Stage, Transfers
  <2> QED
    BY <1>8, <1>12, <1>14, <2>7 DEF Same
<1> QED
  BY <1>16, <1>17

\* A plain completion starts to run.
LEMMA StartPlainFlow ==
  ASSUME TypeOK, Tables, NEW s \in Servers, NEW r \in Requests, Flow(r), StartPlain(s, r)
  PROVE  Flow(r)' /\ \A q \in Requests : q # r => Same(q)
<1>1. job[s][r].st = "waiting" /\ job[s][r].task.kind = "plain"
  BY DEF StartPlain
<1>2. PlainWaits(r) /\ s = at[r]
  BY <1>1, FlowIsStage, InNothing, InPrepCalled, InPrepWaits, InPrepared, InSendCalled, InSends, InGenCalled,
     InPlain, InRuns DEF Stage, Prepares, Transfers, Begins
<1>3. UNCHANGED <<pc, at, attempt, got, reply, handler>>
  BY DEF StartPlain, client
<1>4. PICK t : t = Task("plain", 0, 0, 0, 0) /\ job[s][r] = Job("waiting", t, 0, 0) /\ t.begin = 0
  BY <1>2, Fields DEF PlainWaits
<1>5. [job[s][r] EXCEPT !.st = "running"] = Job("running", t, 0, 0)
  BY <1>4 DEF Job
<1>6. job' = [job EXCEPT ![s][r] = Job("running", t, 0, 0)]
  BY <1>5 DEF StartPlain
<1>7. /\ job'[s][r] = Job("running", t, 0, 0)
      /\ \A u \in Servers, q \in Requests : u # s \/ q # r => job'[u][q] = job[u][q]
  <2>1. PICK v : v = Job("running", t, 0, 0)
    OBVIOUS
  <2>2. job' = [job EXCEPT ![s][r] = v]
    BY <1>6, <2>1
  <2> QED
    BY <2>1, <2>2 DEF Tables, Grid
<1>8. job'[s][r].made = 0 /\ job'[s][r].task = t
  BY <1>7, Fields
<1>9. 0 \in 0..(NumResponses(r) - 1) /\ 0 \in Positions
  BY RouterAssumption DEF NumResponses, Positions
<1>10. Runs(r)'
  <2>1. Alone(r)'
    BY <1>2, <1>3, <1>7 DEF PlainWaits, Alone, Idle
  <2> QED
    BY <1>2, <1>3, <1>4, <1>7, <1>8, <1>9, <2>1 DEF PlainWaits, Runs, NumResponses
<1>11. pc[r] \in {"gen", "failed", "cancelled"} /\ reply[r] = <<>>
  <2>1. ~Nothing(r) /\ ~Transfers(r) /\ ~Prepares(r) /\ ~Runs(r) /\ \A n : ~Prepared(r, n)
    BY <1>1, <1>2, InNothing, InPrepCalled, InPrepWaits, InPrepared, InSendCalled, InSends, InRuns
    DEF Transfers, Prepares
  <2>2. pc[r] \in {"prep", "send", "gen", "new", "retry", "ended", "failed", "cancelled"}
    BY DEF TypeOK, Working
  <2> QED
    BY <2>1, <2>2 DEF Flow
<1>12. Flow(r)'
  <2>1. <<>> \in Seq(Chunks)
    OBVIOUS
  <2> QED
    BY <1>3, <1>10, <1>11, <2>1 DEF Flow, Stage
<1> QED
  BY <1>3, <1>7, <1>12 DEF Same

\* A running request is generated for, or was given up.
LEMMA RunsFor ==
  ASSUME TypeOK, NEW s \in Servers, NEW r \in Requests, Flow(r), job[s][r].st = "running"
  PROVE  /\ Runs(r) /\ s = at[r] /\ pc[r] \in {"gen", "failed", "cancelled"}
         /\ reply[r] \in Seq(Chunks) /\ (pc[r] # "gen" => reply[r] = <<>>)
         /\ Waited(r) = s
<1>1. Runs(r) /\ s = at[r]
  BY FlowIsStage, InNothing, InPrepCalled, InPrepWaits, InPrepared, InSendCalled, InSends, InGenCalled,
     InPlain, InRuns DEF Stage, Prepares, Transfers, Begins
<1>2. ~Nothing(r) /\ ~Transfers(r) /\ ~Prepares(r) /\ ~Begins(r) /\ \A n : ~Prepared(r, n)
  BY <1>1, InNothing, InPrepCalled, InPrepWaits, InPrepared, InSendCalled, InSends, InGenCalled,
     InPlain, InRuns DEF Prepares, Transfers, Begins
<1>3. pc[r] \in {"prep", "send", "gen", "new", "retry", "ended", "failed", "cancelled"}
  BY DEF TypeOK, Working
<1>4. pc[r] \in {"gen", "failed", "cancelled"} /\ reply[r] \in Seq(Chunks) /\ (pc[r] # "gen" => reply[r] = <<>>)
  <2>1. <<>> \in Seq(Chunks)
    OBVIOUS
  <2> QED
    BY <1>2, <1>3, <2>1 DEF Flow
<1> QED
  BY <1>1, <1>4 DEF Waited

\* The request leaves the server, with a last message.
LEMMA RunEnds ==
  ASSUME TypeOK, Tables, NEW s \in Servers, NEW r \in Requests, Flow(r), job[s][r].st = "running",
         job' = [job EXCEPT ![s][r] = NoJob], UNCHANGED <<pc, at, attempt, got, handler>>,
         \A q \in Requests : q # r => reply'[q] = reply[q],
         pc[r] = "gen" => reply'[r] \in Seq(Messages), pc[r] # "gen" => reply'[r] = reply[r]
  PROVE  Flow(r)' /\ \A q \in Requests : q # r => Same(q)
<1>1. /\ Runs(r) /\ s = at[r] /\ pc[r] \in {"gen", "failed", "cancelled"}
      /\ reply[r] \in Seq(Chunks) /\ (pc[r] # "gen" => reply[r] = <<>>)
  BY RunsFor
<1>2. /\ job'[s][r] = NoJob
      /\ \A u \in Servers, q \in Requests : u # s \/ q # r => job'[u][q] = job[u][q]
  BY DEF Tables, Grid
<1>3. Nothing(r)'
  BY <1>1, <1>2 DEF Runs, Alone, Idle, Nothing
<1>4. Flow(r)'
  BY <1>1, <1>3 DEF Flow, Stage
<1> QED
  BY <1>2, <1>4 DEF Same

\* A step of the generation.
LEMMA GenerateFlow ==
  ASSUME TypeOK, Tables, NEW s \in Servers, NEW r \in Requests, Flow(r), Generate(s, r)
  PROVE  Flow(r)' /\ \A q \in Requests : q # r => Same(q)
<1>1. job[s][r].st = "running"
  BY DEF Generate
<1>2. /\ Runs(r) /\ s = at[r] /\ pc[r] \in {"gen", "failed", "cancelled"}
      /\ reply[r] \in Seq(Chunks) /\ (pc[r] # "gen" => reply[r] = <<>>) /\ Waited(r) = s
  BY <1>1, RunsFor
<1>3. UNCHANGED <<pc, at, attempt, got, handler>>
  BY DEF Generate
<1>4. PICK j, t, made, n : /\ j = job[s][r] /\ t = j.task /\ made = j.made
                           /\ n = IF made = 0 THEN t.begin ELSE PromptLen
  OBVIOUS
<1>5. /\ j = Job("running", t, n, made) /\ made \in 0..(NumResponses(r) - 1) /\ t.begin \in Positions
      /\ j.written = Upto(n)
  BY <1>2, <1>4, Fields DEF Runs
<1>6. NumResponses(r) \in Nat /\ PromptLen \in Nat /\ made \in Nat /\ t.begin \in 0..PromptLen
  BY <1>5, RouterAssumption DEF NumResponses, Positions
<1>7. PICK more : more = <<[kind |-> "chunk", no |-> made + 1]>>
  OBVIOUS
<1>8. more \in Seq(Chunks) /\ Append(more, [kind |-> "end"]) \in Seq(Messages)
  <2>1. PICK c : c = [kind |-> "chunk", no |-> made + 1]
    OBVIOUS
  <2>2. c \in Chunks
    BY <1>6, <2>1 DEF Chunks
  <2>3. c \in Messages /\ [kind |-> "end"] \in Messages
    BY <2>2 DEF Messages
  <2>4. more \in Seq(Chunks) /\ more \in Seq(Messages)
    BY <1>7, <2>1, <2>2, <2>3
  <2> QED
    BY <2>3, <2>4
<1>9. CASE made + 1 = NumResponses(r)
  <2>1. job' = [job EXCEPT ![s][r] = NoJob] /\ Reply(s, r, "gen", Append(more, [kind |-> "end"]))
    BY <1>4, <1>7, <1>9 DEF Generate
  <2>2. reply[r] \in Seq(Messages)
    BY <1>2 DEF Messages
  <2>3. PICK end : end = Append(more, [kind |-> "end"]) /\ end \in Seq(Messages)
    BY <1>8
  <2>4. pc[r] = "gen" => reply'[r] = reply[r] \o end
    BY <1>2, <2>1, <2>3, ReplyIs
  <2>5. reply[r] \o end \in Seq(Messages)
    BY <2>2, <2>3
  <2>6. /\ pc[r] # "gen" => reply'[r] = reply[r]
        /\ \A q \in Requests : q # r => reply'[q] = reply[q]
    BY <2>1, ReplyIs
  <2> QED
    BY <1>1, <1>3, <2>1, <2>4, <2>5, <2>6, RunEnds
<1>10. CASE made + 1 # NumResponses(r)
  <2>1. PICK w : w = IF made = 0 THEN Writes(j.written, t.begin, PromptLen) ELSE j.written
    OBVIOUS
  <2>2. w = Upto(PromptLen)
    <3>1. CASE made = 0
      <4>1. PICK b \in Nat : b = t.begin /\ b <= PromptLen
        BY <1>6
      <4>2. Writes(Upto(b), b, PromptLen) = Upto(PromptLen)
        BY <1>6, <4>1, WritesExtend
      <4> QED
        BY <1>4, <1>5, <2>1, <3>1, <4>1, <4>2
    <3>2. CASE made # 0
      BY <1>4, <1>5, <2>1, <3>2
    <3> QED
      BY <3>1, <3>2
  <2>3. job' = [job EXCEPT ![s][r] = [j EXCEPT !.made = made + 1, !.written = w]]
    BY <1>4, <1>10, <2>1 DEF Generate, PrefillFrom
  <2>4. [j EXCEPT !.made = made + 1, !.written = w] = Job("running", t, PromptLen, made + 1)
    <3>1. PICK k, g : k = made + 1 /\ g = Job("running", t, n, k)
      OBVIOUS
    <3>2. [j EXCEPT !.made = k] = g
      BY <1>5, <3>1 DEF Job
    <3>3. [g EXCEPT !.written = w] = Job("running", t, PromptLen, k)
      BY <2>2, <3>1 DEF Job
    <3>4. [j EXCEPT !.made = k, !.written = w] = [[j EXCEPT !.made = k] EXCEPT !.written = w]
      BY Zenon
    <3> QED
      BY <3>1, <3>2, <3>3, <3>4
  <2>5. /\ job'[s][r] = Job("running", t, PromptLen, made + 1)
        /\ \A u \in Servers, q \in Requests : u # s \/ q # r => job'[u][q] = job[u][q]
    <3>1. PICK v : v = Job("running", t, PromptLen, made + 1)
      OBVIOUS
    <3>2. job' = [job EXCEPT ![s][r] = v]
      BY <2>3, <2>4, <3>1
    <3> QED
      BY <3>1, <3>2 DEF Tables, Grid
  <2>6. job'[s][r].made = made + 1 /\ job'[s][r].task = t
    BY <2>5, Fields
  <2>7. made + 1 \in 0..(NumResponses(r) - 1) /\ made + 1 # 0
    BY <1>5, <1>6, <1>10
  <2>8. Runs(r)'
    <3>1. Alone(r)'
      BY <1>2, <1>3, <2>5 DEF Runs, Alone, Idle
    <3>2. handler'[s][r] = NoTask /\ at'[r] = s
      BY <1>2, <1>3 DEF Runs
    <3> QED
      BY <1>5, <2>5, <2>6, <2>7, <3>1, <3>2 DEF Runs, NumResponses
  <2>9. Reply(s, r, "gen", more)
    BY <1>4, <1>7, <1>10 DEF Generate
  <2>10. pc[r] = "gen" => reply'[r] \in Seq(Chunks)
    <3>1. pc[r] = "gen" => reply'[r] = reply[r] \o more
      BY <1>2, <2>9, ReplyIs
    <3>2. reply[r] \o more \in Seq(Chunks)
      BY <1>2, <1>8
    <3> QED
      BY <3>1, <3>2
  <2>11. /\ pc[r] # "gen" => reply'[r] = <<>>
         /\ \A q \in Requests : q # r => reply'[q] = reply[q]
    BY <1>2, <2>9, ReplyIs
  <2>12. Flow(r)'
    BY <1>2, <1>3, <2>8, <2>10, <2>11 DEF Flow, Stage
  <2> QED
    BY <1>3, <2>5, <2>11, <2>12 DEF Same
<1> QED
  BY <1>9, <1>10

\* A preempted request, or one nobody listens to, leaves nothing behind.
LEMMA AbortFlow ==
  ASSUME TypeOK, Tables, NEW s \in Servers, NEW r \in Requests, Flow(r),
         Preempt(s, r) \/ AbortDisconnected(s, r)
  PROVE  Flow(r)' /\ \A q \in Requests : q # r => Same(q)
<1>1. /\ job[s][r].st = "running" /\ job' = [job EXCEPT ![s][r] = NoJob]
      /\ UNCHANGED <<pc, at, attempt, got, handler>>
  BY DEF Preempt, AbortDisconnected, Aborted, client
<1>2. reply[r] \in Seq(Chunks) /\ Waited(r) = s
  BY <1>1, RunsFor
<1>3. CASE Preempt(s, r)
  <2>1. PICK m : m = <<[kind |-> "preempt"]>> /\ Reply(s, r, "gen", m)
    BY <1>3 DEF Preempt
  <2>2. m \in Seq(Messages)
    <3>1. [kind |-> "preempt"] \in Messages
      BY DEF Messages
    <3> QED
      BY <2>1, <3>1
  <2>3. reply[r] \o m \in Seq(Messages)
    <3>1. reply[r] \in Seq(Messages)
      BY <1>2 DEF Messages
    <3> QED
      BY <2>2, <3>1
  <2>4. /\ pc[r] = "gen" => reply'[r] = reply[r] \o m
        /\ pc[r] # "gen" => reply'[r] = reply[r]
        /\ \A q \in Requests : q # r => reply'[q] = reply[q]
    BY <1>2, <2>1, ReplyIs
  <2> QED
    BY <1>1, <2>3, <2>4, RunEnds
<1>4. CASE AbortDisconnected(s, r)
  <2>1. pc[r] # "gen" /\ UNCHANGED reply
    BY <1>4 DEF AbortDisconnected, client
  <2> QED
    BY <1>1, <2>1, RunEnds
<1> QED
  BY <1>3, <1>4

----------------------------------------------------------------------------
(* Steps                                                                   *)

\* Every step keeps the types; no counter drops below zero because it counts a set.
LEMMA TypesNext ==
  ASSUME TypeOK, LoadInv', [Next]_vars
  PROVE  TypeOK'
<1>1. \A s \in Servers : running'[s] \in Nat
  BY FS_CardinalityType DEF LoadInv
<1>2. CASE (\E s \in Servers : StartServer(s) \/ Boot(s) \/ Poll(s)) \/ Join \/ Terminate \/ UNCHANGED vars
  <2>1. UNCHANGED <<config, running, client, bounds>>
    BY <1>2 DEF StartServer, Boot, Poll, Join, Terminate, vars
  <2>2. /\ servers' \subseteq Servers
        /\ proc' \in [Servers -> {"none", "booting", "up", "dead"}]
        /\ thread' \in [Servers -> {"new", "polling", "returned", "raised", "joined"}]
        /\ polls' \in [Servers -> 0..MaxPolls]
        /\ phase' \in {"launching", "serving", "terminated"}
    <3>1. \A s \in Servers : polls[s] \in 0..MaxPolls /\ (polls[s] < MaxPolls => polls[s] + 1 \in 0..MaxPolls)
      BY RouterAssumption DEF TypeOK
    <3>2. 0 \in 0..MaxPolls
      BY RouterAssumption
    <3>3. ASSUME NEW s \in Servers, StartServer(s)
          PROVE  UNCHANGED <<polls, phase>> /\ servers' \subseteq Servers
                 /\ proc' \in [Servers -> {"none", "booting", "up", "dead"}]
                 /\ thread' \in [Servers -> {"new", "polling", "returned", "raised", "joined"}]
      BY <3>3 DEF StartServer, TypeOK
    <3>4. ASSUME NEW s \in Servers, Boot(s)
          PROVE  UNCHANGED <<servers, thread, polls, phase>>
                 /\ proc' \in [Servers -> {"none", "booting", "up", "dead"}]
      BY <3>4 DEF Boot, TypeOK
    <3>5. ASSUME NEW s \in Servers, Poll(s)
          PROVE  UNCHANGED <<servers, proc, phase>> /\ polls' \in [Servers -> 0..MaxPolls]
                 /\ thread' \in [Servers -> {"new", "polling", "returned", "raised", "joined"}]
      BY <3>1, <3>5 DEF Poll, TypeOK
    <3>6. CASE Join
      BY <3>2, <3>6 DEF Join, TypeOK
    <3>7. CASE Terminate
      BY <3>7 DEF Terminate, TypeOK
    <3>8. CASE UNCHANGED launch
      BY <3>8 DEF launch, TypeOK
    <3> QED
      BY <1>2, <3>3, <3>4, <3>5, <3>6, <3>7, <3>8 DEF TypeOK, vars
  <2> QED
    BY <2>1, <2>2 DEF TypeOK, config, client, bounds
<1>3. ASSUME NEW r \in Requests, RouterStep(r) \/ Fail(r) \/ Cancel(r)
      PROVE  TypeOK'
  <2>1. UNCHANGED <<config, launch, preempts>>
    BY <1>3 DEF RouterStep, Translate, ReceivePrep, ReceiveSend, ReceiveChunk, ReceivePreempt, ReceiveEnd,
       Fail, Cancel, bounds
  <2>2. /\ pc' \in [Requests -> Working \cup {"new", "retry", "ended", "failed", "cancelled"}]
        /\ attempt' \in [Requests -> Nat]
    <3>1. \E x \in Working \cup {"new", "retry", "ended", "failed", "cancelled"} : pc' = [pc EXCEPT ![r] = x]
      <4>1. CASE ReceiveChunk(r)
        <5>1. pc' = [pc EXCEPT ![r] = pc[r]]
          BY <4>1 DEF ReceiveChunk, TypeOK
        <5> QED
          BY <5>1 DEF TypeOK
      <4>2. CASE ~ReceiveChunk(r)
        BY <1>3, <4>2 DEF RouterStep, Translate, ReceivePrep, ReceiveSend, ReceivePreempt, ReceiveEnd,
           Fail, Cancel, Working
      <4> QED
        BY <4>1, <4>2
    <3>2. attempt' = attempt \/ attempt' = [attempt EXCEPT ![r] = @ + 1]
      BY <1>3 DEF RouterStep, Translate, ReceivePrep, ReceiveSend, ReceiveChunk, ReceivePreempt, ReceiveEnd,
         Fail, Cancel
    <3> QED
      BY <3>1, <3>2 DEF TypeOK
  <2>3. at' \in [Requests -> Servers]
    <3>1. CASE Translate(r)
      <4>1. at' = [at EXCEPT ![r] = Picked] /\ Picked \in Servers
        BY <3>1, PickedIsServer DEF Translate, Picked
      <4> QED
        BY <4>1 DEF TypeOK
    <3>2. CASE ~Translate(r)
      BY <1>3, <3>2 DEF RouterStep, ReceivePrep, ReceiveSend, ReceiveChunk, ReceivePreempt, ReceiveEnd,
         Fail, Cancel, TypeOK
    <3> QED
      BY <3>1, <3>2
  <2>4. abandoned' \subseteq Requests \X Nat \X Servers
    <3>1. abandoned' = abandoned \/ abandoned' = abandoned \cup {<<r, attempt[r], at[r]>>}
      BY <1>3 DEF RouterStep, Translate, ReceivePrep, ReceiveSend, ReceiveChunk, ReceivePreempt, ReceiveEnd,
         Fail, Cancel
    <3> QED
      BY <3>1 DEF TypeOK
  <2>5. faults' \in 0..MaxFaults
    <3>1. faults' = faults \/ (faults < MaxFaults /\ faults' = faults + 1)
      BY <1>3 DEF RouterStep, Translate, ReceivePrep, ReceiveSend, ReceiveChunk, ReceivePreempt, ReceiveEnd,
         Fail, Cancel, bounds
    <3> QED
      BY <3>1, RouterAssumption DEF TypeOK
  <2>6. running' \in [Servers -> Nat]
    <3>1. \/ running' = running \/ \E p \in Servers : running' = [running EXCEPT ![p] = @ - 1]
          \/ \E p \in Servers : running' = [running EXCEPT ![p] = @ + 1]
      <4>1. at[r] \in Servers
        BY DEF TypeOK
      <4>2. CASE Translate(r)
        BY <4>2, PickedIsServer DEF Translate, Picked
      <4>3. CASE ~Translate(r)
        BY <1>3, <4>1, <4>3 DEF RouterStep, ReceivePrep, ReceiveSend, ReceiveChunk, ReceivePreempt,
           ReceiveEnd, Fail, Cancel, Uncount
      <4> QED
        BY <4>2, <4>3
    <3> QED
      BY <1>1, <3>1 DEF TypeOK
  <2> QED
    BY <2>1, <2>2, <2>3, <2>4, <2>5, <2>6 DEF TypeOK, config, launch
<1>4. ASSUME NEW s \in Servers, NEW r \in Requests, EngineStep(s, r) \/ Preempt(s, r)
      PROVE  TypeOK'
  <2>1. UNCHANGED <<config, launch, running, pc, at, attempt, got, abandoned, faults>>
    BY <1>4, EngineFrame
  <2>2. preempts' = preempts \/ (preempts < MaxPreempts /\ preempts' = preempts + 1)
    <3>1. AddRequest(s, r) => preempts' = preempts
      BY DEF AddRequest, bounds
    <3>2. PrepareReceive(s, r) => preempts' = preempts
      BY DEF PrepareReceive, bounds
    <3>3. RemoteSend(s, r) => preempts' = preempts
      BY DEF RemoteSend, bounds
    <3>4. StartPlain(s, r) \/ Generate(s, r) \/ AbortDisconnected(s, r) => preempts' = preempts
      BY DEF StartPlain, Generate, AbortDisconnected, bounds
    <3>5. Preempt(s, r) => preempts < MaxPreempts /\ preempts' = preempts + 1
      BY DEF Preempt
    <3> QED
      BY <1>4, <3>1, <3>2, <3>3, <3>4, <3>5 DEF EngineStep
  <2>3. preempts' \in 0..MaxPreempts
    BY <2>2, RouterAssumption DEF TypeOK
  <2> QED
    BY <2>1, <2>3 DEF TypeOK, config, launch
<1> QED
  BY <1>2, <1>3, <1>4 DEF Next

\* The counters: types and what is counted are preserved together.
LEMMA CountsNext ==
  ASSUME TypeOK, LoadInv, [Next]_vars
  PROVE  TypeOK' /\ LoadInv'
BY LoadNext, TypesNext

\* Nothing is counted at first.
LEMMA CountsInit ==
  ASSUME Init
  PROVE  TypeOK /\ LoadInv
<1>1. TypeOK
  <2>1. Prefiller \in Servers
    BY RouterAssumption DEF Servers, Prefiller
  <2>2. 0 \in 0..MaxPolls /\ 0 \in 0..MaxPreempts /\ 0 \in 0..MaxFaults
    BY RouterAssumption
  <2> QED
    BY <2>1, <2>2 DEF Init, TypeOK
<1>2. \A s \in Servers : Counted(s) = {}
  BY DEF Init, Counted, Underway, Working
<1>3. \A s \in Servers : IsFiniteSet(Counted(s)) /\ running[s] = Cardinality(Counted(s))
  BY <1>2, FS_EmptySet DEF Init
<1> QED
  BY <1>1, <1>3 DEF Init, LoadInv

\* num_running_requests counts, at any time, the attempts under way at a server and
\* those that were abandoned by an exception that no handler catches.
THEOREM LoadIsCounted == Spec => []LoadCounted
<1>1. Init => TypeOK /\ LoadInv
  BY CountsInit
<1>2. TypeOK /\ LoadInv /\ [Next]_vars => TypeOK' /\ LoadInv'
  BY CountsNext
<1>3. TypeOK /\ LoadInv => LoadCounted
  BY DEF LoadInv, LoadCounted, Counted
<1> QED
  BY <1>1, <1>2, <1>3, PTL DEF Spec

\* Every step keeps the domains of the tables.
LEMMA TablesNext ==
  ASSUME Tables, [Next]_vars
  PROVE  Tables'
<1>1. CASE (\E s \in Servers : StartServer(s) \/ Boot(s) \/ Poll(s)) \/ Join \/ Terminate \/ UNCHANGED vars
  BY <1>1 DEF StartServer, Boot, Poll, Join, Terminate, vars, client, engine, Tables
<1>2. ASSUME NEW r \in Requests, RouterStep(r) \/ Fail(r) \/ Cancel(r)
      PROVE  Tables'
  <2>1. UNCHANGED job
    BY <1>2 DEF RouterStep, Translate, ReceivePrep, ReceiveSend, ReceiveChunk, ReceivePreempt, ReceiveEnd,
       Fail, Cancel, engine
  <2>2. reply' = reply \/ \E x : reply' = [reply EXCEPT ![r] = x]
    BY <1>2 DEF RouterStep, Translate, ReceivePrep, ReceiveSend, ReceiveChunk, ReceivePreempt, ReceiveEnd,
       Fail, Cancel
  <2>3. got' = got \/ \E x : got' = [got EXCEPT ![r] = x]
    BY <1>2 DEF RouterStep, Translate, ReceivePrep, ReceiveSend, ReceiveChunk, ReceivePreempt, ReceiveEnd,
       Fail, Cancel, DropPreempted
  <2>4. handler' = handler \/ \E s, x : handler' = Post(handler, s, r, x)
    <3>1. Translate(r) => \E s, x : handler' = Post(handler, s, r, x)
      BY DEF Translate
    <3>2. ReceivePrep(r) => \E s, x : handler' = Post(handler, s, r, x)
      BY DEF ReceivePrep
    <3>3. ReceiveSend(r) => \E s, x : handler' = Post(handler, s, r, x)
      BY DEF ReceiveSend
    <3>4. ReceiveChunk(r) \/ ReceivePreempt(r) \/ ReceiveEnd(r) => handler' = handler
      BY DEF ReceiveChunk, ReceivePreempt, ReceiveEnd, engine
    <3>5. Fail(r) => handler' = handler \/ \E s, x : handler' = Post(handler, s, r, x)
      BY DEF Fail
    <3>6. Cancel(r) => handler' = handler \/ \E s, x : handler' = Post(handler, s, r, x)
      BY DEF Cancel
    <3> QED
      BY <1>2, <3>1, <3>2, <3>3, <3>4, <3>5, <3>6 DEF RouterStep
  <2>5. Grid(handler)'
    BY <2>4 DEF Grid, Post, Tables
  <2> QED
    BY <2>1, <2>2, <2>3, <2>5 DEF Tables, Grid
<1>3. ASSUME NEW s \in Servers, NEW r \in Requests, EngineStep(s, r) \/ Preempt(s, r)
      PROVE  Tables'
  <2>1. UNCHANGED got
    BY <1>3, EngineFrame
  <2>2. handler' = handler \/ \E x : handler' = Post(handler, s, r, x)
    <3>1. AddRequest(s, r) => \E x : handler' = Post(handler, s, r, x)
      BY DEF AddRequest
    <3>2. PrepareReceive(s, r) => handler' = handler
      BY DEF PrepareReceive
    <3>3. RemoteSend(s, r) => handler' = handler
      BY DEF RemoteSend
    <3>4. StartPlain(s, r) \/ Generate(s, r) \/ AbortDisconnected(s, r) \/ Preempt(s, r) => handler' = handler
      BY DEF StartPlain, Generate, AbortDisconnected, Preempt
    <3> QED
      BY <1>3, <3>1, <3>2, <3>3, <3>4 DEF EngineStep
  <2>3. Grid(handler)'
    BY <2>2 DEF Grid, Post, Tables
  <2>4. \A t, m : Reply(s, r, t, m) => DOMAIN reply' = Requests
    BY DEF Reply, Tables
  <2>5. DOMAIN reply' = Requests
    <3>1. AddRequest(s, r) \/ StartPlain(s, r) \/ AbortDisconnected(s, r) => reply' = reply
      BY DEF AddRequest, StartPlain, AbortDisconnected, client
    <3>2. PrepareReceive(s, r) => DOMAIN reply' = Requests
      BY <2>4 DEF PrepareReceive
    <3>3. RemoteSend(s, r) => DOMAIN reply' = Requests
      BY <2>4 DEF RemoteSend, Tables
    <3>4. Generate(s, r) \/ Preempt(s, r) => DOMAIN reply' = Requests
      BY <2>4 DEF Generate, Preempt
    <3> QED
      BY <1>3, <3>1, <3>2, <3>3, <3>4 DEF EngineStep, Tables
  <2>6. Grid(job)'
    <3>1. Grid(job)
      BY DEF Tables
    <3>2. \A f, t, x : Grid(f) => Grid([f EXCEPT ![t][r] = x])
      BY DEF Grid
    <3>3. AddRequest(s, r) => Grid(job)'
      BY <3>1 DEF AddRequest, Grid
    <3>4. PrepareReceive(s, r) => Grid(job)'
      BY <3>1 DEF PrepareReceive, Grid
    <3>5. RemoteSend(s, r) => Grid(job)'
      <4> SUFFICES ASSUME RemoteSend(s, r)
                   PROVE  Grid(job)'
        OBVIOUS
      <4> DEFINE task == job[s][r].task
                 made == job[s][r].made
                 d == OwnerOf(task.rank)
                 sent(n) == [job EXCEPT ![d][r] = [job[d][r] EXCEPT
                               !.written = Writes(job[d][r].written, task.begin + made, task.begin + made + n)]]
      <4>1. PICK n : \/ job' = [sent(n) EXCEPT ![s][r] = NoJob]
                     \/ job' = [sent(n) EXCEPT ![s][r] = [@ EXCEPT !.st = "sending", !.made = made + n]]
        BY DEF RemoteSend
      <4>2. Grid(sent(n))
        BY <3>1 DEF Grid
      <4> HIDE DEF sent, made
      <4> QED
        BY <4>1, <4>2 DEF Grid
    <3>6. StartPlain(s, r) => Grid(job)'
      BY <3>1 DEF StartPlain, Grid
    <3>7. Generate(s, r) => Grid(job)'
      BY <3>1 DEF Generate, Grid
    <3>8. AbortDisconnected(s, r) \/ Preempt(s, r) => Grid(job)'
      BY <3>1 DEF AbortDisconnected, Preempt, Aborted, Grid
    <3> QED
      BY <1>3, <3>3, <3>4, <3>5, <3>6, <3>7, <3>8 DEF EngineStep
  <2> QED
    BY <2>1, <2>3, <2>5, <2>6 DEF Tables
<1> QED
  BY <1>1, <1>2, <1>3 DEF Next

\* A step is about one request at most, whose stage changes as its coroutine expects.
LEMMA StepIsAbout ==
  ASSUME TypeOK, Tables, FlowInv, [Next]_vars
  PROVE  \/ \A q \in Requests : Same(q)
         \/ \E r \in Requests : Flow(r)' /\ \A q \in Requests : q # r => Same(q)
<1>1. CASE (\E s \in Servers : StartServer(s) \/ Boot(s) \/ Poll(s)) \/ Join \/ Terminate \/ UNCHANGED vars
  BY <1>1 DEF StartServer, Boot, Poll, Join, Terminate, vars, client, engine, Same
<1>2. ASSUME NEW r \in Requests, RouterStep(r) \/ Fail(r) \/ Cancel(r)
      PROVE  Flow(r)' /\ \A q \in Requests : q # r => Same(q)
  <2>1. Flow(r)
    BY DEF FlowInv
  <2> QED
    BY <1>2, <2>1, TranslateFlow, ReceivePrepFlow, ReceiveSendFlow, ReceiveGenFlow, GiveUpFlow DEF RouterStep
<1>3. ASSUME NEW s \in Servers, NEW r \in Requests, EngineStep(s, r) \/ Preempt(s, r)
      PROVE  Flow(r)' /\ \A q \in Requests : q # r => Same(q)
  <2>1. Flow(r)
    BY DEF FlowInv
  <2> QED
    BY <1>3, <2>1, AddRequestFlow, PrepareReceiveFlow, RemoteSendFlow, StartPlainFlow, GenerateFlow, AbortFlow
    DEF EngineStep
<1> QED
  BY <1>1, <1>2, <1>3 DEF Next

\* Every step keeps every request in the stage that its coroutine expects.
LEMMA FlowNext ==
  ASSUME TypeOK, Tables, FlowInv, [Next]_vars
  PROVE  FlowInv'
<1>1. \A q \in Requests : at[q] \in Servers /\ Flow(q)
  BY DEF TypeOK, FlowInv
<1>2. CASE \A q \in Requests : Same(q)
  BY <1>1, <1>2, SameFlow DEF FlowInv
<1>3. ASSUME NEW r \in Requests, Flow(r)', \A q \in Requests : q # r => Same(q)
      PROVE  FlowInv'
  BY <1>1, <1>3, SameFlow DEF FlowInv
<1> QED
  BY <1>2, <1>3, StepIsAbout

\* At first no server knows of any request.
LEMMA FlowInit ==
  ASSUME Init
  PROVE  Tables /\ FlowInv
<1>1. Tables
  BY DEF Init, Tables, Grid
<1>2. \A r \in Requests : Nothing(r) /\ reply[r] = <<>> /\ pc[r] = "new"
  BY DEF Init, Nothing, Idle
<1> QED
  BY <1>1, <1>2 DEF FlowInv, Flow

\* The invariant of everything about requests but their answers.
LEMMA FlowInvariant == Spec => [](TypeOK /\ LoadInv /\ Tables /\ FlowInv)
<1>1. Init => TypeOK /\ LoadInv /\ Tables /\ FlowInv
  BY CountsInit, FlowInit
<1>2. TypeOK /\ LoadInv /\ Tables /\ FlowInv /\ [Next]_vars => TypeOK' /\ LoadInv' /\ Tables' /\ FlowInv'
  BY CountsNext, TablesNext, FlowNext
<1> QED
  BY <1>1, <1>2, PTL DEF Spec

\* A sequence stays reserved at a server for a request that is not under way there
\* only if the request failed or was cancelled: what is retried leaves none behind.
THEOREM ReservationsAreOwned == Spec => []ReservationsOwned
<1>1. TypeOK /\ FlowInv => ReservationsOwned
  <2> SUFFICES ASSUME TypeOK, FlowInv, NEW s \in Servers, NEW r \in Requests, job[s][r].st = "prepared"
               PROVE  (pc[r] \in Working /\ at[r] = s) \/ pc[r] \in {"failed", "cancelled"}
    BY DEF ReservationsOwned
  <2>1. Flow(r)
    BY DEF FlowInv
  <2>2. s = at[r] /\ ~Nothing(r)
    BY <2>1, FlowIsStage, InNothing, InPrepCalled, InPrepWaits, InPrepared, InSendCalled, InSends, InGenCalled,
       InPlain, InRuns DEF Stage, Prepares, Transfers, Begins
  <2>3. pc[r] \in {"prep", "send", "gen", "new", "retry", "ended", "failed", "cancelled"}
    BY DEF TypeOK, Working
  <2> QED
    BY <2>1, <2>2, <2>3 DEF Flow, Working
<1> QED
  BY <1>1, FlowInvariant, PTL

\* What is called finds what it needs.
LEMMA FlowChecks ==
  ASSUME TypeOK, FlowInv
  PROVE  ChecksHold
<1>0. \A r \in Requests : Flow(r) /\ Stage(r) /\ at[r] \in Servers
  BY FlowIsStage DEF FlowInv, TypeOK
<1>00. PromptLen \in Nat \ {0} /\ Prefiller \in Servers
  BY RouterAssumption DEF Servers, Prefiller
<1>1. ASSUME NEW s \in Servers, NEW r \in Requests, handler[s][r].kind = "gen"
      PROVE  /\ job[s][r].st = "prepared"
             /\ 0 <= handler[s][r].begin /\ handler[s][r].begin < PromptLen
  <2>1. GenCalled(r) /\ s = at[r]
    BY <1>0, <1>1, InNothing, InPrepCalled, InPrepWaits, InPrepared, InSendCalled, InSends, InGenCalled,
       InPlain, InRuns DEF Stage, Prepares, Transfers, Begins
  <2>2. handler[s][r].begin \in Positions
    BY <2>1 DEF GenCalled
  <2> QED
    BY <1>00, <2>1, <2>2, InGenCalled DEF Positions
<1>2. ASSUME NEW s \in Servers, NEW r \in Requests, handler[s][r].kind \in {"prep", "send", "plain"}
      PROVE  job[s][r].st = "none"
  BY <1>0, <1>2, InNothing, InPrepCalled, InPrepWaits, InPrepared, InSendCalled, InSends, InGenCalled,
     InPlain, InRuns DEF Stage, Prepares, Transfers, Begins
<1>3. ASSUME NEW s \in Servers, NEW r \in Requests, handler[s][r].kind = "prep"
      PROVE  Resolved(handler[s][r].end) \in 0..(PromptLen - 1)
  <2>1. PrepCalled(r) /\ s = at[r]
    BY <1>0, <1>3, InNothing, InPrepCalled, InPrepWaits, InPrepared, InSendCalled, InSends, InGenCalled,
       InPlain, InRuns DEF Stage, Prepares, Transfers, Begins
  <2>2. handler[s][r].end \in Ends
    BY <2>1, Fields DEF PrepCalled
  <2> QED
    BY <2>2, WindowEndsAre DEF Positions
<1>4. ASSUME NEW s \in Servers, NEW r \in Requests, handler[s][r].kind = "send"
      PROVE  /\ 0 <= handler[s][r].begin /\ handler[s][r].begin < handler[s][r].end
             /\ handler[s][r].end < PromptLen
             /\ handler[s][r].meta = handler[s][r].end - handler[s][r].begin
  <2>1. SendCalled(r) /\ s = Prefiller
    BY <1>0, <1>4, InNothing, InPrepCalled, InPrepWaits, InPrepared, InSendCalled, InSends, InGenCalled,
       InPlain, InRuns DEF Stage, Prepares, Transfers, Begins
  <2>2. Window(r, handler[s][r])
    BY <2>1 DEF SendCalled
  <2>3. handler[s][r].meta = handler[s][r].end - handler[s][r].begin
    BY <2>2, Fields DEF Window
  <2> QED
    BY <1>00, <2>2, <2>3 DEF Window, Positions
<1>5. ASSUME NEW r \in Requests, pc[r] = "prep", reply[r] # <<>>
      PROVE  Head(reply[r]).matched <= Resolved(Head(reply[r]).end)
  <2>4. PICK end \in Ends : \E n \in 0..Resolved(end) :
          reply[r] = <<[kind |-> "prepared", matched |-> n, reserved |-> Resolved(end) - n, end |-> end]>>
    BY <1>0, <1>5 DEF Flow
  <2>1. PICK n \in 0..Resolved(end) :
          reply[r] = <<[kind |-> "prepared", matched |-> n, reserved |-> Resolved(end) - n, end |-> end]>>
    BY <2>4
  <2>2. Head(reply[r]).matched = n /\ Head(reply[r]).end = end
    BY <2>1
  <2>3. Resolved(end) \in Int
    BY WindowEndsAre, <1>00 DEF Positions
  <2> QED
    BY <2>1, <2>2, <2>3
<1> QED
  BY <1>1, <1>2, <1>3, <1>4, <1>5 DEF ChecksHold

\* What a running sequence holds.
LEMMA FlowWritten ==
  ASSUME TypeOK, FlowInv
  PROVE  KvWrittenOnce
<1> SUFFICES ASSUME NEW s \in Servers, NEW r \in Requests, job[s][r].st = "running"
             PROVE  job[s][r].written =
                      [i \in Positions |-> IF i < job[s][r].task.begin \/ job[s][r].made > 0 THEN 1 ELSE 0]
  BY DEF KvWrittenOnce
<1>1. Runs(r) /\ s = at[r]
  BY RunsFor DEF FlowInv
<1>2. PICK j, b, made : j = job[s][r] /\ b = j.task.begin /\ made = j.made
  OBVIOUS
<1>3. /\ b \in Positions /\ made \in 0..(NumResponses(r) - 1)
      /\ j.written = Upto(IF made = 0 THEN b ELSE PromptLen)
  BY <1>1, <1>2, Fields DEF Runs
<1>4. NumResponses(r) \in Nat /\ PromptLen \in Nat
  BY RouterAssumption DEF NumResponses
<1>5. \A i \in Positions : i < (IF made = 0 THEN b ELSE PromptLen) <=> (i < b \/ made > 0)
  BY <1>3, <1>4 DEF Positions
<1> QED
  BY <1>2, <1>3, <1>5 DEF Upto

\* Where the prefill server writes.
LEMMA FlowReserved ==
  ASSUME TypeOK, FlowInv
  PROVE  WritesHitReserved
<1> SUFFICES ASSUME NEW s \in Servers, NEW r \in Requests,
                    job[s][r].st \in {"waiting", "sending"}, job[s][r].task.kind = "send"
             PROVE  job[OwnerOf(job[s][r].task.rank)][r].st = "prepared"
  BY DEF WritesHitReserved
<1>0. Stage(r) /\ at[r] \in Servers
  BY FlowIsStage DEF FlowInv, TypeOK
<1>1. Sends(r) /\ s = Prefiller
  BY <1>0, InNothing, InPrepCalled, InPrepWaits, InPrepared, InSendCalled, InSends, InGenCalled,
     InPlain, InRuns DEF Stage, Prepares, Transfers, Begins
<1>2. job[s][r].task.rank = DeviceIdStart(at[r])
  BY <1>1, Fields DEF Sends, Window
<1>3. OwnerOf(job[s][r].task.rank) = at[r]
  BY <1>0, <1>2, RankIsOwned
<1> QED
  BY <1>0, <1>1, <1>3, InSends

\* The KV window of a request: every call is accepted, every position of the prompt is
\* written once, and into a sequence that is reserved for the request.
THEOREM KvIsMovedRight == Spec => []KvMovedRight
<1>1. TypeOK /\ FlowInv => KvMovedRight
  BY FlowChecks, FlowWritten, FlowReserved DEF KvMovedRight
<1> QED
  BY <1>1, FlowInvariant, PTL

----------------------------------------------------------------------------
(* The answer                                                              *)

\* Responses, by attempt and number.
Responses == Nat \X Nat
Response(a, n) == <<a, n>>
AttemptOf(e) == e[1]
NumberOf(e) == e[2]
\* A response has its attempt and its number.
LEMMA ResponsesAre ==
  /\ \A a, n \in Nat : /\ Response(a, n) \in Responses
                       /\ AttemptOf(Response(a, n)) = a /\ NumberOf(Response(a, n)) = n
  /\ \A e \in Responses : AttemptOf(e) \in Nat /\ NumberOf(e) \in Nat
BY DEF Responses, Response, AttemptOf, NumberOf

\* Number of the last response of the current attempt that the consumer has.
Last(r) ==
  IF got[r] # <<>> /\ AttemptOf(got[r][Len(got[r])]) = attempt[r] THEN NumberOf(got[r][Len(got[r])]) ELSE 0

\* What the consumer has ends with all responses of the current attempt so far.
Heard(r) ==
  /\ got[r] \in Seq(Responses)
  /\ \A i \in DOMAIN got[r] : AttemptOf(got[r][i]) <= attempt[r] /\ NumberOf(got[r][i]) > 0
  /\ \A i, j \in DOMAIN got[r] : i < j =>
       \/ AttemptOf(got[r][i]) < AttemptOf(got[r][j])
       \/ AttemptOf(got[r][i]) = AttemptOf(got[r][j]) /\ NumberOf(got[r][j]) - NumberOf(got[r][i]) = j - i
  /\ Last(r) <= Len(got[r])
  /\ \A i \in 1..Last(r) : got[r][Len(got[r]) - Last(r) + i] = Response(attempt[r], i)

\* What is under way continues that.
Continues(r, i) ==
  \/ reply[r][i] = [kind |-> "chunk", no |-> Last(r) + i]
  \/ /\ i = Len(reply[r]) /\ ~Runs(r)
     /\ \/ reply[r][i] = [kind |-> "preempt"]
        \/ reply[r][i] = [kind |-> "end"] /\ Last(r) + i - 1 = NumResponses(r)
Coming(r) ==
  /\ pc[r] \in {"prep", "send"} => Last(r) = 0
  /\ pc[r] = "gen" =>
       /\ Begins(r) => Last(r) = 0
       /\ \A i \in DOMAIN reply[r] : Continues(r, i)
       /\ Runs(r) => job[at[r]][r].made = Last(r) + Len(reply[r])
  /\ pc[r] = "ended" => Last(r) = NumResponses(r)
Answer(r) == Heard(r) /\ Coming(r)
AnswerInv == \A r \in Requests : Answer(r)

\* A request that runs is neither about to begin nor gone.
LEMMA Exclusive ==
  ASSUME TypeOK, NEW r \in Requests
  PROVE  (Begins(r) => ~Runs(r) /\ ~Nothing(r)) /\ (Runs(r) => ~Nothing(r))
<1>1. at[r] \in Servers
  BY DEF TypeOK
<1> QED
  BY <1>1, InNothing, InGenCalled, InPlain, InRuns DEF Begins

\* The number of the last response is a number.
LEMMA LastIsNat ==
  ASSUME NEW r, Heard(r)
  PROVE  Last(r) \in Nat
<1>1. got[r] # <<>> => got[r][Len(got[r])] \in Responses
  BY DEF Heard
<1> QED
  BY <1>1, ResponsesAre DEF Last

\* What was heard stays so.
LEMMA StillHeard ==
  ASSUME NEW r, Heard(r), got'[r] = got[r], attempt'[r] = attempt[r]
  PROVE  Heard(r)' /\ Last(r)' = Last(r)
<1>1. Last(r)' = Last(r)
  BY DEF Last
<1> QED
  BY <1>1 DEF Heard

\* A new attempt: nothing of it was heard.
LEMMA NewAttempt ==
  ASSUME NEW r, Heard(r), got'[r] = got[r], attempt[r] \in Nat, attempt'[r] = attempt[r] + 1
  PROVE  Heard(r)' /\ Last(r)' = 0
<1>1. PICK g, n : g = got[r] /\ n = Len(g)
  OBVIOUS
<1>2. g \in Seq(Responses) /\ n \in Nat /\ DOMAIN g = 1..n
  BY <1>1 DEF Heard
<1>3. \A i \in 1..n : g[i] \in Responses /\ AttemptOf(g[i]) <= attempt[r]
  BY <1>1, <1>2 DEF Heard
<1>4. \A i \in 1..n : AttemptOf(g[i]) \in Nat /\ AttemptOf(g[i]) < attempt[r] + 1
  BY <1>3, ResponsesAre
<1>5. g # <<>> => n \in 1..n
  BY <1>1, <1>2
<1>6. Last(r)' = 0
  BY <1>1, <1>4, <1>5 DEF Last
<1>7. \A i \in DOMAIN got'[r] : AttemptOf(got'[r][i]) <= attempt'[r] /\ NumberOf(got'[r][i]) > 0
  BY <1>1, <1>2, <1>4 DEF Heard
<1> QED
  BY <1>1, <1>2, <1>6, <1>7 DEF Heard

\* A response that follows the last one of its attempt is in order.
Ordered(n, a, A, N) ==
  /\ A \in [1..n -> Nat] /\ N \in [1..n -> Nat]
  /\ \A i \in 1..n : A[i] <= a /\ N[i] > 0
  /\ \A i, j \in 1..n : i < j => A[i] < A[j] \/ (A[i] = A[j] /\ N[j] - N[i] = j - i)
Adds(n, a, A, N, B, M) ==
  /\ B \in [1..(n + 1) -> Nat] /\ M \in [1..(n + 1) -> Nat]
  /\ \A i \in 1..n : B[i] = A[i] /\ M[i] = N[i]
  /\ B[n + 1] = a /\ M[n + 1] = 1 + IF n > 0 /\ A[n] = a THEN N[n] ELSE 0
\* An arrival behind the last one keeps the order.
LEMMA NextInOrder ==
  ASSUME NEW n \in Nat, NEW a \in Nat, NEW A, NEW N, NEW B, NEW M,
         Ordered(n, a, A, N), Adds(n, a, A, N, B, M)
  PROVE  Ordered(n + 1, a, B, M)
<1>0. PICK k \in Nat : k = IF n > 0 /\ A[n] = a THEN N[n] ELSE 0
  BY DEF Ordered
<1> USE DEF Ordered, Adds
<1>1. ASSUME NEW i \in 1..n
       PROVE  A[i] < a \/ (A[i] = a /\ k + 1 - N[i] = n + 1 - i)
  <2>1. n > 0 /\ n \in 1..n /\ i <= n /\ i \in Nat
    OBVIOUS
  <2>2. PICK x \in Nat, y \in Nat, u \in Nat, v \in Nat : x = A[i] /\ y = N[i] /\ u = A[n] /\ v = N[n]
    BY <2>1
  <2>3. x <= a /\ u <= a /\ (i < n => x < u \/ (x = u /\ v - y = n - i)) /\ (i = n => x = u /\ y = v)
    BY <2>1, <2>2
  <2>4. k = IF u = a THEN v ELSE 0
    BY <1>0, <2>1, <2>2
  <2>5. x < a \/ (x = a /\ k + 1 - y = n + 1 - i)
    BY <2>1, <2>3, <2>4
  <2> QED
    BY <2>2, <2>5
<1>2. ASSUME NEW i \in 1..(n + 1)
       PROVE  B[i] <= a /\ M[i] > 0
  <2>1. i \in 1..n \/ i = n + 1
    OBVIOUS
  <2> QED
    BY <1>0, <2>1
<1>3. ASSUME NEW i \in 1..(n + 1), NEW j \in 1..(n + 1), i < j
       PROVE  B[i] < B[j] \/ (B[i] = B[j] /\ M[j] - M[i] = j - i)
  <2>1. i \in 1..n /\ (j \in 1..n \/ j = n + 1)
    BY <1>3
  <2>2. CASE j = n + 1
    <3>1. A[i] < a \/ (A[i] = a /\ k + 1 - N[i] = j - i)
      BY <1>1, <2>1, <2>2
    <3>2. B[i] = A[i] /\ M[i] = N[i] /\ B[j] = a /\ M[j] = k + 1
      BY <1>0, <2>1, <2>2
    <3> QED
      BY <3>1, <3>2
  <2>3. CASE j \in 1..n
    <3>1. A[i] < A[j] \/ (A[i] = A[j] /\ N[j] - N[i] = j - i)
      BY <1>3, <2>1, <2>3
    <3>2. B[i] = A[i] /\ M[i] = N[i] /\ B[j] = A[j] /\ M[j] = N[j]
      BY <2>1, <2>3
    <3> QED
      BY <3>1, <3>2
  <2> QED
    BY <2>1, <2>2, <2>3
<1> QED
  BY <1>2, <1>3

\* The next response is heard.
LEMMA NextHeard ==
  ASSUME NEW r, Heard(r), attempt[r] \in Nat, attempt'[r] = attempt[r],
         got'[r] = Append(got[r], Response(attempt[r], Last(r) + 1))
  PROVE  Heard(r)' /\ Last(r)' = Last(r) + 1
<1>1. PICK g, h, n, a, k : g = got[r] /\ h = got'[r] /\ n = Len(g) /\ a = attempt[r] /\ k = Last(r)
  OBVIOUS
<1>2. g \in Seq(Responses) /\ n \in Nat /\ DOMAIN g = 1..n /\ k \in Nat /\ a \in Nat /\ k <= n
  BY <1>1, LastIsNat DEF Heard
<1>3. PICK A \in [1..n -> Nat], N \in [1..n -> Nat] :
        \A i \in 1..n : A[i] = AttemptOf(g[i]) /\ N[i] = NumberOf(g[i])
  <2>1. \A i \in 1..n : g[i] \in Responses
    BY <1>2
  <2>2. PICK A, N : A = [i \in 1..n |-> AttemptOf(g[i])] /\ N = [i \in 1..n |-> NumberOf(g[i])]
    OBVIOUS
  <2>3. A \in [1..n -> Nat] /\ N \in [1..n -> Nat]
    BY <2>1, <2>2, ResponsesAre
  <2> QED
    BY <2>2, <2>3
<1>4. /\ \A i \in 1..n : A[i] <= a /\ N[i] > 0
      /\ \A i, j \in 1..n : i < j => A[i] < A[j] \/ (A[i] = A[j] /\ N[j] - N[i] = j - i)
      /\ \A i \in 1..k : g[n - k + i] = Response(a, i)
      /\ k = IF n > 0 /\ A[n] = a THEN N[n] ELSE 0
  <2>1. \A i \in 1..n : A[i] <= a /\ N[i] > 0
    <3>1. \A i \in 1..n : AttemptOf(g[i]) <= a /\ NumberOf(g[i]) > 0
      BY <1>1, <1>2 DEF Heard
    <3> QED
      BY <1>3, <3>1
  <2>2. \A i, j \in 1..n : i < j => A[i] < A[j] \/ (A[i] = A[j] /\ N[j] - N[i] = j - i)
    <3>1. \A i, j \in 1..n : i < j =>
            \/ AttemptOf(g[i]) < AttemptOf(g[j])
            \/ AttemptOf(g[i]) = AttemptOf(g[j]) /\ NumberOf(g[j]) - NumberOf(g[i]) = j - i
      BY <1>1, <1>2 DEF Heard
    <3> QED
      BY <1>3, <3>1
  <2>3. \A i \in 1..k : g[n - k + i] = Response(a, i)
    BY <1>1 DEF Heard
  <2>4. g # <<>> <=> n > 0
    BY <1>1, <1>2
  <2>5. k = IF n > 0 /\ A[n] = a THEN N[n] ELSE 0
    <3>1. CASE n > 0
      <4>1. A[n] = AttemptOf(g[n]) /\ N[n] = NumberOf(g[n])
        BY <1>2, <1>3, <3>1
      <4> QED
        BY <1>1, <2>4, <3>1, <4>1 DEF Last
    <3>2. CASE ~(n > 0)
      BY <1>1, <2>4, <3>2 DEF Last
    <3> QED
      BY <3>1, <3>2
  <2> QED
    BY <2>1, <2>2, <2>3, <2>5
<1>5. PICK e \in Responses : e = Response(a, k + 1) /\ AttemptOf(e) = a /\ NumberOf(e) = k + 1
  BY <1>2, ResponsesAre
<1>6. h = Append(g, e)
  BY <1>1, <1>5
<1>7. /\ h \in Seq(Responses) /\ Len(h) = n + 1 /\ DOMAIN h = 1..(n + 1) /\ h[n + 1] = e
      /\ \A i \in 1..n : h[i] = g[i]
  BY <1>1, <1>2, <1>6
<1>8. Last(r)' = k + 1
  <2>1. /\ got'[r] # <<>> /\ Len(got'[r]) = n + 1
        /\ AttemptOf(got'[r][n + 1]) = attempt'[r] /\ NumberOf(got'[r][n + 1]) = k + 1
    BY <1>1, <1>2, <1>5, <1>7
  <2> QED
    BY <2>1 DEF Last
<1>9. PICK B \in [1..(n + 1) -> Nat], M \in [1..(n + 1) -> Nat] :
        /\ \A i \in 1..n : B[i] = A[i] /\ M[i] = N[i]
        /\ B[n + 1] = a /\ M[n + 1] = k + 1
        /\ \A i \in 1..(n + 1) : B[i] = AttemptOf(h[i]) /\ M[i] = NumberOf(h[i])
  <2>1. \A i \in 1..(n + 1) : h[i] \in Responses
    BY <1>7
  <2>2. PICK B, M : /\ B = [i \in 1..(n + 1) |-> AttemptOf(h[i])]
                    /\ M = [i \in 1..(n + 1) |-> NumberOf(h[i])]
    OBVIOUS
  <2>3. B \in [1..(n + 1) -> Nat] /\ M \in [1..(n + 1) -> Nat]
    BY <2>1, <2>2, ResponsesAre
  <2>4. \A i \in 1..n : B[i] = A[i] /\ M[i] = N[i]
    BY <1>2, <1>3, <1>7, <2>2
  <2>5. B[n + 1] = a /\ M[n + 1] = k + 1
    BY <1>2, <1>5, <1>7, <2>2
  <2> QED
    BY <2>2, <2>3, <2>4, <2>5
<1>10. Ordered(n + 1, a, B, M)
  <2>1. Ordered(n, a, A, N)
    BY <1>4 DEF Ordered
  <2>2. Adds(n, a, A, N, B, M)
    BY <1>2, <1>4, <1>9 DEF Adds
  <2> QED
    BY <1>2, <2>1, <2>2, NextInOrder
<1>11. /\ \A i \in 1..(n + 1) : AttemptOf(h[i]) <= a /\ NumberOf(h[i]) > 0
       /\ \A i, j \in 1..(n + 1) : i < j =>
            \/ AttemptOf(h[i]) < AttemptOf(h[j])
            \/ AttemptOf(h[i]) = AttemptOf(h[j]) /\ NumberOf(h[j]) - NumberOf(h[i]) = j - i
  BY <1>9, <1>10, Zenon DEF Ordered
<1>12. ASSUME NEW i \in 1..(k + 1)
       PROVE  h[n + 1 - (k + 1) + i] = Response(a, i)
  <2>1. CASE i = k + 1
    <3>1. n + 1 - (k + 1) + i = n + 1
      BY <1>2, <2>1
    <3> QED
      BY <1>5, <1>7, <2>1, <3>1
  <2>2. CASE i # k + 1
    <3>1. i \in 1..k /\ n + 1 - (k + 1) + i = n - k + i /\ n - k + i \in 1..n
      BY <1>2, <2>2
    <3>2. g[n - k + i] = Response(a, i)
      BY <1>4, <3>1
    <3> QED
      BY <1>7, <3>1, <3>2
  <2> QED
    BY <2>1, <2>2
<1>13. \A i \in DOMAIN h : AttemptOf(h[i]) <= a /\ NumberOf(h[i]) > 0
  BY <1>7, <1>11
<1>14. \A i, j \in DOMAIN h : i < j =>
         \/ AttemptOf(h[i]) < AttemptOf(h[j])
         \/ AttemptOf(h[i]) = AttemptOf(h[j]) /\ NumberOf(h[j]) - NumberOf(h[i]) = j - i
  BY <1>7, <1>11, Zenon
<1>18. PICK c : c = k + 1
  OBVIOUS
<1>15. c <= Len(h) /\ \A i \in 1..c : h[Len(h) - c + i] = Response(a, i)
  BY <1>2, <1>7, <1>12, <1>18
<1>16. got'[r] = h /\ attempt'[r] = a /\ Last(r)' = c
  BY <1>1, <1>8, <1>18
<1>17. Heard(r)'
  BY <1>7, <1>13, <1>14, <1>15, <1>16 DEF Heard
<1> QED
  BY <1>1, <1>8, <1>17

\* Nothing of a request changes.
LEMMA SameAnswer ==
  ASSUME NEW q \in Requests, at[q] \in Servers, Same(q), Answer(q)
  PROVE  Answer(q)'
<1>1. Heard(q)' /\ Last(q)' = Last(q)
  BY StillHeard DEF Answer, Same
<1>2. (Begins(q)' <=> Begins(q)) /\ (Runs(q)' <=> Runs(q))
  BY SameStage DEF Begins, Same
<1>3. Coming(q)'
  BY <1>1, <1>2 DEF Answer, Coming, Continues, Same
<1> QED
  BY <1>1, <1>3 DEF Answer

\* No response of the current attempt has been made.
LEMMA NotYet ==
  ASSUME NEW r, Heard(r)', Last(r)' = 0, reply'[r] = <<>>, pc'[r] \in Working, job'[at'[r]][r].made = 0
  PROVE  Answer(r)'
<1>1. DOMAIN reply'[r] = {} /\ Len(reply'[r]) = 0
  OBVIOUS
<1>2. Coming(r)'
  BY <1>1 DEF Coming, Working
<1> QED
  BY <1>2 DEF Answer

\* Outside of the generation the answer stays as it is.
LEMMA NotGenerating ==
  ASSUME NEW r, Answer(r), got'[r] = got[r], attempt'[r] = attempt[r],
         (pc'[r] = pc[r] /\ pc[r] # "gen") \/ pc'[r] \in {"retry", "failed", "cancelled"}
  PROVE  Answer(r)'
<1>1. Heard(r)' /\ Last(r)' = Last(r)
  BY StillHeard DEF Answer
<1>2. Coming(r)'
  BY <1>1 DEF Answer, Coming
<1> QED
  BY <1>1, <1>2 DEF Answer

\* The router makes a first or a next call.
LEMMA CallAnswer ==
  ASSUME TypeOK, Tables, NEW r \in Requests, Flow(r), Answer(r),
         Translate(r) \/ ReceivePrep(r) \/ ReceiveSend(r)
  PROVE  Answer(r)'
<1>1. UNCHANGED <<got, job>> /\ attempt[r] \in Nat
  BY DEF Translate, ReceivePrep, ReceiveSend, TypeOK
<1>2. CASE Translate(r)
  <2>1. attempt'[r] = attempt[r] + 1 /\ UNCHANGED reply
    BY <1>2 DEF Translate, TypeOK
  <2>2. Heard(r)' /\ Last(r)' = 0
    BY <1>1, <2>1, NewAttempt DEF Answer
  <2>3. Nothing(r) /\ reply'[r] = <<>>
    BY <1>2, <2>1 DEF Translate, Flow
  <2>4. at'[r] \in Servers
    <3>1. at' = [at EXCEPT ![r] = Picked] /\ Picked \in Servers
      BY <1>2, PickedIsServer DEF Translate, Picked
    <3> QED
      BY <3>1 DEF TypeOK
  <2>5. job'[at'[r]][r].made = 0
    BY <1>1, <2>3, <2>4, Fields DEF Nothing, Idle
  <2>6. pc'[r] \in Working
    BY <1>2 DEF Translate, TypeOK, Working
  <2> QED
    BY <2>2, <2>3, <2>5, <2>6, NotYet
<1>3. CASE ReceivePrep(r) \/ ReceiveSend(r)
  <2>1. UNCHANGED <<at, attempt>> /\ reply' = [reply EXCEPT ![r] = Tail(@)]
    BY <1>3 DEF ReceivePrep, ReceiveSend
  <2>2. Heard(r)' /\ Last(r)' = Last(r)
    BY <1>1, <2>1, StillHeard DEF Answer
  <2>3. pc[r] \in {"prep", "send"} /\ Last(r) = 0
    BY <1>3 DEF ReceivePrep, ReceiveSend, Answer, Coming
  <2>4. PICK n, m : Prepared(r, n) /\ reply[r] = <<m>>
    BY <1>3 DEF ReceivePrep, ReceiveSend, Flow
  <2>5. reply'[r] = <<>>
    BY <2>1, <2>4 DEF Tables
  <2>6. job'[at'[r]][r].made = 0
    BY <1>1, <2>1, <2>4, Fields DEF Prepared, JobIs
  <2>7. pc'[r] \in Working
    <3>1. CASE ReceivePrep(r)
      BY <3>1 DEF ReceivePrep, TypeOK, Working
    <3>2. CASE ReceiveSend(r)
      BY <3>2 DEF ReceiveSend, TypeOK, Working
    <3> QED
      BY <1>3, <3>1, <3>2
  <2> QED
    BY <2>2, <2>3, <2>5, <2>6, <2>7, NotYet
<1> QED
  BY <1>2, <1>3

\* Responses are received in order.
LEMMA ReceiveAnswer ==
  ASSUME TypeOK, Tables, NEW r \in Requests, Flow(r), Answer(r),
         ReceiveChunk(r) \/ ReceivePreempt(r) \/ ReceiveEnd(r)
  PROVE  Answer(r)'
<1>1. PICK m, k, L : m = reply[r] /\ k = Last(r) /\ L = Len(m)
  OBVIOUS
<1>2. pc[r] = "gen" /\ m # <<>> /\ UNCHANGED <<at, attempt, engine>> /\ attempt[r] \in Nat /\ k \in Nat
  BY <1>1, LastIsNat DEF ReceiveChunk, ReceivePreempt, ReceiveEnd, TypeOK, Answer
<1>3. (Runs(r) \/ Nothing(r)) /\ m \in Seq(Messages)
  <2>1. Seq(Chunks) \subseteq Seq(Messages)
    BY DEF Messages
  <2> QED
    BY <1>1, <1>2, <2>1 DEF Flow
<1>4. L \in Nat /\ L > 0 /\ DOMAIN m = 1..L /\ Head(m) = m[1]
  BY <1>1, <1>2, <1>3
<1>5. \A i \in 1..L : Continues(r, i)
  BY <1>1, <1>2, <1>4 DEF Answer, Coming
<1>6. CASE ReceiveChunk(r)
  <2>1. Head(m).kind = "chunk" /\ pc'[r] = pc[r]
    BY <1>1, <1>6 DEF ReceiveChunk
  <2>2. m[1] = [kind |-> "chunk", no |-> k + 1]
    <3>1. Continues(r, 1) /\ m[1].kind = "chunk"
      BY <1>4, <1>5, <2>1
    <3> QED
      BY <1>1, <3>1 DEF Continues
  <2>3. Head(reply[r]).no = k + 1
    BY <1>1, <1>4, <2>2
  <2>4. got'[r] = Append(got[r], Response(attempt[r], k + 1)) /\ reply'[r] = Tail(m)
    BY <1>1, <1>6, <2>3 DEF ReceiveChunk, Response, Tables
  <2>5. Heard(r)' /\ Last(r)' = k + 1
    BY <1>1, <1>2, <2>4, NextHeard DEF Answer
  <2>6. at[r] \in Servers /\ \A s \in Servers : handler'[s][r] = handler[s][r] /\ job'[s][r] = job[s][r]
    BY <1>2 DEF engine, TypeOK
  <2>7. (Runs(r)' <=> Runs(r)) /\ (Begins(r)' <=> Begins(r))
    BY <1>2, <2>6, SameStage DEF Begins
  <2>8. ~Begins(r)
    BY <1>3, Exclusive
  <2>13. PICK t : t = Tail(m)
    OBVIOUS
  <2>9. t = Tail(m) /\ Len(t) = L - 1 /\ DOMAIN t = 1..(L - 1) /\ \A i \in 1..(L - 1) : t[i] = m[i + 1]
    <3>1. m \in Seq(Messages) /\ m # <<>> /\ L = Len(m)
      BY <1>1, <1>2, <1>3
    <3>2. Tail(m) \in Seq(Messages) /\ Len(Tail(m)) = Len(m) - 1 /\ \A i \in 1..(Len(m) - 1) : Tail(m)[i] = m[i + 1]
      BY <3>1, HeadTailProperties
    <3>3. DOMAIN t = 1..Len(t)
      BY <2>13, <3>2
    <3> QED
      BY <2>13, <3>1, <3>2, <3>3
  <2>10. ASSUME NEW i \in 1..(L - 1)
         PROVE  Continues(r, i)'
    <3>1. i + 1 \in 1..L /\ k + (i + 1) = k + 1 + i /\ k + (i + 1) - 1 = k + 1 + i - 1
          /\ (i + 1 = L <=> i = L - 1)
      BY <1>2, <1>4
    <3>2. Continues(r, i + 1)
      BY <1>5, <3>1
    <3>3. reply'[r][i] = reply[r][i + 1] /\ Len(reply'[r]) = L - 1 /\ Len(reply[r]) = L
      BY <1>1, <2>4, <2>9
    <3> QED
      BY <1>1, <2>5, <2>7, <3>1, <3>2, <3>3 DEF Continues, NumResponses
  <2>11. Runs(r)' => job'[at'[r]][r].made = Last(r)' + Len(reply'[r])
    <3>1. Runs(r) => job[at[r]][r].made = k + L
      BY <1>1, <1>2 DEF Answer, Coming
    <3>2. k + L = k + 1 + (L - 1)
      BY <1>2, <1>4
    <3> QED
      BY <1>2, <2>4, <2>5, <2>6, <2>7, <2>9, <3>1, <3>2
  <2>12. Coming(r)'
    BY <1>2, <2>1, <2>4, <2>7, <2>8, <2>9, <2>10, <2>11 DEF Coming
  <2> QED
    BY <2>5, <2>12 DEF Answer
<1>7. CASE ReceivePreempt(r)
  <2>1. got'[r] = got[r] /\ attempt'[r] = attempt[r] /\ pc'[r] = "retry"
    BY <1>7 DEF ReceivePreempt, DropPreempted, TypeOK
  <2> QED
    BY <2>1, NotGenerating
<1>8. CASE ReceiveEnd(r)
  <2>1. got'[r] = got[r] /\ attempt'[r] = attempt[r] /\ pc'[r] = "ended" /\ Head(m).kind = "end"
    BY <1>1, <1>8 DEF ReceiveEnd, TypeOK
  <2>2. Heard(r)' /\ Last(r)' = k
    BY <1>1, <2>1, StillHeard DEF Answer
  <2>3. k + 1 - 1 = NumResponses(r)
    <3>1. Continues(r, 1) /\ m[1].kind = "end"
      BY <1>4, <1>5, <2>1
    <3> QED
      BY <1>1, <3>1 DEF Continues
  <2>4. k = NumResponses(r)
    BY <1>2, <2>3
  <2>5. Coming(r)'
    BY <2>1, <2>2, <2>4 DEF Coming, NumResponses
  <2> QED
    BY <2>2, <2>5 DEF Answer
<1> QED
  BY <1>6, <1>7, <1>8

\* What is generated for continues what was made; messages is what is added to the
\* replies under way.
LEMMA GeneratedAnswer ==
  ASSUME TypeOK, Tables, NEW s \in Servers, NEW r \in Requests, Flow(r), Answer(r), pc[r] = "gen",
         UNCHANGED <<pc, at, attempt, got, handler>>, Generate(s, r) \/ Preempt(s, r)
  PROVE  Answer(r)'
<1>1. job[s][r].st = "running"
  BY DEF Generate, Preempt
<1>2. Runs(r) /\ s = at[r] /\ reply[r] \in Seq(Chunks) /\ Waited(r) = s
  BY <1>1, RunsFor
<1>3. PICK m, k, L, made : m = reply[r] /\ k = Last(r) /\ L = Len(m) /\ made = job[s][r].made
  OBVIOUS
<1>4. /\ k \in Nat /\ L \in Nat /\ DOMAIN m = 1..L /\ made = k + L /\ m \in Seq(Chunks)
      /\ \A i \in 1..L : m[i] = [kind |-> "chunk", no |-> k + i]
  <2>1. k \in Nat
    BY <1>3, LastIsNat DEF Answer
  <2>2. L \in Nat /\ DOMAIN m = 1..L
    BY <1>2, <1>3
  <2>3. made = k + L
    BY <1>2, <1>3 DEF Answer, Coming
  <2>4. \A i \in 1..L : Continues(r, i)
    BY <1>3, <2>2 DEF Answer, Coming
  <2>5. \A i \in 1..L : m[i] = [kind |-> "chunk", no |-> k + i]
    BY <1>2, <1>3, <2>4 DEF Continues
  <2> QED
    BY <1>2, <1>3, <2>1, <2>2, <2>3, <2>5
<1>5. Heard(r)' /\ Last(r)' = k /\ pc'[r] = "gen"
  BY <1>3, StillHeard DEF Answer
<1>6. handler'[at'[r]][r] = NoTask
  BY <1>2 DEF Runs
<1>7. ASSUME job'[s][r].st # "waiting"
      PROVE  ~Begins(r)'
  <2>1. handler'[at'[r]][r].kind = "none"
    BY <1>6, Fields
  <2>2. ~GenCalled(r)'
    BY <2>1, Fields DEF GenCalled
  <2>3. ~PlainCalled(r)'
    BY <2>1, Fields DEF PlainCalled
  <2>4. ~PlainWaits(r)'
    BY <1>2, <1>7, Fields DEF PlainWaits
  <2> QED
    BY <2>2, <2>3, <2>4 DEF Begins
<1>8. ASSUME job' = [job EXCEPT ![s][r] = NoJob]
      PROVE  ~Begins(r)' /\ ~Runs(r)'
  <2>1. job'[s][r].st = "none" /\ at'[r] = s
    BY <1>2, <1>8, Fields DEF Tables, Grid
  <2> QED
    BY <1>7, <2>1, Fields DEF Runs
<1>9. CASE Preempt(s, r)
  <2>1. PICK p : p = [kind |-> "preempt"]
    OBVIOUS
  <2>2. reply'[r] = m \o <<p>> /\ job' = [job EXCEPT ![s][r] = NoJob]
    <3>1. Reply(s, r, "gen", <<p>>) /\ job' = [job EXCEPT ![s][r] = NoJob]
      BY <1>9, <2>1 DEF Preempt, Aborted
    <3> QED
      BY <1>2, <1>3, <3>1, ReplyIs
  <2>3. Len(reply'[r]) = L + 1 /\ DOMAIN reply'[r] = 1..(L + 1) /\ reply'[r][L + 1] = p
        /\ \A i \in 1..L : reply'[r][i] = m[i]
    BY <1>3, <1>4, <2>2
  <2>4. ASSUME NEW i \in 1..(L + 1)
        PROVE  Continues(r, i)'
    <3>1. CASE i = L + 1
      BY <1>8, <2>1, <2>2, <2>3, <3>1 DEF Continues
    <3>2. CASE i # L + 1
      <4>1. i \in 1..L
        BY <1>4, <3>2
      <4> QED
        BY <1>4, <1>5, <2>3, <4>1 DEF Continues
    <3> QED
      BY <3>1, <3>2
  <2>5. Coming(r)'
    BY <1>5, <1>8, <2>2, <2>3, <2>4 DEF Coming
  <2> QED
    BY <1>5, <2>5 DEF Answer
<1>10. ASSUME Generate(s, r), made + 1 = NumResponses(r)
       PROVE  Answer(r)'
  <2>1. PICK c, p : c = [kind |-> "chunk", no |-> made + 1] /\ p = [kind |-> "end"]
    OBVIOUS
  <2>2. reply'[r] = m \o Append(<<c>>, p) /\ job' = [job EXCEPT ![s][r] = NoJob]
    <3>1. Reply(s, r, "gen", Append(<<c>>, p)) /\ job' = [job EXCEPT ![s][r] = NoJob]
      BY <1>3, <1>10, <2>1 DEF Generate
    <3> QED
      BY <1>2, <1>3, <3>1, ReplyIs
  <2>3. PICK q : q = Append(<<c>>, p) /\ q \in Seq({c, p}) /\ Len(q) = 2 /\ q[1] = c /\ q[2] = p
    <3>1. <<c>> \in Seq({c, p}) /\ Len(<<c>>) = 1 /\ <<c>>[1] = c
      OBVIOUS
    <3>2. PICK q : q = Append(<<c>>, p)
      OBVIOUS
    <3>3. q \in Seq({c, p}) /\ Len(q) = 2 /\ q[1] = c /\ q[2] = p
      BY <3>1, <3>2
    <3> QED
      BY <3>2, <3>3
  <2>4. Len(reply'[r]) = L + 2 /\ DOMAIN reply'[r] = 1..(L + 2) /\ reply'[r][L + 1] = c /\ reply'[r][L + 2] = p
        /\ \A i \in 1..L : reply'[r][i] = m[i]
    BY <1>3, <1>4, <2>2, <2>3
  <2>5. ASSUME NEW i \in 1..(L + 2)
        PROVE  Continues(r, i)'
    <3>1. CASE i = L + 2
      <4>1. k + i - 1 = NumResponses(r)
        BY <1>4, <1>10, <3>1
      <4> QED
        BY <1>5, <1>8, <2>1, <2>2, <2>4, <3>1, <4>1 DEF Continues, NumResponses
    <3>2. CASE i = L + 1
      <4>1. made + 1 = k + i
        BY <1>4, <3>2
      <4> QED
        BY <1>5, <2>1, <2>4, <3>2, <4>1 DEF Continues
    <3>3. CASE i # L + 1 /\ i # L + 2
      <4>1. i \in 1..L
        BY <1>4, <3>3
      <4> QED
        BY <1>4, <1>5, <2>4, <4>1 DEF Continues
    <3> QED
      BY <3>1, <3>2, <3>3
  <2>6. Coming(r)'
    BY <1>5, <1>8, <2>2, <2>4, <2>5 DEF Coming
  <2> QED
    BY <1>5, <2>6 DEF Answer
<1>11. ASSUME Generate(s, r), made + 1 # NumResponses(r)
       PROVE  Answer(r)'
  <2>1. PICK c : c = [kind |-> "chunk", no |-> made + 1]
    OBVIOUS
  <2>2. reply'[r] = m \o <<c>>
    <3>1. Reply(s, r, "gen", <<c>>)
      BY <1>3, <1>11, <2>1 DEF Generate
    <3> QED
      BY <1>2, <1>3, <3>1, ReplyIs
  <2>3. Len(reply'[r]) = L + 1 /\ DOMAIN reply'[r] = 1..(L + 1) /\ reply'[r][L + 1] = c
        /\ \A i \in 1..L : reply'[r][i] = m[i]
    BY <1>3, <1>4, <2>2
  <2>4. job'[s][r].st = "running" /\ job'[s][r].made = made + 1
    <3>1. PICK j, w : j = job[s][r] /\ job' = [job EXCEPT ![s][r] = [j EXCEPT !.made = made + 1, !.written = w]]
      BY <1>3, <1>11 DEF Generate
    <3>2. PICK t, n : j = Job("running", t, n, made)
      BY <1>2, <1>3, <3>1 DEF Runs
    <3>3. job'[s][r] = [j EXCEPT !.made = made + 1, !.written = w]
      BY <3>1 DEF Tables, Grid
    <3> QED
      BY <3>2, <3>3 DEF Job
  <2>5. ASSUME NEW i \in 1..(L + 1)
        PROVE  Continues(r, i)'
    <3>1. CASE i = L + 1
      <4>1. made + 1 = k + i
        BY <1>4, <3>1
      <4> QED
        BY <1>5, <2>1, <2>3, <3>1, <4>1 DEF Continues
    <3>2. CASE i # L + 1
      <4>1. i \in 1..L
        BY <1>4, <3>2
      <4> QED
        BY <1>4, <1>5, <2>3, <4>1 DEF Continues
    <3> QED
      BY <3>1, <3>2
  <2>6. job'[at'[r]][r].made = Last(r)' + Len(reply'[r])
    BY <1>2, <1>4, <1>5, <2>3, <2>4
  <2>7. ~Begins(r)'
    BY <1>7, <2>4
  <2>8. Coming(r)'
    BY <1>5, <2>3, <2>5, <2>6, <2>7 DEF Coming
  <2> QED
    BY <1>5, <2>8 DEF Answer
<1> QED
  BY <1>9, <1>10, <1>11

\* A server takes up what it was asked for: an attempt starts without responses.
LEMMA TakenUpAnswer ==
  ASSUME TypeOK, Tables, NEW s \in Servers, NEW r \in Requests, Flow(r), Answer(r), pc[r] = "gen",
         UNCHANGED <<pc, at, attempt, got, reply>>, AddRequest(s, r) \/ StartPlain(s, r)
  PROVE  Answer(r)'
<1>0. at[r] \in Servers
  BY DEF TypeOK
<1>1. CASE AddRequest(s, r)
  <2>1. handler[s][r].kind # "none"
    BY <1>1 DEF AddRequest
  <2>2. ~Nothing(r) /\ ~Runs(r) /\ ~PlainWaits(r)
    BY <2>1, InNothing, InRuns, InPlain
  <2>3. Begins(r) /\ reply[r] = <<>>
    BY <2>2 DEF Flow
  <2>4. s = at[r] /\ job[s][r].made = 0
    <3>1. CASE GenCalled(r)
      BY <2>1, <3>1, InGenCalled, Fields DEF GenCalled, JobIs
    <3>2. CASE PlainCalled(r)
      BY <2>1, <3>2, InPlain, Fields DEF PlainCalled
    <3> QED
      BY <2>2, <2>3, <3>1, <3>2 DEF Begins
  <2>5. job'[s][r].made = 0
    <3>1. PICK j, task : /\ j = job[s][r] /\ task = handler[s][r]
      OBVIOUS
    <3>2. job'[s][r] = IF task.kind = "gen" THEN [j EXCEPT !.st = "running", !.task = task]
                       ELSE [NoJob EXCEPT !.st = "waiting", !.task = task]
      BY <1>1, <3>1 DEF AddRequest, Tables, Grid
    <3>3. task.kind = "gen" => GenCalled(r)
      BY <1>0, <2>2, <2>3, <2>4, <3>1, Fields DEF Begins, PlainCalled
    <3>4. CASE task.kind = "gen"
      <4>1. PICK t, n : j = Job("prepared", t, n, 0)
        BY <2>4, <3>1, <3>3, <3>4 DEF GenCalled, JobIs
      <4>2. job'[s][r] = [j EXCEPT !.st = "running", !.task = task]
        BY <3>2, <3>4
      <4> QED
        BY <4>1, <4>2 DEF Job
    <3>5. CASE task.kind # "gen"
      <4>1. job'[s][r] = [NoJob EXCEPT !.st = "waiting", !.task = task]
        BY <3>2, <3>5
      <4> QED
        BY <4>1 DEF NoJob
    <3> QED
      BY <3>4, <3>5
  <2>6. Heard(r)' /\ Last(r)' = Last(r) /\ Last(r) = 0
    BY <2>3, StillHeard DEF Answer, Coming
  <2> QED
    BY <2>3, <2>4, <2>5, <2>6, NotYet DEF Working
<1>2. CASE StartPlain(s, r)
  <2>1. job[s][r].st = "waiting" /\ job[s][r].task.kind = "plain"
    BY <1>2 DEF StartPlain
  <2>2. PlainWaits(r) /\ s = at[r]
    BY <2>1, FlowIsStage, InNothing, InPrepCalled, InPrepWaits, InPrepared, InSendCalled, InSends, InGenCalled,
       InPlain, InRuns DEF Stage, Prepares, Transfers, Begins
  <2>3. Begins(r) /\ reply[r] = <<>>
    BY <2>2, Exclusive DEF Flow, Begins
  <2>4. job'[s][r].made = 0
    <3>1. PICK j : j = job[s][r] /\ job'[s][r] = [j EXCEPT !.st = "running"]
      BY <1>2 DEF StartPlain, Tables, Grid
    <3>2. PICK t : j = Job("waiting", t, 0, 0)
      BY <2>2, <3>1 DEF PlainWaits
    <3> QED
      BY <3>1, <3>2 DEF Job
  <2>5. Heard(r)' /\ Last(r)' = Last(r) /\ Last(r) = 0
    BY <2>3, StillHeard DEF Answer, Coming
  <2> QED
    BY <2>2, <2>3, <2>4, <2>5, NotYet DEF Working
<1> QED
  BY <1>1, <1>2

\* What the servers do continues the answer.
LEMMA ServedAnswer ==
  ASSUME TypeOK, Tables, NEW s \in Servers, NEW r \in Requests, Flow(r), Answer(r),
         EngineStep(s, r) \/ Preempt(s, r)
  PROVE  Answer(r)'
<1>1. UNCHANGED <<pc, at, attempt, got>>
  BY EngineFrame
<1>2. CASE pc[r] # "gen"
  BY <1>1, <1>2, NotGenerating
<1>3. CASE pc[r] = "gen"
  <2>1. ~PrepareReceive(s, r)
    <3>1. ~(job[s][r].st = "waiting" /\ job[s][r].task.kind = "prep")
      BY <1>3, InNothing, InGenCalled, InPlain, InRuns DEF Flow, Begins
    <3> QED
      BY <3>1 DEF PrepareReceive
  <2>2. ~RemoteSend(s, r)
    <3>1. ~(job[s][r].st \in {"waiting", "sending"} /\ job[s][r].task.kind = "send")
      BY <1>3, InNothing, InGenCalled, InPlain, InRuns DEF Flow, Begins
    <3> QED
      BY <3>1 DEF RemoteSend
  <2>3. ~AbortDisconnected(s, r)
    BY <1>3 DEF AbortDisconnected
  <2>4. CASE AddRequest(s, r) \/ StartPlain(s, r)
    <3>1. UNCHANGED reply
      BY <2>4 DEF AddRequest, StartPlain, client
    <3> QED
      BY <1>1, <1>3, <2>4, <3>1, TakenUpAnswer
  <2>5. CASE Generate(s, r) \/ Preempt(s, r)
    <3>1. UNCHANGED handler
      BY <2>5 DEF Generate, Preempt
    <3> QED
      BY <1>1, <1>3, <2>5, <3>1, GeneratedAnswer
  <2> QED
    BY <2>1, <2>2, <2>3, <2>4, <2>5 DEF EngineStep
<1> QED
  BY <1>2, <1>3

\* Every step continues every answer.
LEMMA AnswerNext ==
  ASSUME TypeOK, Tables, FlowInv, AnswerInv, [Next]_vars
  PROVE  AnswerInv'
<1>0. \A q \in Requests : at[q] \in Servers /\ Flow(q) /\ Answer(q)
  BY DEF TypeOK, FlowInv, AnswerInv
<1>1. CASE \A q \in Requests : Same(q)
  BY <1>0, <1>1, SameAnswer DEF AnswerInv
<1>2. CASE (\E s \in Servers : StartServer(s) \/ Boot(s) \/ Poll(s)) \/ Join \/ Terminate \/ UNCHANGED vars
  <2>1. \A q \in Requests : Same(q)
    BY <1>2 DEF StartServer, Boot, Poll, Join, Terminate, vars, client, engine, Same
  <2> QED
    BY <1>1, <2>1
<1>3. ASSUME NEW r \in Requests, RouterStep(r) \/ Fail(r) \/ Cancel(r)
      PROVE  AnswerInv'
  <2>1. \A q \in Requests : q # r => Same(q)
    BY <1>0, <1>3, TranslateFlow, ReceivePrepFlow, ReceiveSendFlow, ReceiveGenFlow, GiveUpFlow DEF RouterStep
  <2>2. Fail(r) \/ Cancel(r) => Answer(r)'
    <3>1. Fail(r) \/ Cancel(r) =>
            got'[r] = got[r] /\ attempt'[r] = attempt[r] /\ pc'[r] \in {"retry", "failed", "cancelled"}
      BY DEF Fail, Cancel, TypeOK
    <3> QED
      BY <1>0, <3>1, NotGenerating
  <2>3. Answer(r)'
    BY <1>0, <1>3, <2>2, CallAnswer, ReceiveAnswer DEF RouterStep
  <2> QED
    BY <1>0, <2>1, <2>3, SameAnswer DEF AnswerInv
<1>4. ASSUME NEW s \in Servers, NEW r \in Requests, EngineStep(s, r) \/ Preempt(s, r)
      PROVE  AnswerInv'
  <2>1. \A q \in Requests : q # r => Same(q)
    BY <1>0, <1>4, AddRequestFlow, PrepareReceiveFlow, RemoteSendFlow, StartPlainFlow, GenerateFlow, AbortFlow
    DEF EngineStep
  <2>2. Answer(r)'
    BY <1>0, <1>4, ServedAnswer
  <2> QED
    BY <1>0, <2>1, <2>2, SameAnswer DEF AnswerInv
<1> QED
  BY <1>2, <1>3, <1>4 DEF Next

\* However often a request was preempted and tried again, its answer ends with all
\* responses of its last attempt in order, and attempts are never mixed.
THEOREM AnswersAreComplete == Spec => []AnswerComplete
<1>1. Init => TypeOK /\ LoadInv /\ Tables /\ FlowInv /\ AnswerInv
  <2> SUFFICES ASSUME Init
               PROVE  AnswerInv
    BY CountsInit, FlowInit
  <2>1. \A r \in Requests : got[r] = <<>> /\ pc[r] = "new"
    BY DEF Init
  <2>2. \A r \in Requests : Last(r) = 0
    BY <2>1 DEF Last
  <2>3. \A r \in Requests : Heard(r)
    <3> SUFFICES ASSUME NEW r \in Requests
                 PROVE  Heard(r)
      OBVIOUS
    <3>1. PICK g : g = got[r] /\ g = <<>>
      BY <2>1
    <3>2. g \in Seq(Responses) /\ Len(g) = 0 /\ DOMAIN g = {} /\ \A i : i \notin 1..0
      BY <3>1
    <3>3. Last(r) = 0 /\ Last(r) <= Len(g) /\ \A i : i \notin 1..Last(r)
      BY <2>2, <3>2
    <3> QED
      BY <3>1, <3>2, <3>3 DEF Heard
  <2> QED
    BY <2>1, <2>3 DEF AnswerInv, Answer, Coming
<1>2. TypeOK /\ LoadInv /\ Tables /\ FlowInv /\ AnswerInv /\ [Next]_vars
        => TypeOK' /\ LoadInv' /\ Tables' /\ FlowInv' /\ AnswerInv'
  BY CountsNext, TablesNext, FlowNext, AnswerNext
<1>3. AnswerInv => AnswerComplete
  <2> SUFFICES ASSUME AnswerInv, NEW r \in Requests
               PROVE  /\ \A i, j \in DOMAIN got[r] : i < j =>
                           \/ got[r][i][1] < got[r][j][1]
                           \/ got[r][i][1] = got[r][j][1] /\ got[r][j][2] - got[r][i][2] = j - i
                      /\ \A i \in DOMAIN got[r] : got[r][i][2] > 0
                      /\ pc[r] = "ended" =>
                           /\ Len(got[r]) >= NumResponses(r)
                           /\ got[r][Len(got[r])] = <<attempt[r], NumResponses(r)>>
                           /\ got[r][Len(got[r]) - NumResponses(r) + 1] = <<attempt[r], 1>>
    BY DEF AnswerComplete
  <2>1. Heard(r) /\ Coming(r)
    BY DEF AnswerInv, Answer
  <2>2. /\ \A i, j \in DOMAIN got[r] : i < j =>
             \/ got[r][i][1] < got[r][j][1]
             \/ got[r][i][1] = got[r][j][1] /\ got[r][j][2] - got[r][i][2] = j - i
        /\ \A i \in DOMAIN got[r] : got[r][i][2] > 0
    BY <2>1, Zenon DEF Heard, AttemptOf, NumberOf
  <2>3. ASSUME pc[r] = "ended"
        PROVE  /\ Len(got[r]) >= NumResponses(r)
               /\ got[r][Len(got[r])] = <<attempt[r], NumResponses(r)>>
               /\ got[r][Len(got[r]) - NumResponses(r) + 1] = <<attempt[r], 1>>
    <3>1. PICK n \in Nat, k \in Nat : n = Len(got[r]) /\ k = NumResponses(r) /\ k > 0
      BY <2>1, RouterAssumption DEF Heard, NumResponses
    <3>2. Last(r) = k /\ k <= n
      BY <2>1, <2>3, <3>1 DEF Coming, Heard
    <3>3. \A i \in 1..k : got[r][n - k + i] = Response(attempt[r], i)
      BY <2>1, <3>1, <3>2 DEF Heard
    <3>4. k \in 1..k /\ n - k + k = n /\ 1 \in 1..k
      BY <3>1
    <3>5. got[r][n] = Response(attempt[r], k) /\ got[r][n - k + 1] = Response(attempt[r], 1)
      BY <3>3, <3>4
    <3> QED
      BY <3>1, <3>2, <3>5 DEF Response
  <2> QED
    BY <2>2, <2>3
<1> QED
  BY <1>1, <1>2, <1>3, PTL DEF Spec
=============================================================================
