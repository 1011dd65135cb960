-------------------------- MODULE DeploymentProofs --------------------------
(***************************************************************************)
(* Proof that the caches of Deployment are whole whenever they are used, on  *)
(* the machines CachesWhole is about (Undisturbed).                          *)
(*                                                                         *)
(* CachesWhole is not inductive.  A process that finds the directory of the *)
(* model takes it for complete (GetModel), so one has to know that the       *)
(* directory is complete whenever it exists and nobody copies into it;       *)
(* that what is renamed to it is a complete download; and that a process     *)
(* that copies is alone and does not crash, as Undisturbed says of machines  *)
(* that copy.  The same goes for the libraries, which jit finds by their key.*)
(***************************************************************************)
EXTENDS ModelServing, TLAPS

Labels == {"start", "clone", "shards", "move", "copy", "spoilt", "jit", "compile", "store", "storing",
           "load", "running", "failed"}

\* Processes that have the directory of the model.
HaveModel == {"jit", "compile", "store", "storing", "load", "running"}

\* The shape of the state; a library is a record, whatever its configuration is.
DeploymentTypes ==
  /\ inst \in Instances
  /\ pc \in [Procs -> Labels]
  /\ part \in [Procs -> SUBSET Files]
  /\ seen \in [Procs -> BOOLEAN]
  /\ dir \in [Procs -> {"none", "given", "home"}]
  /\ home \in [exists : BOOLEAN, files : SUBSET Files, stray : BOOLEAN]
  /\ lib = [p \in Procs |-> lib[p]]
  /\ libs = [k \in DOMAIN libs |-> libs[k]]
  /\ \A k \in DOMAIN libs : /\ libs[k] = [whole |-> libs[k].whole, config |-> libs[k].config]
                            /\ libs[k].whole \in BOOLEAN
  /\ crashes \in Nat

\* The directory of the model: what is in it and what is still to be copied are a
\* complete download, and when nobody copies it is complete.
ModelWhole ==
  /\ \A p \in Procs : pc[p] \in HaveModel /\ dir[p] = "home" => home.exists
  /\ \A p \in Procs : pc[p] = "shards" => "config" \in part[p]
  /\ \A p \in Procs : pc[p] = "move" => part[p] = Files /\ (seen[p] => home.exists)
  /\ \A p \in Procs : pc[p] = "copy" =>
       part[p] \cup home.files = Files /\ home.exists /\ ~inst.same_fs
  /\ \A p \in Procs : pc[p] # "spoilt"
  /\ home.exists => home.files = Files \/ \E p \in Procs : pc[p] = "copy"

\* The libraries: all are whole but one that a process is writing.
LibrariesWhole ==
  /\ \A p \in Procs : pc[p] \in {"storing", "load", "running"} => lib[p] \in DOMAIN libs
  /\ \A p \in Procs : pc[p] = "storing" => ~inst.same_fs
  /\ \A k \in DOMAIN libs : libs[k].whole \/ \E p \in Procs : pc[p] = "storing" /\ lib[p] = k

DeploymentInv == Undisturbed /\ DeploymentTypes /\ ModelWhole /\ LibrariesWhole

-----------------------------------------------------------------------------

\* A machine that copies or deletes has one process; one that copies does not crash.
LEMMA OneOrNoDisturbance ==
  ASSUME Undisturbed
  PROVE  /\ inst.same_fs \/ (inst.crashes = 0 /\ \E p \in Procs : Procs = {p})
         /\ inst.download # "REDO" \/ \E p \in Procs : Procs = {p}
PROOF BY DEF Undisturbed

\* The machine stays the same.
LEMMA StaysUndisturbed ==
  ASSUME UNCHANGED inst
  PROVE  Undisturbed' <=> Undisturbed
PROOF BY DEF Undisturbed, Procs

\* The invariant says that the caches in use are whole.
LEMMA InvImpliesWhole ==
  ASSUME Undisturbed => DeploymentInv
  PROVE  CachesWhole
PROOF
  <1> SUFFICES ASSUME Undisturbed, NEW p \in Procs
               PROVE  /\ pc[p] \in HaveModel /\ dir[p] = "home" =>
                           home.exists /\ home.files = Files
                      /\ pc[p] \in {"load", "running"} =>
                           lib[p] \in DOMAIN libs /\ libs[lib[p]].whole
    BY DEF CachesWhole, HaveModel
  <1>0. DeploymentInv OBVIOUS
  <1>1. (\A q \in Procs : pc[q] # "copy" /\ pc[q] # "storing")
        \/ \E q \in Procs : Procs = {q}
    BY <1>0, OneOrNoDisturbance DEF DeploymentInv, ModelWhole, LibrariesWhole
  <1> QED BY <1>0, <1>1 DEF DeploymentInv, ModelWhole, LibrariesWhole, HaveModel

\* The invariant holds initially.
LEMMA InitHolds ==
  ASSUME Init, Undisturbed
  PROVE  DeploymentInv
PROOF
  <1>1. inst \in Instances BY DEF Init, DeploymentInit
  <1>2. inst.there \in BOOLEAN BY <1>1, InstancesAssumption
  <1>3. DeploymentTypes
    BY <1>1, <1>2 DEF Init, DeploymentInit, DeploymentTypes, Procs, Labels, Files
  <1>4. ModelWhole
    BY <1>1, <1>2 DEF Init, DeploymentInit, ModelWhole, Procs, HaveModel
  <1>5. LibrariesWhole
    BY DEF Init, DeploymentInit, LibrariesWhole, Procs
  <1> QED BY <1>3, <1>4, <1>5 DEF DeploymentInv

-----------------------------------------------------------------------------
(* Downloading *)

\* Looking up a model keeps the invariant.
LEMMA GetModelKeeps ==
  ASSUME DeploymentInv, NEW p \in Procs, GetModel(p), UNCHANGED <<inst, crashes>>
  PROVE  DeploymentInv'
PROOF
  <1> USE DEF DeploymentInv
  <1>u. Undisturbed' BY StaysUndisturbed
  <1>0. Procs' = Procs /\ Files' = Files BY DEF Procs, Files
  <1>1. \/ inst.download # "REDO"
        \/ \A q \in Procs : q = p
    BY OneOrNoDisturbance
  <1>2. /\ pc[p] = "start"
        /\ UNCHANGED <<part, seen, libs, lib>>
    BY DEF GetModel
  <1>3. \/ Goto(p, "jit") /\ dir' = [dir EXCEPT ![p] = "given"] /\ home' = home
        \/ Goto(p, "failed") /\ dir' = dir /\ home' = home
        \/ /\ home' = IF inst.download = "REDO"
                      THEN [exists |-> FALSE, files |-> {}, stray |-> FALSE] ELSE home
           /\ dir' = [dir EXCEPT ![p] = "home"]
           /\ Goto(p, IF home.exists /\ inst.download # "REDO" THEN "jit"
                      ELSE IF inst.download = "READONLY" THEN "failed" ELSE "clone")
    BY DEF GetModel
  <1>4. DeploymentTypes'
    <2>1. pc' \in [Procs -> Labels] BY <1>3 DEF DeploymentTypes, Goto, Labels
    <2>2. dir' \in [Procs -> {"none", "given", "home"}] BY <1>3 DEF DeploymentTypes
    <2>3. home' \in [exists : BOOLEAN, files : SUBSET Files, stray : BOOLEAN]
      <3>1. [exists |-> FALSE, files |-> {}, stray |-> FALSE]
              \in [exists : BOOLEAN, files : SUBSET Files, stray : BOOLEAN]
        OBVIOUS
      <3>2. home' = home \/ home' = [exists |-> FALSE, files |-> {}, stray |-> FALSE]
        BY <1>3
      <3> QED BY <3>1, <3>2 DEF DeploymentTypes
    <2> QED BY <1>0, <1>2, <2>1, <2>2, <2>3 DEF DeploymentTypes
  <1>5. ModelWhole'
    BY <1>0, <1>1, <1>2, <1>3 DEF DeploymentTypes, ModelWhole, Goto, HaveModel, Labels
  <1>6. LibrariesWhole'
    BY <1>0, <1>2, <1>3 DEF DeploymentTypes, LibrariesWhole, Goto, Labels
  <1> QED BY <1>u, <1>4, <1>5, <1>6

\* Cloning the repository of a model keeps the invariant.
LEMMA CloneKeeps ==
  ASSUME DeploymentInv, NEW p \in Procs, Clone(p), UNCHANGED <<inst, crashes>>
  PROVE  DeploymentInv'
PROOF
  <1> USE DEF DeploymentInv
  <1>u. Undisturbed' BY StaysUndisturbed
  <1>0. Procs' = Procs /\ Files' = Files /\ "config" \in Files BY DEF Procs, Files
  <1>4. DeploymentTypes'
    BY <1>0 DEF Clone, Fail, DeploymentTypes, Goto, Labels
  <1>5. ModelWhole'
    BY <1>0 DEF Clone, Fail, DeploymentTypes, ModelWhole, Goto, HaveModel, Labels
  <1>6. LibrariesWhole'
    BY <1>0 DEF Clone, Fail, DeploymentTypes, LibrariesWhole, Goto, Labels
  <1> QED BY <1>u, <1>4, <1>5, <1>6

\* Downloading a file keeps the invariant.
LEMMA DownloadFileKeeps ==
  ASSUME DeploymentInv, NEW p \in Procs, DownloadFile(p), UNCHANGED <<inst, crashes>>
  PROVE  DeploymentInv'
PROOF
  <1> USE DEF DeploymentInv
  <1>u. Undisturbed' BY StaysUndisturbed
  <1>0. Procs' = Procs /\ Files' = Files /\ Shards \subseteq Files BY DEF Procs, Files
  <1>4. DeploymentTypes'
    BY <1>0 DEF DownloadFile, Fail, DeploymentTypes, Goto, Labels
  <1>5. ModelWhole'
    BY <1>0 DEF DownloadFile, Fail, DeploymentTypes, ModelWhole, Goto, HaveModel, Labels
  <1>6. LibrariesWhole'
    BY <1>0 DEF DownloadFile, Fail, DeploymentTypes, LibrariesWhole, Goto, Labels
  <1> QED BY <1>u, <1>4, <1>5, <1>6

\* What is moved is a complete download: "config" from the clone and every shard.
LEMMA CheckMoveKeeps ==
  ASSUME DeploymentInv, NEW p \in Procs, CheckMove(p), UNCHANGED <<inst, crashes>>
  PROVE  DeploymentInv'
PROOF
  <1> USE DEF DeploymentInv
  <1>u. Undisturbed' BY StaysUndisturbed
  <1>0. Procs' = Procs /\ Files' = Files BY DEF Procs, Files
  <1>1. part[p] = Files BY DEF CheckMove, ModelWhole, DeploymentTypes, Files
  <1>4. DeploymentTypes'
    BY <1>0 DEF CheckMove, Fail, DeploymentTypes, Goto, Labels
  <1>5. ModelWhole'
    BY <1>0, <1>1 DEF CheckMove, Fail, DeploymentTypes, ModelWhole, Goto, HaveModel, Labels
  <1>6. LibrariesWhole'
    BY <1>0 DEF CheckMove, Fail, DeploymentTypes, LibrariesWhole, Goto, Labels
  <1> QED BY <1>u, <1>4, <1>5, <1>6

\* Moving the downloaded directory into the cache keeps the invariant.
LEMMA MoveKeeps ==
  ASSUME DeploymentInv, NEW p \in Procs, Move(p), UNCHANGED <<inst, crashes>>
  PROVE  DeploymentInv'
PROOF
  <1> USE DEF DeploymentInv
  <1>u. Undisturbed' BY StaysUndisturbed
  <1>0. Procs' = Procs /\ Files' = Files BY DEF Procs, Files
  <1>1. /\ pc[p] = "move" /\ part[p] = Files /\ (seen[p] => home.exists)
        /\ UNCHANGED <<seen, dir, libs, lib>>
    BY DEF Move, ModelWhole
  <1>2. seen[p] \in BOOLEAN /\ home.exists \in BOOLEAN /\ home.stray \in BOOLEAN
    BY DEF DeploymentTypes
  <1>3. inst.same_fs \in BOOLEAN BY InstancesAssumption DEF DeploymentTypes
  <1>4. \/ /\ home.exists /\ home' = [home EXCEPT !.exists = TRUE, !.stray = TRUE]
           /\ Goto(p, "jit") /\ part' = [part EXCEPT ![p] = {}]
        \/ Fail(p) /\ home' = home
        \/ /\ inst.same_fs /\ home' = [exists |-> TRUE, files |-> part[p], stray |-> FALSE]
           /\ Goto(p, "jit") /\ part' = [part EXCEPT ![p] = {}]
        \/ /\ ~inst.same_fs /\ home' = [exists |-> TRUE, files |-> {}, stray |-> FALSE]
           /\ Goto(p, "copy") /\ part' = part
    BY <1>1, <1>2, <1>3 DEF Move
  <1>5. DeploymentTypes'
    <2>1. pc' \in [Procs -> Labels] BY <1>4 DEF DeploymentTypes, Goto, Fail, Labels
    <2>2. part' \in [Procs -> SUBSET Files] BY <1>4 DEF DeploymentTypes, Fail
    <2>3. home' \in [exists : BOOLEAN, files : SUBSET Files, stray : BOOLEAN]
      <3>1. \A S \in SUBSET Files : [exists |-> TRUE, files |-> S, stray |-> FALSE]
              \in [exists : BOOLEAN, files : SUBSET Files, stray : BOOLEAN]
        OBVIOUS
      <3>2. [home EXCEPT !.exists = TRUE, !.stray = TRUE]
              \in [exists : BOOLEAN, files : SUBSET Files, stray : BOOLEAN]
        BY DEF DeploymentTypes
      <3>3. home \in [exists : BOOLEAN, files : SUBSET Files, stray : BOOLEAN]
        BY DEF DeploymentTypes
      <3>4. \/ home' = [home EXCEPT !.exists = TRUE, !.stray = TRUE] \/ home' = home
            \/ home' = [exists |-> TRUE, files |-> Files, stray |-> FALSE]
            \/ home' = [exists |-> TRUE, files |-> {}, stray |-> FALSE]
        BY <1>1, <1>4
      <3> QED BY <3>1, <3>2, <3>3, <3>4
    <2> QED BY <1>0, <1>1, <2>1, <2>2, <2>3 DEF DeploymentTypes
  <1>6. ModelWhole'
    <2>1. \A q \in Procs : pc[q] # "copy"
      BY <1>1, OneOrNoDisturbance DEF ModelWhole
    <2>2. \A q \in Procs \ {p} : pc'[q] = pc[q] /\ part'[q] = part[q]
      BY <1>4 DEF Goto, Fail, DeploymentTypes
    <2>3. home.exists => home.files = Files
      BY <2>1 DEF ModelWhole
    <2>4. CASE /\ home.exists /\ home' = [home EXCEPT !.exists = TRUE, !.stray = TRUE]
               /\ Goto(p, "jit") /\ part' = [part EXCEPT ![p] = {}]
      <3>1. pc'[p] = "jit" /\ home'.exists /\ home'.files = Files
        BY <2>3, <2>4 DEF Goto, DeploymentTypes
      <3> QED BY <1>0, <1>1, <2>1, <2>2, <3>1 DEF ModelWhole, HaveModel
    <2>5. CASE Fail(p) /\ home' = home
      <3>1. pc'[p] = "failed" BY <2>5 DEF Fail, DeploymentTypes
      <3> QED BY <1>0, <1>1, <2>1, <2>2, <2>3, <2>5, <3>1 DEF ModelWhole, HaveModel
    <2>6. CASE /\ inst.same_fs /\ home' = [exists |-> TRUE, files |-> part[p], stray |-> FALSE]
               /\ Goto(p, "jit") /\ part' = [part EXCEPT ![p] = {}]
      <3>1. pc'[p] = "jit" /\ home'.exists /\ home'.files = Files
        BY <1>1, <2>6 DEF Goto, DeploymentTypes
      <3> QED BY <1>0, <1>1, <2>1, <2>2, <3>1 DEF ModelWhole, HaveModel
    <2>7. CASE /\ ~inst.same_fs /\ home' = [exists |-> TRUE, files |-> {}, stray |-> FALSE]
               /\ Goto(p, "copy") /\ part' = part
      <3>1. pc'[p] = "copy" /\ home'.exists /\ home'.files = {} /\ part'[p] = Files
        BY <1>1, <2>7 DEF Goto, DeploymentTypes
      <3>2. \A q \in Procs : q = p BY <2>7, OneOrNoDisturbance
      <3> QED BY <1>0, <1>1, <2>7, <3>1, <3>2 DEF ModelWhole, HaveModel
    <2> QED BY <1>4, <2>4, <2>5, <2>6, <2>7
  <1>7. LibrariesWhole'
    BY <1>0, <1>1, <1>4 DEF Fail, DeploymentTypes, LibrariesWhole, Goto, Labels
  <1> QED BY <1>u, <1>5, <1>6, <1>7

\* Copying a file across devices keeps the invariant.
LEMMA CopyFileKeeps ==
  ASSUME DeploymentInv, NEW p \in Procs, CopyFile(p), UNCHANGED <<inst, crashes>>
  PROVE  DeploymentInv'
PROOF
  <1> USE DEF DeploymentInv
  <1>u. Undisturbed' BY StaysUndisturbed
  <1>0. Procs' = Procs /\ Files' = Files BY DEF Procs, Files
  <1>1. /\ pc[p] = "copy" /\ part[p] \cup home.files = Files /\ home.exists
        /\ \A q \in Procs : q = p
    BY OneOrNoDisturbance DEF CopyFile, ModelWhole
  <1>5. DeploymentTypes'
    BY <1>0, <1>1 DEF CopyFile, DeploymentTypes, Goto, Labels
  <1>6. ModelWhole'
    BY <1>0, <1>1 DEF CopyFile, DeploymentTypes, ModelWhole, Goto, HaveModel, Labels
  <1>7. LibrariesWhole'
    BY <1>0, <1>1 DEF CopyFile, DeploymentTypes, LibrariesWhole, Goto, Labels
  <1> QED BY <1>u, <1>5, <1>6, <1>7

-----------------------------------------------------------------------------
(* Compiling and loading *)

\* Looking up a model library keeps the invariant.
LEMMA JitKeeps ==
  ASSUME DeploymentInv, NEW p \in Procs, Jit(p), UNCHANGED <<inst, crashes>>
  PROVE  DeploymentInv'
PROOF
  <1> USE DEF DeploymentInv
  <1>u. Undisturbed' BY StaysUndisturbed
  <1>0. Procs' = Procs /\ Files' = Files BY DEF Procs, Files
  <1>1. /\ pc[p] = "jit"
        /\ UNCHANGED <<part, seen, dir, home, libs>>
    BY DEF Jit
  <1>2. PICK key : \/ Goto(p, "failed") /\ (lib' = lib \/ lib' = [lib EXCEPT ![p] = key])
                   \/ Goto(p, "load") /\ lib' = [lib EXCEPT ![p] = key] /\ key \in DOMAIN libs
                   \/ Goto(p, "compile") /\ lib' = [lib EXCEPT ![p] = key]
    BY DEF Jit
  <1>5. DeploymentTypes'
    BY <1>0, <1>1, <1>2 DEF DeploymentTypes, Goto, Labels
  <1>6. ModelWhole'
    BY <1>0, <1>1, <1>2 DEF DeploymentTypes, ModelWhole, Goto, HaveModel, Labels
  <1>7. LibrariesWhole'
    BY <1>0, <1>1, <1>2 DEF DeploymentTypes, LibrariesWhole, Goto, Labels
  <1> QED BY <1>u, <1>5, <1>6, <1>7

\* Compiling a model library keeps the invariant.
LEMMA CompileKeeps ==
  ASSUME DeploymentInv, NEW p \in Procs, Compile(p), UNCHANGED <<inst, crashes>>
  PROVE  DeploymentInv'
PROOF
  <1> USE DEF DeploymentInv
  <1>u. Undisturbed' BY StaysUndisturbed
  <1>0. Procs' = Procs /\ Files' = Files BY DEF Procs, Files
  <1>5. DeploymentTypes'
    BY <1>0 DEF Compile, DeploymentTypes, Goto, Labels
  <1>6. ModelWhole'
    BY <1>0 DEF Compile, DeploymentTypes, ModelWhole, Goto, HaveModel, Labels
  <1>7. LibrariesWhole'
    BY <1>0 DEF Compile, DeploymentTypes, LibrariesWhole, Goto, Labels
  <1> QED BY <1>u, <1>5, <1>6, <1>7

\* Two processes may store a library under the same key: the second one replaces the
\* first, and both are whole, for only a rename is shared.
LEMMA StoreKeeps ==
  ASSUME DeploymentInv, NEW p \in Procs, Store(p), UNCHANGED <<inst, crashes>>
  PROVE  DeploymentInv'
PROOF
  <1> USE DEF DeploymentInv
  <1>u. Undisturbed' BY StaysUndisturbed
  <1>0. Procs' = Procs /\ Files' = Files BY DEF Procs, Files
  <1>1. inst.same_fs \in BOOLEAN BY InstancesAssumption DEF DeploymentTypes
  <1>2. PICK config : libs' = Cached(lib[p], [whole |-> inst.same_fs, config |-> config])
    BY DEF Store
  <1>3. /\ pc[p] = "store" /\ Goto(p, IF inst.same_fs THEN "load" ELSE "storing")
        /\ UNCHANGED <<part, seen, dir, home, lib>>
    BY DEF Store
  <1>4. /\ DOMAIN libs' = DOMAIN libs \cup {lib[p]}
        /\ libs' = [k \in DOMAIN libs' |-> libs'[k]]
        /\ libs'[lib[p]] = [whole |-> inst.same_fs, config |-> config]
        /\ \A k \in DOMAIN libs : k # lib[p] => libs'[k] = libs[k]
    BY <1>2 DEF Cached
  <1>5. DeploymentTypes'
    <2>1. \A k \in DOMAIN libs' :
            /\ libs'[k] = [whole |-> libs'[k].whole, config |-> libs'[k].config]
            /\ libs'[k].whole \in BOOLEAN
      BY <1>1, <1>4 DEF DeploymentTypes
    <2> QED BY <1>0, <1>3, <1>4, <2>1 DEF DeploymentTypes, Goto, Labels
  <1>6. ModelWhole'
    BY <1>0, <1>3 DEF DeploymentTypes, ModelWhole, Goto, HaveModel, Labels
  <1>7. LibrariesWhole'
    BY <1>0, <1>1, <1>3, <1>4 DEF DeploymentTypes, LibrariesWhole, Goto, Labels
  <1> QED BY <1>u, <1>5, <1>6, <1>7

\* Storing the rest of a model library keeps the invariant.
LEMMA StoreRestKeeps ==
  ASSUME DeploymentInv, NEW p \in Procs, StoreRest(p), UNCHANGED <<inst, crashes>>
  PROVE  DeploymentInv'
PROOF
  <1> USE DEF DeploymentInv
  <1>u. Undisturbed' BY StaysUndisturbed
  <1>0. Procs' = Procs /\ Files' = Files BY DEF Procs, Files
  <1>1. pc[p] = "storing" /\ lib[p] \in DOMAIN libs /\ \A q \in Procs : q = p
    BY OneOrNoDisturbance DEF StoreRest, LibrariesWhole
  <1>2. /\ libs' = [libs EXCEPT ![lib[p]].whole = TRUE] /\ Goto(p, "load")
        /\ UNCHANGED <<part, seen, dir, home, lib>>
    BY <1>1 DEF StoreRest
  <1>3. libs[lib[p]] = [whole |-> libs[lib[p]].whole, config |-> libs[lib[p]].config]
    BY <1>1 DEF DeploymentTypes
  <1>4. /\ DOMAIN libs' = DOMAIN libs
        /\ libs' = [k \in DOMAIN libs' |-> libs'[k]]
        /\ libs'[lib[p]] = [whole |-> TRUE, config |-> libs[lib[p]].config]
        /\ \A k \in DOMAIN libs : k # lib[p] => libs'[k] = libs[k]
    BY <1>1, <1>2, <1>3 DEF DeploymentTypes
  <1>5. DeploymentTypes'
    <2>1. \A k \in DOMAIN libs' :
            /\ libs'[k] = [whole |-> libs'[k].whole, config |-> libs'[k].config]
            /\ libs'[k].whole \in BOOLEAN
      <3>1. SUFFICES ASSUME NEW k \in DOMAIN libs
                     PROVE  /\ libs'[k] = [whole |-> libs'[k].whole, config |-> libs'[k].config]
                            /\ libs'[k].whole \in BOOLEAN
        BY <1>4
      <3>2. CASE k = lib[p]
        <4>1. PICK config : libs'[k] = [whole |-> TRUE, config |-> config] BY <1>4, <3>2
        <4> QED BY <4>1
      <3>3. CASE k # lib[p]
        <4>1. libs'[k] = libs[k] BY <1>4, <3>3
        <4> QED BY <4>1 DEF DeploymentTypes
      <3> QED BY <3>2, <3>3
    <2> QED BY <1>0, <1>2, <1>4, <2>1 DEF DeploymentTypes, Goto, Labels
  <1>6. ModelWhole'
    BY <1>0, <1>1, <1>2 DEF DeploymentTypes, ModelWhole, Goto, HaveModel, Labels
  <1>7. LibrariesWhole'
    BY <1>0, <1>1, <1>2, <1>4 DEF DeploymentTypes, LibrariesWhole, Goto, Labels
  <1> QED BY <1>u, <1>5, <1>6, <1>7

\* Loading the model library keeps the invariant.
LEMMA LoadKeeps ==
  ASSUME DeploymentInv, NEW p \in Procs, Load(p), UNCHANGED <<inst, crashes>>
  PROVE  DeploymentInv'
PROOF
  <1> USE DEF DeploymentInv
  <1>u. Undisturbed' BY StaysUndisturbed
  <1>0. Procs' = Procs /\ Files' = Files BY DEF Procs, Files
  <1>1. /\ Goto(p, "running") \/ Goto(p, "failed")
        /\ UNCHANGED <<part, seen, dir, home, libs, lib>>
    BY DEF Load
  <1>2. pc[p] = "load" BY DEF Load
  <1>5. DeploymentTypes'
    BY <1>0, <1>1 DEF DeploymentTypes, Goto, Labels
  <1>6. ModelWhole'
    BY <1>0, <1>1, <1>2 DEF DeploymentTypes, ModelWhole, Goto, HaveModel, Labels
  <1>7. LibrariesWhole'
    BY <1>0, <1>1, <1>2 DEF DeploymentTypes, LibrariesWhole, Goto, Labels
  <1> QED BY <1>u, <1>5, <1>6, <1>7

\* A process that may crash does not copy: the directory it leaves is complete, or
\* is not there.
LEMMA CrashKeeps ==
  ASSUME DeploymentInv, NEW p \in Procs, Crash(p), UNCHANGED inst
  PROVE  DeploymentInv'
PROOF
  <1> USE DEF DeploymentInv
  <1>u. Undisturbed' BY StaysUndisturbed
  <1>0. Procs' = Procs /\ Files' = Files BY DEF Procs, Files
  <1>1. inst.same_fs
    <2>1. crashes \in Nat /\ crashes < inst.crashes BY DEF Crash, DeploymentTypes
    <2>2. inst.crashes # 0 BY <2>1
    <2> QED BY <2>2, OneOrNoDisturbance
  <1>2. \A q \in Procs : pc[q] # "copy" /\ pc[q] # "storing"
    BY <1>1 DEF ModelWhole, LibrariesWhole
  <1>5. DeploymentTypes'
    BY <1>0 DEF Crash, DeploymentTypes, Goto, Labels
  <1>6. ModelWhole'
    BY <1>0, <1>2 DEF Crash, DeploymentTypes, ModelWhole, Goto, HaveModel, Labels
  <1>7. LibrariesWhole'
    BY <1>0, <1>2 DEF Crash, DeploymentTypes, LibrariesWhole, Goto, Labels
  <1> QED BY <1>u, <1>5, <1>6, <1>7

-----------------------------------------------------------------------------

\* Steps of the processes, and steps of the engine that serves, which leave the
\* caches alone.
LEMMA NextKeeps ==
  ASSUME Undisturbed => DeploymentInv, [Next]_<<deployment, serving>>
  PROVE  (Undisturbed => DeploymentInv)'
PROOF
  <1>a. UNCHANGED inst
    BY DEF Next, deployment, DeploymentStep
  <1> SUFFICES ASSUME Undisturbed' PROVE DeploymentInv'
    OBVIOUS
  <1>b. DeploymentInv
    BY <1>a, StaysUndisturbed
  <1>1. CASE UNCHANGED deployment
    BY <1>1, <1>b DEF deployment, DeploymentInv, DeploymentTypes, ModelWhole, LibrariesWhole, Procs, Files
  <1>2. CASE \E p \in Procs : DeploymentStep(p)
    <2>1. PICK p \in Procs : DeploymentStep(p) BY <1>2
    <2>2. CASE Load(p) /\ UNCHANGED <<inst, chat, crashes>>
      BY <1>b, <2>2, LoadKeeps
    <2>3. CASE Crash(p) /\ UNCHANGED <<inst, chat, engine>>
      BY <1>b, <2>3, CrashKeeps
    <2>4. CASE ~ Load(p) /\ ~ Crash(p)
      BY <1>b, <2>1, <2>4, GetModelKeeps, CloneKeeps, DownloadFileKeeps, CheckMoveKeeps, MoveKeeps,
         CopyFileKeeps, JitKeeps, CompileKeeps, StoreKeeps, StoreRestKeeps DEF DeploymentStep
    <2> QED
      BY <2>2, <2>3, <2>4, <2>1 DEF DeploymentStep
  <1> QED BY <1>1, <1>2 DEF Next, deployment

\* With any number of shards, and of processes and crashes where the caches are on the
\* file system of the temporary directory and nobody deletes what others use, else for
\* one process that does not crash (Undisturbed): no process compiles from or loads a
\* directory of the cache that lacks a file (download_cache.py looks only whether the
\* directory exists), and no library is loaded that another process is still writing
\* (jit.py looks only whether the file exists).
THEOREM CachesAreWhole == Spec => []CachesWhole
PROOF
  <1>1. Init => (Undisturbed => DeploymentInv) BY InitHolds
  <1>2. (Undisturbed => DeploymentInv) /\ [Next]_<<deployment, serving>> => (Undisturbed => DeploymentInv)'
    BY NextKeeps
  <1>3. (Undisturbed => DeploymentInv) => CachesWhole BY InvImpliesWhole
  <1> QED BY <1>1, <1>2, <1>3, PTL DEF Spec
=============================================================================
