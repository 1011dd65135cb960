------------------------ MODULE WeightPipelineProofs ------------------------
(***************************************************************************)
(* Proofs about WeightPipeline, for every configuration, however many groups *)
(* of workers it has.  A worker files what its group scatters under the name *)
(* of the record it has come to by itself, so the properties rest on what the *)
(* positions of the workers say of each other: PipelineInv relates them to    *)
(* what worker 0 has handed on.  That a name stands for one record comes from *)
(* the conversion, which ticks off the parameters it has written.             *)
(***************************************************************************)
EXTENDS WeightPipeline, TLAPS, SequenceTheorems

StageSeq(n) == PipelineStages(config, cache[n].name)
NeedsAt(n, g) == Contains(StageSeq(n), g)

\* Worker 0 has handed record n to group g.
Sent(g, n) ==
  \/ n < pos[0]
  \/ n = pos[0] /\ \E k \in 1..(st - 1) : StageSeq(n)[k] = g

\* The first worker of group g holds a parameter that it has not scattered yet.
Holds(g) == full[g] # None

\* Of the records its group needs a worker has passed those that worker 0 has
\* handed on, but for the one its first worker still holds.
HandedOn ==
  \A w \in Workers \ {0}, n \in DOMAIN cache :
    NeedsAt(n, GroupId(w)) =>
      (Sent(GroupId(w), n) <=>
         n < pos[w] \/ (Holds(GroupId(w)) /\ n = pos[First(GroupId(w))]))

\* What the first worker of a group holds is the record it stands at, and no
\* worker of the group is further.
FullRight ==
  \A g \in Groups : Holds(g) =>
    /\ g # 0
    /\ pos[First(g)] \in DOMAIN cache /\ NeedsAt(pos[First(g)], g)
    /\ full[g] = <<cache[pos[First(g)]].data>>
    /\ \A w \in InGroup(g) : pos[w] <= pos[First(g)]

\* Nothing is loaded before the library is there.
Fresh ==
  /\ phase \in {"start", "convert", "compile"} =>
       /\ pos = [w \in Workers |-> 1] /\ st = 1
       /\ full = [g \in Groups |-> None]
       /\ held = [w \in Workers |-> <<>>]
  /\ phase = "start" => cache = <<>>

Records(r) == r \in Seq({r[n] : n \in DOMAIN r})
OwnNames(r) == \A m, n \in DOMAIN r : r[m].name = r[n].name => m = n

\* No two records have the same name: what is written is ticked off.
CacheRight ==
  /\ Records(cache) /\ OwnNames(cache)
  /\ phase = "convert" =>
       \A n \in DOMAIN cache, s \in named : Undivided(cache[n].name) # Undivided(s.name)

\* A worker's piece of the parameter of a name.
PieceOf(name, w) ==
  LET s == Info(name)
  IN  IF s.sharded /\ ~Alone /\ ~config.presharded
      THEN ShardFor(lib.fns, s, config.tp, DataOf(name), w % config.tp)
      ELSE DataOf(NameFor(s, w))

HeldRight ==
  \A w \in Workers : \A name \in DOMAIN held[w] : held[w][name] = PieceOf(name, w)

PipelineInv ==
  /\ TypeOK /\ Fresh /\ CacheRight /\ HeldRight
  /\ Scatters => HandedOn /\ FullRight

-----------------------------------------------------------------------------
(* Workers, groups, stages *)

\* Groups have tp workers each.
LEMMA GroupArithmetic ==
  ASSUME NEW t \in Nat \ {0}, NEW p \in Nat \ {0}
  PROVE  /\ \A w \in 0..(t * p - 1) : w \div t \in 0..(p - 1)
         /\ \A g \in 0..(p - 1) : g * t \in 0..(t * p - 1) /\ (g * t) \div t = g
         /\ 0 \div t = 0 /\ 0 * t = 0 /\ 0 \in 0..(t * p - 1)
  OBVIOUS

\* Every worker is in a group, and a group has its first worker.
LEMMA Places ==
  ASSUME config \in Configs
  PROVE  /\ \A w \in Workers : GroupId(w) \in Groups /\ w \in InGroup(GroupId(w))
         /\ \A g \in Groups : /\ First(g) \in Workers /\ GroupId(First(g)) = g
                              /\ First(g) \in InGroup(g)
         /\ 0 \in Workers /\ GroupId(0) = 0 /\ First(0) = 0 /\ 0 \in Groups
         /\ Groups \subseteq Int /\ Workers \subseteq Int
  <1>1. config.tp \in Nat \ {0} /\ config.pp \in Nat \ {0}
    BY ConfigsAssumption
  <1> QED
    <2> PICK t \in Nat \ {0}, p \in Nat \ {0} : t = config.tp /\ p = config.pp
      BY <1>1
    <2>1. /\ \A w \in 0..(t * p - 1) : w \div t \in 0..(p - 1)
          /\ \A g \in 0..(p - 1) : g * t \in 0..(t * p - 1) /\ (g * t) \div t = g
          /\ 0 \div t = 0 /\ 0 * t = 0 /\ 0 \in 0..(t * p - 1)
      BY GroupArithmetic
    <2>2. \A w : GroupId(w) = w \div t
      BY DEF GroupId
    <2>3. \A g : First(g) = g * t
      BY DEF First
    <2>4. Workers = 0..(t * p - 1) /\ Groups = 0..(p - 1)
      BY DEF Workers, Groups
    <2>5. \A w, g : w \in InGroup(g) <=> w \in Workers /\ GroupId(w) = g
      BY DEF InGroup
    <2>6. \A w \in Workers : GroupId(w) \in Groups
      BY <2>1, <2>2, <2>4
    <2>7. \A g \in Groups : First(g) \in Workers /\ GroupId(First(g)) = g
      BY <2>1, <2>2, <2>3, <2>4
    <2>8. 0 \in Workers /\ GroupId(0) = 0 /\ First(0) = 0 /\ 0 \in Groups
      BY <2>1, <2>2, <2>3, <2>4
    <2>9. Groups \subseteq Int /\ Workers \subseteq Int
      BY <2>4
    <2>10. \A w \in Workers : w \in InGroup(GroupId(w))
      BY <2>5
    <2>11. \A g \in Groups : First(g) \in InGroup(g)
      BY <2>5, <2>7
    <2> QED
      BY <2>6, <2>7, <2>8, <2>9, <2>10, <2>11

\* A record is for one stage or for all of them, never twice for the same.
LEMMA StageFacts ==
  ASSUME config \in Configs
  PROVE  \A n : /\ Len(StageSeq(n)) \in 1..config.pp
                /\ DOMAIN StageSeq(n) = 1..Len(StageSeq(n))
                /\ \A i, j \in 1..Len(StageSeq(n)) :
                     StageSeq(n)[i] = StageSeq(n)[j] => i = j
  <1>1. config.pp \in Nat \ {0}
    BY ConfigsAssumption
  <1> TAKE n
  <1> PICK name : name = cache[n].name
    OBVIOUS
  <1>2. ASSUME NEW x, StageSeq(n) = <<x>>
        PROVE  /\ Len(StageSeq(n)) \in 1..config.pp
               /\ DOMAIN StageSeq(n) = 1..Len(StageSeq(n))
               /\ \A i, j \in 1..Len(StageSeq(n)) : StageSeq(n)[i] = StageSeq(n)[j] => i = j
    BY <1>1, <1>2
  <1>3. CASE config.pp = 1
    <2>1. StageSeq(n) = <<0>>
      BY <1>1, <1>3 DEF StageSeq, PipelineStages
    <2> QED
      BY <1>2, <2>1
  <1>4. CASE config.pp > 1 /\ name.layer < config.layers
    <2>1. StageSeq(n) = <<name.layer \div (config.layers \div config.pp)>>
      BY <1>1, <1>4 DEF StageSeq, PipelineStages
    <2> QED
      BY <1>2, <2>1
  <1>6. CASE config.pp > 1 /\ ~(name.layer < config.layers) /\ name.param = "norm"
    <2>1. StageSeq(n) = <<config.pp - 1>>
      BY <1>1, <1>6 DEF StageSeq, PipelineStages
    <2> QED
      BY <1>2, <2>1
  <1>5. CASE config.pp > 1 /\ ~(name.layer < config.layers) /\ name.param # "norm"
    <2>1. StageSeq(n) = [k \in 1..config.pp |-> k - 1]
      BY <1>1, <1>5 DEF StageSeq, PipelineStages
    <2> QED
      BY <1>1, <2>1
  <1> QED
    BY <1>1, <1>3, <1>4, <1>5, <1>6

-----------------------------------------------------------------------------
(* Conversion *)

\* Records of a part of parameter e.
MadeOf(r, e, part) ==
  \A n \in DOMAIN r : Undivided(r[n].name) = PartName(e, part) /\ r[n].name.part = part

\* A function on the first numbers is a sequence.
LEMMA IsSequence ==
  ASSUME NEW r, NEW n \in Nat, NEW f, r = [k \in 1..n |-> f[k]]
  PROVE  Records(r) /\ DOMAIN r = 1..n
  <1>1. DOMAIN r = 1..n
    OBVIOUS
  <1>2. r \in [1..n -> {r[k] : k \in DOMAIN r}]
    BY <1>1
  <1> QED
    BY <1>1, <1>2 DEF Records

\* The name of a part with a shard.
LEMMA ShardNames ==
  ASSUME NEW a, NEW b, NEW p, NEW x, NEW base, NEW y,
         base = [layer |-> a, param |-> b, part |-> p, shard |-> -1],
         y = [base EXCEPT !.shard = x]
  PROVE  y.shard = x /\ y.part = p /\ Undivided(y) = base
  <1>1. y = [layer |-> a, param |-> b, part |-> p, shard |-> x]
    OBVIOUS
  <1> PICK m, z : m = -1 /\ z = [y EXCEPT !.shard = m]
    OBVIOUS
  <1>2. z = [layer |-> a, param |-> b, part |-> p, shard |-> m]
    BY <1>1
  <1>3. z = base
    BY <1>2
  <1>4. Undivided(y) = z
    BY DEF Undivided
  <1> QED
    BY <1>1, <1>3, <1>4

\* Names with different shards are different.
LEMMA ShardsTellApart ==
  ASSUME NEW r, NEW N \in Nat, DOMAIN r = 1..N, \A k \in 1..N : r[k].name.shard = k - 1
  PROVE  OwnNames(r)
  BY DEF OwnNames

\* The records of a part have names of their own, which differ from its name in
\* the shard only.
LEMMA PartRecords ==
  ASSUME NEW e, NEW part, config \in Configs, NEW r, r = RecordsOf(config, e, part)
  PROVE  Records(r) /\ OwnNames(r) /\ MadeOf(r, e, part)
  <1>1. config.preshard \in Nat
    BY ConfigsAssumption
  <1> PICK base : base = PartName(e, part)
    OBVIOUS
  <1>2. base = [layer |-> e.layer, param |-> e.p.name, part |-> part, shard |-> -1]
    BY DEF PartName
  <1>3. CASE KeptWhole(e, part)
    <2>1. r = <<[name |-> base, data |-> TensorOf(config, e, part)]>>
      BY <1>3 DEF RecordsOf
    <2>2. DOMAIN r = {1} /\ r[1].name = base
      BY <2>1
    <2>3. Records(r)
      BY <2>1 DEF Records
    <2>4. Undivided(base) = base
      BY <1>2 DEF Undivided
    <2>5. base.part = part
      BY <1>2
    <2>6. MadeOf(r, e, part)
      BY <2>2, <2>4, <2>5 DEF MadeOf
    <2> QED
      BY <2>2, <2>3, <2>6 DEF OwnNames
  <1>4. CASE ~KeptWhole(e, part)
    <2> PICK s : s = CHOOSE x \in ParamsFor(e, part) : TRUE
      OBVIOUS
    <2> PICK N \in Nat : N = config.preshard
      BY <1>1
    <2>11. PICK name : name = [k \in 1..N |-> [base EXCEPT !.shard = k - 1]]
      OBVIOUS
    <2>12. PICK data : data = [k \in 1..N |->
                       ShardFor(preshard_funcs, s, N, TensorOf(config, e, part), k - 1)]
      OBVIOUS
    <2>13. PICK f : f = [k \in 1..N |-> [name |-> name[k], data |-> data[k]]]
      OBVIOUS
    <2>1. r = [k \in 1..N |->
                 [name |-> [base EXCEPT !.shard = k - 1],
                  data |-> ShardFor(preshard_funcs, s, N, TensorOf(config, e, part), k - 1)]]
      BY <1>4 DEF RecordsOf
    <2>2. r = f
      BY <2>1, <2>11, <2>12, <2>13
    <2>3. Records(r) /\ DOMAIN r = 1..N
      BY <2>2, <2>13, IsSequence
    <2>4. \A k \in 1..N : r[k].name = name[k]
      BY <2>2, <2>13
    <2>5. \A k \in 1..N : name[k].shard = k - 1 /\ name[k].part = part /\ Undivided(name[k]) = base
      <3> TAKE k \in 1..N
      <3>1. PICK y : y = [base EXCEPT !.shard = k - 1]
        OBVIOUS
      <3>2. name[k] = y
        BY <2>11, <3>1, Zenon
      <3>3. y.shard = k - 1 /\ y.part = part /\ Undivided(y) = base
        BY <1>2, <3>1, ShardNames
      <3> QED
        BY <3>2, <3>3
    <2>6. \A k \in 1..N : /\ r[k].name.shard = k - 1 /\ r[k].name.part = part
                          /\ Undivided(r[k].name) = base
      <3> TAKE k \in 1..N
      <3> QED
        BY <2>4, <2>5
    <2>7. OwnNames(r)
      BY <2>3, <2>6, ShardsTellApart
    <2>8. MadeOf(r, e, part)
      BY <2>3, <2>6, Zenon DEF MadeOf
    <2> QED
      BY <2>3, <2>7, <2>8
  <1> QED
    BY <1>3, <1>4

\* The places of two sequences put together.
LEMMA Together ==
  ASSUME NEW s, NEW t, Records(s), Records(t)
  PROVE  /\ Records(s \o t)
         /\ \A n \in DOMAIN (s \o t) :
              \/ n \in DOMAIN s /\ (s \o t)[n] = s[n]
              \/ n - Len(s) \in DOMAIN t /\ (s \o t)[n] = t[n - Len(s)] /\ n \notin DOMAIN s
  <1> PICK S : s \in Seq(S) /\ t \in Seq(S)
    <2> DEFINE A == {s[n] : n \in DOMAIN s}
               B == {t[n] : n \in DOMAIN t}
    <2>1. s \in Seq(A) /\ t \in Seq(B)
      BY DEF Records
    <2>2. s \in Seq(A \cup B) /\ t \in Seq(A \cup B)
      BY <2>1
    <2> QED
      BY <2>2
  <1> PICK u : u = s \o t
    OBVIOUS
  <1>1. u \in Seq(S)
    OBVIOUS
  <1> PICK N \in Nat : N = Len(u)
    BY <1>1
  <1>2. u = [k \in 1..N |-> u[k]]
    <2>1. u \in [1..N -> S]
      BY <1>1, LenProperties
    <2> QED
      BY <2>1
  <1>3. Records(u)
    BY <1>2, IsSequence
  <1>4. \A n \in DOMAIN u :
           \/ n \in DOMAIN s /\ u[n] = s[n]
           \/ n - Len(s) \in DOMAIN t /\ u[n] = t[n - Len(s)] /\ n \notin DOMAIN s
    OBVIOUS
  <1> QED
    BY <1>3, <1>4

\* Names that are different on both sides stay so when the sequences are put together.
LEMMA NamesTogether ==
  ASSUME NEW s, NEW t, Records(s), Records(t), OwnNames(s), OwnNames(t),
         \A m \in DOMAIN s, n \in DOMAIN t : s[m].name # t[n].name
  PROVE  OwnNames(s \o t)
  <1> PICK u : u = s \o t
    OBVIOUS
  <1>1. DOMAIN u \subseteq Int /\ Len(s) \in Int
    <2>1. Records(u)
      BY Together
    <2> QED
      BY <2>1 DEF Records
  <1>2. \A n \in DOMAIN u :
           \/ n \in DOMAIN s /\ u[n] = s[n]
           \/ n - Len(s) \in DOMAIN t /\ u[n] = t[n - Len(s)] /\ n \notin DOMAIN s
    BY Together
  <1>3. ASSUME NEW m \in DOMAIN u, NEW n \in DOMAIN u, u[m].name = u[n].name
        PROVE  m = n
    BY <1>1, <1>2, <1>3 DEF OwnNames
  <1> QED
    BY <1>3 DEF OwnNames

\* A weight that is not quantized is one tensor.
LEMMA OnePart ==
  ASSUME NEW part, NEW parts, parts = <<part>>
  PROVE  1 \in DOMAIN parts /\ Len(parts) = 1
  OBVIOUS

\* What converting a parameter adds has names of its own, all of parameters that
\* were expected and are not any more.
LEMMA ConvertedRecords ==
  ASSUME NEW e, config \in Configs, NEW new, new = Converted(config, e),
         NEW r, r = new.records
  PROVE  /\ Records(r) /\ OwnNames(r)
         /\ \A n \in DOMAIN r :
              /\ \E s \in named : Undivided(r[n].name) = Undivided(s.name)
              /\ \A s \in named \ new.done : Undivided(r[n].name) # Undivided(s.name)
  <1> PICK parts : parts = PartsOf(config, e.p)
    OBVIOUS
  <1> DEFINE fits == \A n \in DOMAIN parts : PartFits(config, e, parts[n])
  <1>1. /\ r = IF ~fits THEN <<>>
               ELSE IF Len(parts) = 1 THEN RecordsOf(config, e, parts[1])
               ELSE RecordsOf(config, e, parts[1]) \o RecordsOf(config, e, parts[2])
        /\ new.done = UNION {ParamsFor(e, parts[n]) : n \in DOMAIN parts}
    BY DEF Converted
  <1>2. parts = <<"">> \/ parts = <<"q_weight", "q_scale">>
    BY DEF PartsOf
  <1>3. ASSUME NEW n \in DOMAIN parts, NEW name, Undivided(name) = PartName(e, parts[n])
        PROVE  \A s \in named \ new.done : Undivided(name) # Undivided(s.name)
    BY <1>1, <1>3 DEF ParamsFor
  <1>4. ASSUME NEW n \in DOMAIN parts, NEW name, Undivided(name) = PartName(e, parts[n]),
               ParamsFor(e, parts[n]) # {}
        PROVE  \E s \in named : Undivided(name) = Undivided(s.name)
    BY <1>4 DEF ParamsFor
  <1>5. CASE ~fits
    <2>1. r = <<>>
      BY <1>1, <1>5
    <2>2. Records(r) /\ DOMAIN r = {}
      BY <2>1 DEF Records
    <2> QED
      BY <2>2 DEF OwnNames
  <1>6. CASE fits /\ parts = <<"">>
    <2>6. parts = <<"">>
      BY <1>6
    <2>1. 1 \in DOMAIN parts /\ Len(parts) = 1
      BY <2>6, OnePart, Zenon
    <2>5. ParamsFor(e, parts[1]) # {}
      BY <1>6, <2>1 DEF PartFits
    <2>2. r = RecordsOf(config, e, parts[1])
      BY <1>1, <1>6, <2>1
    <2>3. Records(r) /\ OwnNames(r) /\ MadeOf(r, e, parts[1])
      BY <2>2, PartRecords
    <2>4. \A n \in DOMAIN r : /\ \E s \in named : Undivided(r[n].name) = Undivided(s.name)
                              /\ \A s \in named \ new.done : Undivided(r[n].name) # Undivided(s.name)
      BY <1>3, <1>4, <2>1, <2>3, <2>5 DEF MadeOf
    <2> QED
      BY <2>3, <2>4
  <1>7. CASE fits /\ parts = <<"q_weight", "q_scale">>
    <2>1. /\ 1 \in DOMAIN parts /\ 2 \in DOMAIN parts /\ parts[1] # parts[2] /\ Len(parts) # 1
      BY <1>7
    <2>2. /\ ParamsFor(e, parts[1]) # {} /\ ParamsFor(e, parts[2]) # {}
      BY <1>7, <2>1 DEF PartFits
    <2> PICK r1, r2 : r1 = RecordsOf(config, e, parts[1]) /\ r2 = RecordsOf(config, e, parts[2])
      OBVIOUS
    <2>3. /\ Records(r1) /\ OwnNames(r1) /\ MadeOf(r1, e, parts[1])
          /\ Records(r2) /\ OwnNames(r2) /\ MadeOf(r2, e, parts[2])
      BY PartRecords
    <2>4. r = r1 \o r2
      BY <1>1, <1>7, <2>1
    <2>5. \A m \in DOMAIN r1, n \in DOMAIN r2 : r1[m].name # r2[n].name
      BY <2>1, <2>3 DEF MadeOf
    <2>6. OwnNames(r)
      BY <2>3, <2>4, <2>5, NamesTogether
    <2>7. /\ Records(r)
          /\ \A n \in DOMAIN r : \/ n \in DOMAIN r1 /\ r[n] = r1[n]
                                 \/ n - Len(r1) \in DOMAIN r2 /\ r[n] = r2[n - Len(r1)]
      BY <2>3, <2>4, Together
    <2>8. \A n \in DOMAIN r : \/ Undivided(r[n].name) = PartName(e, parts[1])
                              \/ Undivided(r[n].name) = PartName(e, parts[2])
      BY <2>3, <2>7 DEF MadeOf
    <2>9. \A n \in DOMAIN r : /\ \E s \in named : Undivided(r[n].name) = Undivided(s.name)
                              /\ \A s \in named \ new.done : Undivided(r[n].name) # Undivided(s.name)
      BY <1>3, <1>4, <2>1, <2>2, <2>8
    <2> QED
      BY <2>6, <2>7, <2>9
  <1> QED
    BY <1>2, <1>5, <1>6, <1>7

-----------------------------------------------------------------------------
(* The invariant before the library is loaded *)

\* A sequence of records is as long as its domain.
LEMMA RecordsLength ==
  ASSUME NEW r, Records(r)
  PROVE  Len(r) \in Nat /\ DOMAIN r = 1..Len(r)
  BY LenProperties DEF Records

\* The invariant holds at first.
LEMMA InitInv == Init => PipelineInv
  <1> SUFFICES ASSUME Init PROVE PipelineInv
    OBVIOUS
  <1>1. config.tp \in Nat \ {0} /\ config.pp \in Nat \ {0}
    BY ConfigsAssumption DEF Init
  <1>2. cache = <<>> /\ phase = "start"
    BY DEF Init
  <1>3. Records(cache) /\ DOMAIN cache = {} /\ Len(cache) = 0
    BY <1>2 DEF Records
  <1>4. TypeOK
    BY <1>1, <1>3 DEF Init, TypeOK
  <1>5. Fresh
    BY DEF Init, Fresh
  <1>6. CacheRight
    BY <1>3 DEF CacheRight, OwnNames
  <1>7. HeldRight
    BY DEF Init, HeldRight
  <1> QED
    BY <1>2, <1>4, <1>5, <1>6, <1>7 DEF PipelineInv, Scatters

\* What a step leaves alone before the library is there.
NotLoading ==
  /\ config' = config /\ lib' = lib
  /\ pos' = pos /\ st' = st /\ full' = full /\ held' = held

\* Nothing has been loaded yet, so that the records may change.
LEMMA StillFresh ==
  ASSUME TypeOK, Fresh, NotLoading, phase \in {"start", "convert", "compile"},
         phase' \in {"convert", "compile", "failed"}, Records(cache')
  PROVE  TypeOK' /\ Fresh' /\ HeldRight'
  <1>1. /\ pos = [w \in Workers |-> 1] /\ st = 1
        /\ full = [g \in Groups |-> None] /\ held = [w \in Workers |-> <<>>]
    BY DEF Fresh
  <1>2. Workers' = Workers /\ Groups' = Groups
    BY DEF Workers, Groups, NotLoading
  <1>3. Len(cache') \in Nat
    BY RecordsLength
  <1>4. pos' \in [Workers -> 1..(Len(cache') + 1)]
    BY <1>1, <1>3 DEF NotLoading
  <1>5. TypeOK'
    BY <1>2, <1>4 DEF TypeOK, NotLoading
  <1>6. Fresh'
    BY <1>1, <1>2 DEF Fresh, NotLoading
  <1>7. HeldRight'
    BY <1>1, <1>2 DEF HeldRight, NotLoading
  <1> QED
    BY <1>5, <1>6, <1>7

\* Nothing is written when conversion starts.
LEMMA StartConvertKeeps == PipelineInv /\ StartConvert => PipelineInv'
  <1> SUFFICES ASSUME PipelineInv, StartConvert PROVE PipelineInv'
    OBVIOUS
  <1>1. phase = "start" /\ phase' \in {"convert", "failed"} /\ cache' = cache /\ NotLoading
    BY DEF StartConvert, Fail, given, loading, NotLoading
  <1>2. cache = <<>>
    BY <1>1 DEF PipelineInv, Fresh
  <1>3. Records(cache') /\ DOMAIN cache' = {}
    BY <1>1, <1>2 DEF Records
  <1>4. TypeOK' /\ Fresh' /\ HeldRight'
    BY <1>1, <1>3, StillFresh DEF PipelineInv
  <1>5. CacheRight'
    BY <1>3 DEF CacheRight, OwnNames
  <1> QED
    BY <1>1, <1>4, <1>5 DEF PipelineInv, Scatters

\* A converted parameter gets names that no record has yet.
LEMMA ConvertParamKeeps == PipelineInv /\ ConvertParam => PipelineInv'
  <1> SUFFICES ASSUME PipelineInv, ConvertParam PROVE PipelineInv'
    OBVIOUS
  <1>1. PICK e, new, r : e = Head(todo) /\ new = Converted(config, e) /\ r = new.records
    OBVIOUS
  <1>2. /\ phase = "convert" /\ phase' \in {"convert", "failed"}
        /\ cache' = cache \o r /\ named' = named \ new.done /\ NotLoading
    BY <1>1 DEF ConvertParam, given, loading, NotLoading
  <1>3. /\ Records(r) /\ OwnNames(r)
        /\ \A n \in DOMAIN r :
             /\ \E s \in named : Undivided(r[n].name) = Undivided(s.name)
             /\ \A s \in named \ new.done : Undivided(r[n].name) # Undivided(s.name)
    <2>1. config \in Configs
      BY DEF PipelineInv, TypeOK
    <2> QED
      BY <1>1, <2>1, ConvertedRecords
  <1>4. /\ Records(cache) /\ OwnNames(cache)
        /\ \A n \in DOMAIN cache, s \in named : Undivided(cache[n].name) # Undivided(s.name)
    BY <1>2 DEF PipelineInv, CacheRight
  <1>5. /\ Records(cache')
        /\ \A n \in DOMAIN cache' : \/ n \in DOMAIN cache /\ cache'[n] = cache[n]
                                    \/ n - Len(cache) \in DOMAIN r /\ cache'[n] = r[n - Len(cache)]
    <2> PICK u : u = cache \o r
      OBVIOUS
    <2>1. /\ Records(u)
          /\ \A n \in DOMAIN u : \/ n \in DOMAIN cache /\ u[n] = cache[n]
                                 \/ n - Len(cache) \in DOMAIN r /\ u[n] = r[n - Len(cache)]
      BY <1>3, <1>4, Together
    <2> QED
      BY <1>2, <2>1
  <1>6. \A m \in DOMAIN cache, n \in DOMAIN r : cache[m].name # r[n].name
    BY <1>3, <1>4
  <1>7. OwnNames(cache')
    BY <1>2, <1>3, <1>4, <1>6, NamesTogether
  <1>8. \A n \in DOMAIN cache', s \in named' : Undivided(cache'[n].name) # Undivided(s.name)
    BY <1>2, <1>3, <1>4, <1>5
  <1>9. TypeOK' /\ Fresh' /\ HeldRight'
    BY <1>2, <1>5, StillFresh DEF PipelineInv
  <1>10. CacheRight'
    BY <1>5, <1>7, <1>8 DEF CacheRight
  <1> QED
    BY <1>2, <1>9, <1>10 DEF PipelineInv, Scatters

\* The records stay as they are when conversion ends.
LEMMA EndConvertKeeps == PipelineInv /\ EndConvert => PipelineInv'
  <1> SUFFICES ASSUME PipelineInv, EndConvert PROVE PipelineInv'
    OBVIOUS
  <1>1. phase = "convert" /\ phase' \in {"compile", "failed"} /\ cache' = cache /\ NotLoading
    BY DEF EndConvert, Fail, given, loading, NotLoading
  <1>2. Records(cache') /\ OwnNames(cache')
    BY <1>1 DEF PipelineInv, CacheRight
  <1>3. TypeOK' /\ Fresh' /\ HeldRight'
    BY <1>1, <1>2, StillFresh DEF PipelineInv
  <1> QED
    BY <1>1, <1>2, <1>3 DEF PipelineInv, CacheRight, Scatters

\* When the library is there every worker stands before the first record.
LEMMA CompileKeeps == PipelineInv /\ Compile => PipelineInv'
  <1> SUFFICES ASSUME PipelineInv, Compile PROVE PipelineInv'
    OBVIOUS
  <1>1. /\ phase = "compile" /\ phase' \in {"load", "failed"}
        /\ config' = config /\ cache' = cache
        /\ pos' = pos /\ st' = st /\ full' = full /\ held' = held
    BY DEF Compile, Fail, given, conversion, loading
  <1>2. /\ pos = [w \in Workers |-> 1] /\ st = 1
        /\ full = [g \in Groups |-> None] /\ held = [w \in Workers |-> <<>>]
    BY <1>1 DEF PipelineInv, Fresh
  <1>3. Workers' = Workers /\ Groups' = Groups
    BY <1>1 DEF Workers, Groups
  <1>4. TypeOK'
    BY <1>1, <1>3 DEF PipelineInv, TypeOK
  <1>5. Fresh'
    BY <1>1 DEF Fresh
  <1>6. HeldRight'
    BY <1>1, <1>2, <1>3 DEF HeldRight
  <1>7. Records(cache') /\ OwnNames(cache')
    BY <1>1 DEF PipelineInv, CacheRight
  <1>8. CacheRight'
    BY <1>1, <1>7 DEF CacheRight
  <1>9. FullRight'
    BY <1>1, <1>2, <1>3 DEF FullRight, Holds
  <1>10. HandedOn'
    <2>1. DOMAIN cache' = 1..Len(cache')
      BY <1>7, RecordsLength
    <2>2. Len(cache') \in Nat
      BY <1>7, RecordsLength
    <2>3. 0 \in Workers /\ \A w \in Workers : GroupId(w) \in Groups
      BY Places DEF PipelineInv, TypeOK
    <2>4. \A g \in Groups, n \in DOMAIN cache' : ~Sent(g, n)'
      BY <1>1, <1>2, <2>1, <2>2, <2>3 DEF Sent
    <2>5. \A w \in Workers, n \in DOMAIN cache' : ~(n < pos'[w]) /\ ~(Holds(GroupId(w)))'
      BY <1>1, <1>2, <2>1, <2>2, <2>3 DEF Holds, GroupId
    <2>6. \A w \in Workers : GroupId(w)' = GroupId(w)
      BY <1>1 DEF GroupId
    <2> QED
      BY <1>3, <2>3, <2>4, <2>5, <2>6 DEF HandedOn
  <1> QED
    BY <1>4, <1>5, <1>6, <1>8, <1>9, <1>10 DEF PipelineInv

-----------------------------------------------------------------------------
(* The invariant while the workers load *)

\* What every step of loading leaves alone.
NotConverting == config' = config /\ cache' = cache /\ lib' = lib

\* The steps of loading keep what is read of the records and the library.
LEMMA CacheStays ==
  ASSUME PipelineInv, NotConverting, phase = "load",
         phase' \in {"load", "ready", "failed"}
  PROVE  /\ CacheRight' /\ Fresh'
         /\ Workers' = Workers /\ Groups' = Groups
         /\ \A w : GroupId(w)' = GroupId(w)
         /\ \A g : First(g)' = First(g) /\ InGroup(g)' = InGroup(g)
         /\ \A n, g : NeedsAt(n, g)' = NeedsAt(n, g) /\ StageSeq(n)' = StageSeq(n)
         /\ \A name, w : PieceOf(name, w)' = PieceOf(name, w)
  <1>1. Records(cache') /\ OwnNames(cache')
    BY DEF PipelineInv, CacheRight, NotConverting
  <1>2. CacheRight' /\ Fresh'
    BY <1>1 DEF CacheRight, Fresh
  <1>3. Workers' = Workers /\ Groups' = Groups
    BY DEF Workers, Groups, NotConverting
  <1>4. /\ \A w : GroupId(w)' = GroupId(w)
        /\ \A g : First(g)' = First(g)
    BY DEF GroupId, First, NotConverting
  <1>5. \A g : InGroup(g)' = InGroup(g)
    BY <1>3, <1>4 DEF InGroup
  <1>6. \A n : StageSeq(n)' = StageSeq(n)
    BY DEF StageSeq, PipelineStages, NotConverting
  <1>7. \A n, g : NeedsAt(n, g)' = NeedsAt(n, g)
    BY <1>6 DEF NeedsAt
  <1>8. \A name, w : PieceOf(name, w)' = PieceOf(name, w)
    BY DEF PieceOf, Info, Alone, ShardFor, DataOf, NameFor, NotConverting
  <1> QED
    BY <1>2, <1>3, <1>4, <1>5, <1>6, <1>7, <1>8

\* Steps that change the phase only.
LEMMA EndsKeep ==
  ASSUME PipelineInv, phase = "load", phase' \in {"ready", "failed"},
         NotConverting, pos' = pos, st' = st, full' = full, held' = held
  PROVE  PipelineInv'
  <1>1. /\ CacheRight' /\ Fresh' /\ Workers' = Workers /\ Groups' = Groups
        /\ \A name, w : PieceOf(name, w)' = PieceOf(name, w)
    BY CacheStays
  <1>2. TypeOK'
    BY <1>1 DEF PipelineInv, TypeOK, NotConverting
  <1>3. HeldRight'
    BY <1>1 DEF PipelineInv, HeldRight
  <1> QED
    BY <1>1, <1>2, <1>3 DEF PipelineInv, Scatters

\* One worker takes all its parameters by name.
LEMMA ByNameKeeps ==
  ASSUME PipelineInv, phase = "load", NEW w \in Workers, Alone \/ config.presharded,
         TakeByName(w), pos' = [pos EXCEPT ![w] = Len(cache) + 1],
         NotConverting, st' = st, full' = full
  PROVE  PipelineInv'
  <1>1. phase' \in {"load", "failed"}
    BY DEF TakeByName, Fail
  <1>2. /\ CacheRight' /\ Fresh' /\ Workers' = Workers /\ Groups' = Groups
        /\ \A name, v : PieceOf(name, v)' = PieceOf(name, v)
    BY <1>1, CacheStays
  <1>3. Len(cache) \in Nat
    BY RecordsLength DEF PipelineInv, CacheRight
  <1>4. DOMAIN held = Workers
    BY DEF PipelineInv, TypeOK
  <1>5. DOMAIN held' = Workers
    BY <1>4 DEF TakeByName
  <1>6. pos' \in [Workers -> 1..(Len(cache) + 1)]
    BY <1>3 DEF PipelineInv, TypeOK
  <1>7. TypeOK'
    BY <1>1, <1>2, <1>5, <1>6 DEF PipelineInv, TypeOK, NotConverting
  <1>8. \A name : PieceOf(name, w) = DataOf(NameFor(Info(name), w))
    BY DEF PieceOf
  <1>9. \/ held' = held
        \/ held' = [held EXCEPT ![w] = [n \in {s.name : s \in Wanted(GroupId(w))} |->
                                          DataOf(NameFor(Info(n), w))]]
    BY DEF TakeByName
  <1>10. HeldRight'
    BY <1>2, <1>4, <1>8, <1>9 DEF PipelineInv, HeldRight
  <1>11. ~Scatters'
    BY DEF Scatters, Alone, NotConverting
  <1> QED
    BY <1>2, <1>7, <1>10, <1>11 DEF PipelineInv

\* The facts about groups and positions that the steps of the workers need.
LEMMA ScatterFacts ==
  ASSUME PipelineInv, Scatters
  PROVE  /\ phase = "load" /\ HandedOn /\ FullRight
         /\ Len(cache) \in Nat /\ DOMAIN cache = 1..Len(cache)
         /\ pos \in [Workers -> 1..(Len(cache) + 1)] /\ st \in Nat \ {0}
         /\ DOMAIN full = Groups /\ DOMAIN held = Workers
         /\ \A w \in Workers : AtRecord(w) <=> pos[w] \in DOMAIN cache
         /\ \A w \in Workers : Needs(w) <=> AtRecord(w) /\ NeedsAt(pos[w], GroupId(w))
         /\ \A n \in DOMAIN cache, g \in Groups : NeedsAt(n, g) => \E k \in 1..Len(StageSeq(n)) : StageSeq(n)[k] = g
  <1>1. phase = "load" /\ HandedOn /\ FullRight /\ TypeOK /\ CacheRight
    BY DEF PipelineInv, Scatters
  <1>2. Len(cache) \in Nat /\ DOMAIN cache = 1..Len(cache)
    BY <1>1, RecordsLength DEF CacheRight
  <1>3. /\ pos \in [Workers -> 1..(Len(cache) + 1)] /\ st \in Nat \ {0}
        /\ DOMAIN full = Groups /\ DOMAIN held = Workers
    BY <1>1 DEF TypeOK
  <1>4. \A w \in Workers : AtRecord(w) <=> pos[w] \in DOMAIN cache
    BY <1>2, <1>3 DEF AtRecord
  <1>5. \A w \in Workers : Needs(w) <=> AtRecord(w) /\ NeedsAt(pos[w], GroupId(w))
    BY DEF Needs, NeedsAt, Stages, StageSeq, NameAt
  <1>6. \A n \in DOMAIN cache, g \in Groups :
           NeedsAt(n, g) => \E k \in 1..Len(StageSeq(n)) : StageSeq(n)[k] = g
    BY DEF NeedsAt, Contains
  <1> QED
    BY <1>1, <1>2, <1>3, <1>4, <1>5, <1>6

\* A record that is passed over is not one its group has been handed.
LEMMA SkipKeeps ==
  ASSUME PipelineInv, NEW w \in Workers, Skip(w)
  PROVE  PipelineInv'
  <1>1. /\ Scatters /\ w # 0 /\ AtRecord(w) /\ ~Needs(w)
        /\ pos' = [pos EXCEPT ![w] = @ + 1]
        /\ phase' = phase /\ NotConverting /\ st' = st /\ full' = full /\ held' = held
    BY DEF Skip, CanSkip, given, conversion, NotConverting
  <1>2. /\ phase = "load" /\ HandedOn /\ FullRight
        /\ Len(cache) \in Nat /\ DOMAIN cache = 1..Len(cache)
        /\ pos \in [Workers -> 1..(Len(cache) + 1)]
        /\ pos[w] \in DOMAIN cache /\ ~NeedsAt(pos[w], GroupId(w))
    BY <1>1, ScatterFacts
  <1>3. /\ CacheRight' /\ Fresh' /\ Workers' = Workers /\ Groups' = Groups
        /\ \A v : GroupId(v)' = GroupId(v)
        /\ \A g : First(g)' = First(g) /\ InGroup(g)' = InGroup(g)
        /\ \A n, g : NeedsAt(n, g)' = NeedsAt(n, g) /\ StageSeq(n)' = StageSeq(n)
        /\ \A name, v : PieceOf(name, v)' = PieceOf(name, v)
    BY <1>1, <1>2, CacheStays
  <1>4. TypeOK'
    BY <1>1, <1>2, <1>3 DEF PipelineInv, TypeOK, NotConverting
  <1>5. HeldRight'
    BY <1>1, <1>3 DEF PipelineInv, HeldRight
  <1>6. /\ 0 \in Workers /\ \A v \in Workers : GroupId(v) \in Groups /\ v \in InGroup(GroupId(v))
        /\ \A g \in Groups : First(g) \in Workers /\ GroupId(First(g)) = g
        /\ \A g, v : v \in InGroup(g) => v \in Workers /\ GroupId(v) = g
    BY Places DEF PipelineInv, TypeOK, InGroup
  <1>7. \A g, n : Sent(g, n)' = Sent(g, n)
    BY <1>1, <1>2, <1>3, <1>6 DEF Sent
  <1>8. \A g : Holds(g)' = Holds(g)
    BY <1>1 DEF Holds
  <1>9. \A g \in Groups : Holds(g) => First(g) # w
    BY <1>2, <1>6 DEF FullRight
  <1>10. \A v \in Workers : pos'[v] = IF v = w THEN pos[v] + 1 ELSE pos[v]
    BY <1>1, <1>2
  <1>11. \A g \in Groups : Holds(g) => pos'[First(g)] = pos[First(g)]
    BY <1>6, <1>9, <1>10
  <1>12. HandedOn'
    <2> SUFFICES ASSUME NEW v \in Workers \ {0}, NEW n \in DOMAIN cache, NeedsAt(n, GroupId(v))
                 PROVE  Sent(GroupId(v), n) <=>
                          n < pos'[v] \/ (Holds(GroupId(v)) /\ n = pos'[First(GroupId(v))])
      BY <1>1, <1>3, <1>7, <1>8 DEF HandedOn, NotConverting
    <2>1. Sent(GroupId(v), n) <=>
             n < pos[v] \/ (Holds(GroupId(v)) /\ n = pos[First(GroupId(v))])
      BY <1>2 DEF HandedOn
    <2>2. n < pos'[v] <=> n < pos[v]
      BY <1>2, <1>10
    <2> QED
      BY <1>6, <1>11, <2>1, <2>2
  <1>13. FullRight'
    <2> SUFFICES ASSUME NEW g \in Groups, Holds(g)
                 PROVE  /\ g # 0
                        /\ pos'[First(g)] \in DOMAIN cache /\ NeedsAt(pos'[First(g)], g)
                        /\ full[g] = <<cache[pos'[First(g)]].data>>
                        /\ \A v \in InGroup(g) : pos'[v] <= pos'[First(g)]
      BY <1>1, <1>3, <1>8 DEF FullRight, NotConverting
    <2>1. /\ g # 0
          /\ pos[First(g)] \in DOMAIN cache /\ NeedsAt(pos[First(g)], g)
          /\ full[g] = <<cache[pos[First(g)]].data>>
          /\ \A v \in InGroup(g) : pos[v] <= pos[First(g)]
      BY <1>2 DEF FullRight
    <2>2. pos'[First(g)] = pos[First(g)]
      BY <1>11
    <2>3. \A v \in InGroup(g) : pos'[v] <= pos[First(g)]
      BY <1>2, <1>6, <1>10, <2>1
    <2> QED
      BY <2>1, <2>2, <2>3
  <1> QED
    BY <1>3, <1>4, <1>5, <1>12, <1>13 DEF PipelineInv

\* When all stages of a record are served it is as good as passed.
LEMMA NextRecordKeeps ==
  ASSUME PipelineInv, NextRecord
  PROVE  PipelineInv'
  <1>1. /\ Scatters /\ AtRecord(0) /\ st > Len(StageSeq(pos[0]))
        /\ pos' = [pos EXCEPT ![0] = @ + 1] /\ st' = 1
        /\ phase' = phase /\ NotConverting /\ full' = full /\ held' = held
    BY DEF NextRecord, AllServed, Stages, StageSeq, NameAt, given, conversion, NotConverting
  <1>2. /\ phase = "load" /\ HandedOn /\ FullRight
        /\ Len(cache) \in Nat /\ DOMAIN cache = 1..Len(cache)
        /\ pos \in [Workers -> 1..(Len(cache) + 1)] /\ st \in Nat \ {0}
        /\ \A w \in Workers : AtRecord(w) <=> pos[w] \in DOMAIN cache
        /\ \A n \in DOMAIN cache, g \in Groups :
             NeedsAt(n, g) => \E k \in 1..Len(StageSeq(n)) : StageSeq(n)[k] = g
    BY <1>1, ScatterFacts
  <1>3. /\ CacheRight' /\ Fresh' /\ Workers' = Workers /\ Groups' = Groups
        /\ \A v : GroupId(v)' = GroupId(v)
        /\ \A g : First(g)' = First(g) /\ InGroup(g)' = InGroup(g)
        /\ \A n, g : NeedsAt(n, g)' = NeedsAt(n, g) /\ StageSeq(n)' = StageSeq(n)
        /\ \A name, v : PieceOf(name, v)' = PieceOf(name, v)
    BY <1>1, <1>2, CacheStays
  <1>4. /\ 0 \in Workers /\ GroupId(0) = 0 /\ First(0) = 0 /\ 0 \in Groups
        /\ \A v \in Workers : GroupId(v) \in Groups /\ v \in InGroup(GroupId(v))
        /\ \A g \in Groups : First(g) \in Workers /\ GroupId(First(g)) = g /\ First(g) \in InGroup(g)
        /\ \A g, v : v \in InGroup(g) => v \in Workers /\ GroupId(v) = g
    BY Places DEF PipelineInv, TypeOK, InGroup
  <1>5. config \in Configs /\ config.pp \in Nat \ {0}
    BY ConfigsAssumption DEF PipelineInv, TypeOK
  <1>6. \A n : /\ Len(StageSeq(n)) \in 1..config.pp
               /\ \A i, j \in 1..Len(StageSeq(n)) : StageSeq(n)[i] = StageSeq(n)[j] => i = j
    BY <1>5, StageFacts
  <1>7. pos[0] \in DOMAIN cache
    BY <1>1, <1>2, <1>4
  <1>8. \A v \in Workers : pos'[v] = IF v = 0 THEN pos[v] + 1 ELSE pos[v]
    BY <1>1, <1>2
  <1>9. TypeOK'
    <2>1. pos' \in [Workers -> 1..(Len(cache) + 1)]
      <3>1. PICK L \in Nat : L = Len(cache)
        BY <1>2
      <3>2. pos \in [Workers -> 1..(L + 1)] /\ pos[0] \in 1..L
        BY <1>2, <1>7, <3>1
      <3>3. PICK m \in 1..(L + 1) : m = pos[0] + 1
        BY <3>2
      <3>4. pos' = [pos EXCEPT ![0] = m]
        BY <1>1, <3>3
      <3>5. pos' \in [Workers -> 1..(L + 1)]
        BY <3>2, <3>4
      <3> QED
        BY <3>1, <3>5
    <2>2. st' \in 1..(config.pp + 1)
      BY <1>1, <1>5
    <2> QED
      BY <1>1, <1>3, <2>1, <2>2 DEF PipelineInv, TypeOK, NotConverting
  <1>10. HeldRight'
    BY <1>1, <1>3 DEF PipelineInv, HeldRight
  <1>11. \A n \in DOMAIN cache, g \in Groups : NeedsAt(n, g) => (Sent(g, n)' <=> Sent(g, n))
    <2> SUFFICES ASSUME NEW n \in DOMAIN cache, NEW g \in Groups, NeedsAt(n, g)
                 PROVE  n < pos[0] + 1 <=> Sent(g, n)
      BY <1>1, <1>4, <1>8 DEF Sent
    <2>1. PICK k \in 1..Len(StageSeq(n)) : StageSeq(n)[k] = g
      BY <1>2
    <2>2. n = pos[0] => k \in 1..(st - 1)
      BY <1>1, <1>2, <1>6
    <2> QED
      BY <1>2, <1>7, <2>1, <2>2 DEF Sent
  <1>12. \A g : Holds(g)' = Holds(g)
    BY <1>1 DEF Holds
  <1>13. \A g \in Groups : Holds(g) => pos'[First(g)] = pos[First(g)]
    BY <1>2, <1>4, <1>8 DEF FullRight
  <1>14. HandedOn'
    <2> SUFFICES ASSUME NEW v \in Workers \ {0}, NEW n \in DOMAIN cache, NeedsAt(n, GroupId(v))
                 PROVE  Sent(GroupId(v), n) <=>
                          n < pos'[v] \/ (Holds(GroupId(v)) /\ n = pos'[First(GroupId(v))])
      BY <1>1, <1>3, <1>4, <1>11, <1>12 DEF HandedOn, NotConverting
    <2> QED
      BY <1>2, <1>4, <1>8, <1>13 DEF HandedOn
  <1>15. FullRight'
    <2> SUFFICES ASSUME NEW g \in Groups, Holds(g)
                 PROVE  /\ g # 0
                        /\ pos'[First(g)] \in DOMAIN cache /\ NeedsAt(pos'[First(g)], g)
                        /\ full[g] = <<cache[pos'[First(g)]].data>>
                        /\ \A v \in InGroup(g) : pos'[v] <= pos'[First(g)]
      BY <1>1, <1>3, <1>12 DEF FullRight, NotConverting
    <2>1. g # 0 /\ \A v \in InGroup(g) : v \in Workers /\ v # 0
      BY <1>2, <1>4 DEF FullRight
    <2> QED
      BY <1>2, <1>8, <1>13, <2>1 DEF FullRight
  <1> QED
    BY <1>3, <1>9, <1>10, <1>14, <1>15 DEF PipelineInv

\* A stage that worker 0 serves next has not been handed the record.
LEMMA ServedNow ==
  ASSUME PipelineInv, Scatters, NEW g, AtRecord(0), st <= Len(StageSeq(pos[0])),
         StageSeq(pos[0])[st] = g
  PROVE  NeedsAt(pos[0], g) /\ ~Sent(g, pos[0])
  <1>1. /\ st \in Nat \ {0} /\ pos[0] \in Int
    <2>1. 0 \in Workers
      BY Places DEF PipelineInv, TypeOK
    <2> QED
      BY <2>1, ScatterFacts
  <1>2. config \in Configs /\ config.pp \in Nat \ {0}
    BY ConfigsAssumption DEF PipelineInv, TypeOK
  <1>3. /\ Len(StageSeq(pos[0])) \in 1..config.pp
        /\ \A i, j \in 1..Len(StageSeq(pos[0])) : StageSeq(pos[0])[i] = StageSeq(pos[0])[j] => i = j
    BY <1>2, StageFacts
  <1>4. PICK L \in Nat : L = Len(StageSeq(pos[0]))
    BY <1>2, <1>3
  <1>5. NeedsAt(pos[0], g)
    BY <1>1, <1>4 DEF NeedsAt, Contains
  <1>6. ASSUME NEW k \in 1..(st - 1), StageSeq(pos[0])[k] = g
        PROVE  FALSE
    <2>1. k \in 1..L /\ st \in 1..L /\ k # st
      BY <1>1, <1>4
    <2> QED
      BY <1>3, <1>4, <1>6, <2>1
  <1>7. ~(pos[0] < pos[0])
    BY <1>1
  <1> QED
    BY <1>5, <1>6, <1>7 DEF Sent

\* Where worker 0 and the first worker of a group meet they stand at the same record.
LEMMA SendKeeps ==
  ASSUME PipelineInv, NEW g \in Groups, SendToWorker(g)
  PROVE  PipelineInv'
  <1>1. /\ Scatters /\ g # 0 /\ AtRecord(0) /\ st <= Len(StageSeq(pos[0]))
        /\ StageSeq(pos[0])[st] = g /\ Needs(First(g)) /\ ~Holds(g)
        /\ full' = [full EXCEPT ![g] = <<cache[pos[0]].data>>] /\ st' = st + 1
        /\ phase' = phase /\ NotConverting /\ pos' = pos /\ held' = held
    BY DEF SendToWorker, CanSend, Serves, Receives, Stages, StageSeq, NameAt, Holds, given, conversion,
           NotConverting
  <1>2. /\ phase = "load" /\ HandedOn /\ FullRight
        /\ Len(cache) \in Nat /\ DOMAIN cache = 1..Len(cache)
        /\ pos \in [Workers -> 1..(Len(cache) + 1)] /\ st \in Nat \ {0}
        /\ DOMAIN full = Groups
        /\ \A w \in Workers : AtRecord(w) <=> pos[w] \in DOMAIN cache
        /\ \A w \in Workers : Needs(w) <=> AtRecord(w) /\ NeedsAt(pos[w], GroupId(w))
    BY <1>1, ScatterFacts
  <1>3. /\ CacheRight' /\ Fresh' /\ Workers' = Workers /\ Groups' = Groups
        /\ \A v : GroupId(v)' = GroupId(v)
        /\ \A h : First(h)' = First(h) /\ InGroup(h)' = InGroup(h)
        /\ \A n, h : NeedsAt(n, h)' = NeedsAt(n, h) /\ StageSeq(n)' = StageSeq(n)
        /\ \A name, v : PieceOf(name, v)' = PieceOf(name, v)
    BY <1>1, <1>2, CacheStays
  <1>4. /\ 0 \in Workers /\ GroupId(0) = 0 /\ First(0) = 0 /\ 0 \in Groups
        /\ \A v \in Workers : GroupId(v) \in Groups /\ v \in InGroup(GroupId(v))
        /\ \A h \in Groups : First(h) \in Workers /\ GroupId(First(h)) = h /\ First(h) \in InGroup(h)
        /\ \A h, v : v \in InGroup(h) => v \in Workers /\ GroupId(v) = h
    BY Places DEF PipelineInv, TypeOK, InGroup
  <1>5. config \in Configs /\ config.pp \in Nat \ {0}
    BY ConfigsAssumption DEF PipelineInv, TypeOK
  <1>6. \A n : /\ Len(StageSeq(n)) \in 1..config.pp
               /\ \A i, j \in 1..Len(StageSeq(n)) : StageSeq(n)[i] = StageSeq(n)[j] => i = j
    BY <1>5, StageFacts
  <1>7. pos[0] \in DOMAIN cache /\ pos[First(g)] \in DOMAIN cache /\ NeedsAt(pos[First(g)], g)
    BY <1>1, <1>2, <1>4
  <1>8. NeedsAt(pos[0], g) /\ ~Sent(g, pos[0])
    BY <1>1, ServedNow
  <1>10. \A v \in InGroup(g) : v \in Workers \ {0} /\ pos[v] <= pos[0]
    <2> TAKE v \in InGroup(g)
    <2>1. v \in Workers \ {0} /\ GroupId(v) = g
      BY <1>1, <1>4
    <2>2. ~(pos[0] < pos[v])
      BY <1>2, <1>7, <1>8, <2>1 DEF HandedOn
    <2> QED
      BY <1>2, <1>4, <2>1, <2>2
  <1>11. pos[First(g)] = pos[0]
    <2>1. ~Sent(g, pos[First(g)])
      BY <1>1, <1>2, <1>4, <1>7, <1>10 DEF HandedOn
    <2>2. ~(pos[First(g)] < pos[0])
      BY <2>1 DEF Sent
    <2> QED
      BY <1>2, <1>4, <1>10, <2>2
  <1>12. TypeOK'
    BY <1>1, <1>2, <1>3, <1>5, <1>6 DEF PipelineInv, TypeOK, NotConverting
  <1>13. HeldRight'
    BY <1>1, <1>3 DEF PipelineInv, HeldRight
  <1>14. \A h, n : Sent(h, n)' <=> Sent(h, n) \/ (h = g /\ n = pos[0])
    BY <1>1, <1>2, <1>3 DEF Sent
  <1>15. \A h \in Groups : /\ h # g => Holds(h)' = Holds(h) /\ full'[h] = full[h]
                           /\ h = g => Holds(h)' /\ full'[h] = <<cache[pos[0]].data>>
    BY <1>1, <1>2 DEF Holds, None
  <1>16. HandedOn'
    <2> SUFFICES ASSUME NEW v \in Workers \ {0}, NEW n \in DOMAIN cache, NEW h \in Groups,
                        h = GroupId(v), NeedsAt(n, h)
                 PROVE  Sent(h, n)' <=> n < pos[v] \/ (Holds(h)' /\ n = pos[First(h)])
      BY <1>1, <1>3, <1>4 DEF HandedOn, NotConverting
    <2>1. Sent(h, n) <=> n < pos[v] \/ (Holds(h) /\ n = pos[First(h)])
      BY <1>2 DEF HandedOn
    <2>3. CASE h = g
      BY <1>1, <1>11, <1>14, <1>15, <2>1, <2>3
    <2>4. CASE h # g
      BY <1>14, <1>15, <2>1, <2>4
    <2> QED
      BY <2>3, <2>4
  <1>17. FullRight'
    <2> SUFFICES ASSUME NEW h \in Groups, Holds(h)'
                 PROVE  /\ h # 0
                        /\ pos[First(h)] \in DOMAIN cache /\ NeedsAt(pos[First(h)], h)
                        /\ full'[h] = <<cache[pos[First(h)]].data>>
                        /\ \A v \in InGroup(h) : pos[v] <= pos[First(h)]
      BY <1>1, <1>3 DEF FullRight, NotConverting
    <2>1. CASE h = g
      BY <1>1, <1>7, <1>10, <1>11, <1>15, <2>1
    <2>2. CASE h # g
      BY <1>2, <1>15, <2>2 DEF FullRight
    <2> QED
      BY <2>1, <2>2
  <1> QED
    BY <1>3, <1>12, <1>13, <1>16, <1>17 DEF PipelineInv

\* When a group can scatter all its workers stand at the record its first worker has.
LEMMA GroupTogether ==
  ASSUME PipelineInv, Scatters, NEW g \in Groups, CanScatter(g)
  PROVE  /\ pos[First(g)] \in DOMAIN cache /\ NeedsAt(pos[First(g)], g)
         /\ Known(cache[pos[First(g)]].name)
         /\ \A w \in InGroup(g) : pos[w] = pos[First(g)]
         /\ g # 0 => Holds(g) /\ full[g] = <<cache[pos[First(g)]].data>>
         /\ g = 0 => ~Sent(0, pos[0]) /\ st <= Len(StageSeq(pos[0])) /\ StageSeq(pos[0])[st] = 0
  <1>2. /\ HandedOn /\ FullRight
        /\ DOMAIN cache = 1..Len(cache) /\ Len(cache) \in Nat
        /\ pos \in [Workers -> 1..(Len(cache) + 1)]
        /\ \A w \in Workers : AtRecord(w) <=> pos[w] \in DOMAIN cache
        /\ \A w \in Workers : Needs(w) <=> AtRecord(w) /\ NeedsAt(pos[w], GroupId(w))
    BY ScatterFacts
  <1>4. /\ 0 \in Workers /\ GroupId(0) = 0 /\ First(0) = 0 /\ 0 \in Groups
        /\ \A h \in Groups : First(h) \in Workers /\ GroupId(First(h)) = h /\ First(h) \in InGroup(h)
        /\ \A h, v : v \in InGroup(h) <=> v \in Workers /\ GroupId(v) = h
    BY Places DEF PipelineInv, TypeOK, InGroup
  <1>5. \A w \in InGroup(g) : pos[w] \in DOMAIN cache /\ NeedsAt(pos[w], g) /\ Known(cache[pos[w]].name)
    BY <1>2, <1>4 DEF CanScatter, Receives, NameAt
  <1>6. CASE g # 0
    <2>1. Holds(g)
      BY <1>6 DEF CanScatter, Holds
    <2>2. full[g] = <<cache[pos[First(g)]].data>> /\ \A w \in InGroup(g) : pos[w] <= pos[First(g)]
      BY <1>2, <2>1 DEF FullRight
    <2>3. ASSUME NEW w \in InGroup(g), pos[w] < pos[First(g)]
          PROVE  FALSE
      <3>1. w \in Workers \ {0} /\ First(g) \in Workers \ {0} /\ GroupId(w) = g
        BY <1>4, <1>6
      <3>2. Sent(g, pos[w])
        BY <1>2, <1>4, <1>5, <2>3, <3>1 DEF HandedOn
      <3>3. Sent(g, pos[w]) <=> pos[w] < pos[w] \/ (Holds(g) /\ pos[w] = pos[First(g)])
        BY <1>2, <1>5, <3>1 DEF HandedOn
      <3>4. pos[w] \in Int /\ pos[First(g)] \in Int
        BY <1>2, <1>4
      <3> QED
        BY <2>3, <3>2, <3>3, <3>4
    <2>4. \A w \in InGroup(g) : pos[w] = pos[First(g)]
      BY <1>2, <1>4, <2>2, <2>3
    <2> QED
      BY <1>4, <1>5, <1>6, <2>1, <2>2, <2>4
  <1>7. CASE g = 0
    <2>1. AtRecord(0) /\ st <= Len(StageSeq(pos[0])) /\ StageSeq(pos[0])[st] = 0
      BY <1>7 DEF CanScatter, Serves, Stages, StageSeq, NameAt
    <2>2. NeedsAt(pos[0], 0) /\ ~Sent(0, pos[0])
      BY <2>1, ServedNow
    <2>3. ~Holds(0)
      BY <1>2, <1>4 DEF FullRight
    <2>4. ASSUME NEW w \in InGroup(0), w # 0
          PROVE  pos[w] = pos[0]
      <3>1. w \in Workers \ {0} /\ GroupId(w) = 0
        BY <1>4, <2>4
      <3>2. pos[0] \in DOMAIN cache /\ pos[w] \in DOMAIN cache /\ NeedsAt(pos[w], 0)
        BY <1>2, <1>4, <1>5, <1>7, <2>1
      <3>3. ~(pos[0] < pos[w])
        BY <1>2, <2>2, <3>1, <3>2 DEF HandedOn
      <3>4. Sent(0, pos[w]) <=> pos[w] < pos[w]
        BY <1>2, <2>3, <3>1, <3>2 DEF HandedOn
      <3>5. pos[w] \in Int /\ pos[0] \in Int
        BY <1>2, <3>2
      <3>6. ~Sent(0, pos[w])
        BY <3>4, <3>5
      <3>7. ~(pos[w] < pos[0])
        BY <3>6 DEF Sent
      <3> QED
        BY <3>3, <3>5, <3>7
    <2> QED
      BY <1>4, <1>5, <1>7, <2>1, <2>2, <2>4
  <1> QED
    BY <1>6, <1>7

\* What a group scatters is filed under its own name: the others stand at the
\* same record as the worker that divides it.
LEMMA ScatterFiles ==
  ASSUME PipelineInv, NEW g \in Groups, Scatter(g)
  PROVE  /\ DOMAIN held' = Workers
         /\ \A w \in Workers : \A name \in DOMAIN held'[w] :
              \/ name \in DOMAIN held[w] /\ held'[w][name] = held[w][name]
              \/ held'[w][name] = PieceOf(name, w)
  <1>1. Scatters /\ CanScatter(g)
    BY DEF Scatter
  <1>2. PICK m, name : m = pos[First(g)] /\ name = cache[m].name
    OBVIOUS
  <1>3. /\ m \in DOMAIN cache /\ Known(name)
        /\ \A w \in InGroup(g) : pos[w] = m
        /\ g # 0 => full[g] = <<cache[m].data>>
    BY <1>1, <1>2, GroupTogether
  <1>4. First(0) = 0 /\ First(g) \in InGroup(g)
    BY Places DEF PipelineInv, TypeOK
  <1>5. PICK tensor, s : /\ tensor = (IF g = 0 THEN cache[pos[0]].data ELSE full[g][1])
                         /\ s = Info(NameAt(First(g)))
    OBVIOUS
  <1>6. tensor = cache[m].data
    BY <1>2, <1>3, <1>4, <1>5
  <1>7. s = Info(name) /\ s.name = name /\ \A w \in InGroup(g) : NameAt(w) = name
    BY <1>2, <1>3, <1>4, <1>5 DEF NameAt, Info, Known
  <1>8. DataOf(name) = tensor
    BY <1>2, <1>3, <1>6 DEF DataOf, PipelineInv, CacheRight, OwnNames
  <1>9. \A w : PieceOf(name, w) = IF s.sharded THEN ShardFor(lib.fns, s, config.tp, tensor, w % config.tp)
                                  ELSE tensor
    BY <1>1, <1>7, <1>8 DEF PieceOf, NameFor, Scatters
  <1>10. \/ held' = held
         \/ held' = [w \in Workers |->
              IF w \in InGroup(g)
              THEN Filed(held[w], NameAt(w),
                         IF s.sharded THEN ShardFor(lib.fns, s, config.tp, tensor, w % config.tp)
                         ELSE tensor)
              ELSE held[w]]
    BY <1>5 DEF Scatter
  <1>11. DOMAIN held = Workers
    BY DEF PipelineInv, TypeOK
  <1>12. CASE held' = held
    BY <1>11, <1>12
  <1>13. CASE held' # held
    <2>1. \A w \in Workers : held'[w] = IF w \in InGroup(g) THEN Filed(held[w], name, PieceOf(name, w))
                                        ELSE held[w]
      BY <1>7, <1>9, <1>10, <1>13
    <2>2. DOMAIN held' = Workers
      BY <1>10, <1>13
    <2>3. ASSUME NEW w \in Workers, NEW x \in DOMAIN held'[w]
          PROVE  \/ x \in DOMAIN held[w] /\ held'[w][x] = held[w][x]
                 \/ held'[w][x] = PieceOf(x, w)
      <3>1. CASE w \notin InGroup(g)
        BY <2>1, <2>3, <3>1
      <3>2. CASE w \in InGroup(g)
        <4>1. PICK piece : piece = PieceOf(name, w)
          OBVIOUS
        <4>2. held'[w] = [n \in DOMAIN held[w] \cup {name} |-> IF n = name THEN piece ELSE held[w][n]]
          BY <2>1, <3>2, <4>1 DEF Filed
        <4> QED
          BY <4>1, <4>2
      <3> QED
        BY <3>1, <3>2
    <2> QED
      BY <2>2, <2>3
  <1> QED
    BY <1>12, <1>13

\* Scattering keeps the invariant: the whole group passes the record.
LEMMA ScatterKeeps ==
  ASSUME PipelineInv, NEW g \in Groups, Scatter(g)
  PROVE  PipelineInv'
  <1>1. /\ Scatters /\ CanScatter(g) /\ phase' \in {"load", "failed"} /\ NotConverting
        /\ st' = (IF g = 0 THEN st + 1 ELSE st) /\ full' = [full EXCEPT ![g] = None]
        /\ pos' = [w \in Workers |-> IF w \in InGroup(g) \ {0} THEN pos[w] + 1 ELSE pos[w]]
    BY DEF Scatter, Fail, given, conversion, NotConverting, Scatters
  <1>2. /\ phase = "load" /\ HandedOn /\ FullRight
        /\ Len(cache) \in Nat /\ DOMAIN cache = 1..Len(cache)
        /\ pos \in [Workers -> 1..(Len(cache) + 1)] /\ st \in Nat \ {0}
        /\ DOMAIN full = Groups
    BY <1>1, ScatterFacts
  <1>3. /\ CacheRight' /\ Fresh' /\ Workers' = Workers /\ Groups' = Groups
        /\ \A v : GroupId(v)' = GroupId(v)
        /\ \A h : First(h)' = First(h) /\ InGroup(h)' = InGroup(h)
        /\ \A n, h : NeedsAt(n, h)' = NeedsAt(n, h) /\ StageSeq(n)' = StageSeq(n)
        /\ \A name, v : PieceOf(name, v)' = PieceOf(name, v)
    BY <1>1, <1>2, CacheStays
  <1>4. /\ 0 \in Workers /\ GroupId(0) = 0 /\ First(0) = 0 /\ 0 \in Groups
        /\ \A v \in Workers : GroupId(v) \in Groups /\ v \in InGroup(GroupId(v))
        /\ \A h \in Groups : First(h) \in Workers /\ GroupId(First(h)) = h /\ First(h) \in InGroup(h)
        /\ \A h, v : v \in InGroup(h) <=> v \in Workers /\ GroupId(v) = h
    BY Places DEF PipelineInv, TypeOK, InGroup
  <1>5. PICK m : m = pos[First(g)]
    OBVIOUS
  <1>6. /\ m \in DOMAIN cache /\ NeedsAt(m, g)
        /\ \A w \in InGroup(g) : pos[w] = m
        /\ g # 0 => Holds(g)
        /\ g = 0 => ~Sent(0, pos[0]) /\ st <= Len(StageSeq(pos[0])) /\ StageSeq(pos[0])[st] = 0
    BY <1>1, <1>5, GroupTogether
  <1>7. \A w \in Workers : pos'[w] = IF w \in InGroup(g) /\ w # 0 THEN m + 1 ELSE pos[w]
    BY <1>1, <1>6
  <1>8. TypeOK'
    <2>1. pos' \in [Workers -> 1..(Len(cache) + 1)]
      <3>1. PICK L \in Nat : L = Len(cache)
        BY <1>2
      <3>2. pos \in [Workers -> 1..(L + 1)] /\ m \in 1..L /\ m + 1 \in 1..(L + 1)
        BY <1>2, <1>6, <3>1
      <3>3. DOMAIN pos' = Workers /\ \A w \in Workers : pos'[w] \in 1..(L + 1)
        BY <1>1, <1>7, <3>2
      <3> QED
        BY <1>1, <3>1, <3>3
    <2>2. st' \in 1..(config.pp + 1)
      <3>1. config \in Configs /\ config.pp \in Nat \ {0} /\ st \in 1..(config.pp + 1)
        BY ConfigsAssumption DEF PipelineInv, TypeOK
      <3>2. Len(StageSeq(pos[0])) \in 1..config.pp
        BY <3>1, StageFacts
      <3> QED
        BY <1>1, <1>2, <1>6, <3>1, <3>2
    <2>3. DOMAIN full' = Groups /\ DOMAIN held' = Workers
      BY <1>1, <1>2, ScatterFiles
    <2> QED
      BY <1>1, <1>3, <2>1, <2>2, <2>3 DEF PipelineInv, TypeOK, NotConverting
  <1>9. HeldRight'
    BY <1>3, ScatterFiles DEF PipelineInv, HeldRight
  <1>10. \A h \in Groups, n \in DOMAIN cache :
            Sent(h, n)' <=> Sent(h, n) \/ (g = 0 /\ h = 0 /\ n = pos[0])
    <2> TAKE h \in Groups, n \in DOMAIN cache
    <2>1. pos'[0] = pos[0]
      BY <1>4, <1>7
    <2>2. CASE g # 0
      BY <1>1, <1>3, <2>1, <2>2 DEF Sent
    <2>3. CASE g = 0
      BY <1>1, <1>2, <1>3, <1>6, <2>1, <2>3 DEF Sent
    <2> QED
      BY <2>2, <2>3
  <1>11. \A h \in Groups : /\ h # g => Holds(h)' = Holds(h) /\ full'[h] = full[h]
                           /\ h = g => ~Holds(h)'
    BY <1>1, <1>2 DEF Holds
  <1>12. \A h \in Groups : h # g => /\ \A v \in InGroup(h) : pos'[v] = pos[v]
                                    /\ pos'[First(h)] = pos[First(h)]
    BY <1>4, <1>7
  <1>13. HandedOn'
    <2> SUFFICES ASSUME NEW v \in Workers \ {0}, NEW n \in DOMAIN cache, NEW h \in Groups,
                        h = GroupId(v), NeedsAt(n, h)
                 PROVE  Sent(h, n)' <=> n < pos'[v] \/ (Holds(h)' /\ n = pos'[First(h)])
      BY <1>1, <1>3, <1>4 DEF HandedOn, NotConverting
    <2>1. Sent(h, n) <=> n < pos[v] \/ (Holds(h) /\ n = pos[First(h)])
      BY <1>2 DEF HandedOn
    <2>2. CASE h # g
      BY <1>4, <1>10, <1>11, <1>12, <2>1, <2>2
    <2>3. CASE h = g
      <3>1. pos[v] = m /\ pos'[v] = m + 1 /\ ~Holds(h)' /\ m \in Int /\ n \in Int
        <4>1. v \in InGroup(g) /\ v # 0
          BY <1>4, <2>3
        <4>2. pos[v] = m /\ pos'[v] = m + 1
          BY <1>6, <1>7, <4>1
        <4>3. m \in Int /\ n \in Int
          BY <1>2, <1>6
        <4> QED
          BY <1>11, <2>3, <4>2, <4>3
      <3>2. CASE g # 0
        BY <1>5, <1>6, <1>10, <2>1, <2>3, <3>1, <3>2
      <3>3. CASE g = 0
        <4>1. ~Holds(0) /\ m = pos[0]
          BY <1>2, <1>4, <1>5, <3>3 DEF FullRight
        <4> QED
          BY <1>10, <2>1, <2>3, <3>1, <3>3, <4>1
      <3> QED
        BY <3>2, <3>3
    <2> QED
      BY <2>2, <2>3
  <1>14. FullRight'
    <2> SUFFICES ASSUME NEW h \in Groups, Holds(h)'
                 PROVE  /\ h # 0
                        /\ pos'[First(h)] \in DOMAIN cache /\ NeedsAt(pos'[First(h)], h)
                        /\ full'[h] = <<cache[pos'[First(h)]].data>>
                        /\ \A v \in InGroup(h) : pos'[v] <= pos'[First(h)]
      BY <1>1, <1>3 DEF FullRight, NotConverting
    <2>1. h # g /\ Holds(h) /\ full'[h] = full[h]
      BY <1>11
    <2> QED
      BY <1>2, <1>12, <2>1 DEF FullRight
  <1> QED
    BY <1>3, <1>8, <1>9, <1>13, <1>14 DEF PipelineInv

-----------------------------------------------------------------------------
(* The theorems *)

\* The invariant is inductive.
LEMMA StepKeeps == PipelineInv /\ [Next]_vars => PipelineInv'
  <1> SUFFICES ASSUME PipelineInv, [Next]_vars PROVE PipelineInv'
    OBVIOUS
  <1>1. CASE StartConvert \/ ConvertParam \/ EndConvert \/ Compile
    BY <1>1, StartConvertKeeps, ConvertParamKeeps, EndConvertKeeps, CompileKeeps
  <1>2. CASE LoadParams
    <2>1. 0 \in Workers
      BY Places DEF PipelineInv, TypeOK
    <2>2. /\ phase = "load" /\ Alone /\ TakeByName(0) /\ pos' = [pos EXCEPT ![0] = Len(cache) + 1]
          /\ NotConverting /\ st' = st /\ full' = full
      BY <1>2 DEF LoadParams, given, conversion, NotConverting
    <2> QED
      BY <2>1, <2>2, ByNameKeeps
  <1>3. ASSUME NEW w \in Workers, LoadPresharded(w) PROVE PipelineInv'
    <2>1. /\ phase = "load" /\ config.presharded /\ TakeByName(w)
          /\ pos' = [pos EXCEPT ![w] = Len(cache) + 1]
          /\ NotConverting /\ st' = st /\ full' = full
      BY <1>3 DEF LoadPresharded, given, conversion, NotConverting
    <2> QED
      BY <2>1, ByNameKeeps
  <1>4. ASSUME NEW w \in Workers, LoadUninitialized(w) \/ UnknownRecord(w) PROVE PipelineInv'
    <2>1. /\ phase = "load" /\ phase' = "failed" /\ NotConverting
          /\ pos' = pos /\ st' = st /\ full' = full /\ held' = held
      BY <1>4 DEF LoadUninitialized, UnknownRecord, Scatters, Fail, given, conversion, loading,
                  NotConverting
    <2> QED
      BY <2>1, EndsKeep
  <1>5. CASE SendNowhere \/ SyncWorkers
    <2>1. /\ phase = "load" /\ phase' \in {"ready", "failed"} /\ NotConverting
          /\ pos' = pos /\ st' = st /\ full' = full /\ held' = held
      BY <1>5 DEF SendNowhere, SyncWorkers, Scatters, Fail, given, conversion, loading,
                  NotConverting
    <2> QED
      BY <2>1, EndsKeep
  <1>6. ASSUME NEW w \in Workers, Skip(w) PROVE PipelineInv'
    BY <1>6, SkipKeeps
  <1>7. CASE NextRecord
    BY <1>7, NextRecordKeeps
  <1>8. ASSUME NEW g \in Groups, SendToWorker(g) \/ Scatter(g) PROVE PipelineInv'
    BY <1>8, SendKeeps, ScatterKeeps
  <1>9. CASE UNCHANGED vars
    <2>1. /\ config' = config /\ phase' = phase /\ named' = named /\ cache' = cache /\ lib' = lib
          /\ pos' = pos /\ st' = st /\ full' = full /\ held' = held
      BY <1>9 DEF vars, given
    <2>2. TypeOK' /\ Fresh'
      BY <2>1 DEF PipelineInv, TypeOK, Fresh, Workers, Groups
    <2>3. CacheRight'
      BY <2>1 DEF PipelineInv, CacheRight, Records, OwnNames, Undivided
    <2>13. \A name, w : PieceOf(name, w)' = PieceOf(name, w)
      BY <2>1 DEF PieceOf, Info, Alone, ShardFor, DataOf, NameFor
    <2>8. /\ Workers' = Workers /\ Groups' = Groups
          /\ \A w : GroupId(w)' = GroupId(w)
          /\ \A g : First(g)' = First(g) /\ Holds(g)' = Holds(g)
      BY <2>1 DEF Workers, Groups, GroupId, First, Holds
    <2>4. HeldRight'
      BY <2>1, <2>8, <2>13 DEF PipelineInv, HeldRight
    <2>9. \A g : InGroup(g)' = InGroup(g)
      BY <2>8 DEF InGroup
    <2>10. \A n : StageSeq(n)' = StageSeq(n)
      BY <2>1 DEF StageSeq, PipelineStages
    <2>11. \A n, g : NeedsAt(n, g)' = NeedsAt(n, g)
      BY <2>10 DEF NeedsAt
    <2>12. \A n, g : Sent(g, n)' <=> Sent(g, n)
      BY <2>1, <2>10 DEF Sent
    <2>5. Scatters => HandedOn'
      BY <2>1, <2>8, <2>11, <2>12 DEF PipelineInv, HandedOn
    <2>6. Scatters => FullRight'
      BY <2>1, <2>8, <2>9, <2>11 DEF PipelineInv, FullRight
    <2>7. Scatters' => Scatters
      BY <2>1 DEF Scatters, Alone
    <2> QED
      BY <2>2, <2>3, <2>4, <2>5, <2>6, <2>7 DEF PipelineInv
  <1> QED
    BY <1>1, <1>2, <1>3, <1>4, <1>5, <1>6, <1>7, <1>8, <1>9 DEF Next, Work

\* The invariant always holds.
LEMMA PipelineInvariant == Spec => []PipelineInv
  <1>1. Init => PipelineInv
    BY InitInv
  <1>2. PipelineInv /\ [Next]_vars => PipelineInv'
    BY StepKeeps
  <1> QED
    BY <1>1, <1>2, PTL DEF Spec

\* For every model, number of groups and workers, and however the workers of
\* LoadMultiGPU get ahead of each other: what a worker has filed under a name is
\* its piece of the parameter of that name.
THEOREM PiecesAreRight == Spec => []HeldIsShard
  <1>1. PipelineInv => HeldIsShard
    BY DEF PipelineInv, HeldRight, HeldIsShard, PieceOf
  <1> QED
    BY <1>1, PipelineInvariant, PTL

\* A worker that is not behind its group can go on, or is ready for it.
LEMMA ReadyOrSkips ==
  ASSUME PipelineInv, Scatters, NEW w \in Workers, w # 0, AtRecord(w),
         ~\E v \in Workers : CanSkip(v) \/ (AtRecord(v) /\ ~Known(NameAt(v)))
  PROVE  Receives(w)
  BY DEF CanSkip, Receives

\* As long as a worker of LoadMultiGPU has not
\* come to the last record, some worker can go on by itself or some transfer has
\* both its sides, whatever the number of groups and workers.
THEOREM LoadingNeverBlocks == Spec => []LoadingProceeds
  <1>1. ASSUME PipelineInv, Scatters,
               ~\A w \in Workers : ~AtRecord(w),
               ~\E w \in Workers : CanSkip(w) \/ (AtRecord(w) /\ ~Known(NameAt(w))),
               ~AllServed, ~ServesNoGroup
        PROVE  \E g \in Groups : CanSend(g) \/ CanScatter(g)
    <2>2. /\ HandedOn /\ FullRight
          /\ DOMAIN cache = 1..Len(cache) /\ Len(cache) \in Nat
          /\ pos \in [Workers -> 1..(Len(cache) + 1)] /\ st \in Nat \ {0}
          /\ \A w \in Workers : AtRecord(w) <=> pos[w] \in DOMAIN cache
          /\ \A w \in Workers : Needs(w) <=> AtRecord(w) /\ NeedsAt(pos[w], GroupId(w))
      BY <1>1, ScatterFacts
    <2>3. /\ 0 \in Workers /\ GroupId(0) = 0 /\ First(0) = 0 /\ 0 \in Groups
          /\ \A h \in Groups : First(h) \in Workers /\ GroupId(First(h)) = h /\ First(h) \in InGroup(h)
          /\ \A v \in Workers : GroupId(v) \in Groups
          /\ \A h, v : v \in InGroup(h) <=> v \in Workers /\ GroupId(v) = h
      BY <1>1, Places DEF PipelineInv, TypeOK, InGroup
    <2>4. \A w \in Workers : w # 0 /\ AtRecord(w) => Receives(w)
      BY <1>1, ReadyOrSkips
    \* A group whose first worker holds a parameter can scatter it.
    <2>5. ASSUME NEW g \in Groups, Holds(g) PROVE CanScatter(g)
      <3>1. /\ g # 0 /\ pos[First(g)] \in DOMAIN cache
            /\ \A w \in InGroup(g) : pos[w] <= pos[First(g)]
        BY <2>2, <2>5 DEF FullRight
      <3>2. \A w \in InGroup(g) : w \in Workers /\ w # 0 /\ pos[w] \in DOMAIN cache
        BY <2>2, <2>3, <3>1
      <3> QED
        BY <2>2, <2>4, <2>5, <3>1, <3>2 DEF CanScatter, Holds
    <2>6. CASE AtRecord(0)
      <3>1. Known(NameAt(0))
        BY <1>1, <2>3, <2>6
      <3>2. PICK L \in Nat : L = Len(StageSeq(pos[0]))
        <4>1. config \in Configs /\ config.pp \in Nat \ {0}
          BY <1>1, ConfigsAssumption DEF PipelineInv, TypeOK
        <4>2. Len(StageSeq(pos[0])) \in 1..config.pp
          BY <4>1, StageFacts
        <4> QED
          BY <4>1, <4>2
      <3>3. Stages(0) = StageSeq(pos[0])
        BY DEF Stages, StageSeq, NameAt
      <3>4. st \in 1..L
        BY <1>1, <2>2, <2>6, <3>1, <3>2, <3>3 DEF AllServed
      <3>5. PICK g : g = StageSeq(pos[0])[st]
        OBVIOUS
      <3>6. Serves(g) /\ st <= Len(StageSeq(pos[0]))
        BY <2>6, <3>1, <3>2, <3>3, <3>4, <3>5 DEF Serves
      <3>7. NeedsAt(pos[0], g) /\ ~Sent(g, pos[0])
        BY <1>1, <2>6, <3>5, <3>6, ServedNow
      <3>8. g \in Groups
        <4>1. g \in ToSet(Stages(0))
          <5>1. config \in Configs
            BY <1>1 DEF PipelineInv, TypeOK
          <5>2. DOMAIN StageSeq(pos[0]) = 1..Len(StageSeq(pos[0]))
            BY <5>1, StageFacts
          <5> QED
            BY <3>2, <3>3, <3>4, <3>5, <5>2 DEF ToSet
        <4> QED
          BY <1>1, <2>6, <3>6, <4>1 DEF ServesNoGroup
      <3>9. \A w \in InGroup(g) \ {0} : ~Holds(g) => pos[w] \in DOMAIN cache
        <4>1. TAKE w \in InGroup(g) \ {0}
        <4>2. w \in Workers \ {0} /\ GroupId(w) = g /\ pos[0] \in DOMAIN cache
          BY <2>2, <2>3, <2>6
        <4>3. ~(pos[0] < pos[w])
          BY <2>2, <3>7, <4>2 DEF HandedOn
        <4> QED
          BY <2>2, <2>3, <4>2, <4>3
      <3>10. CASE g = 0
        <4>1. ~Holds(0)
          BY <2>2, <2>3 DEF FullRight
        <4>2. \A w \in InGroup(0) \ {0} : Receives(w)
          BY <2>2, <2>3, <2>4, <3>9, <3>10, <4>1
        <4>3. Receives(0)
          BY <2>2, <2>3, <2>6, <3>1, <3>7, <3>10 DEF Receives
        <4>4. CanScatter(0)
          BY <3>6, <3>10, <4>2, <4>3 DEF CanScatter
        <4> QED
          BY <2>3, <4>4
      <3>11. CASE g # 0 /\ ~Holds(g)
        <4>1. First(g) # 0
          BY <2>3, <3>8, <3>11
        <4>2. Receives(First(g))
          BY <2>2, <2>3, <2>4, <3>8, <3>9, <3>11, <4>1
        <4>3. CanSend(g)
          BY <3>6, <3>11, <4>2 DEF CanSend, Holds
        <4> QED
          BY <3>8, <4>3
      <3> QED
        BY <2>5, <3>8, <3>10, <3>11
    \* Worker 0 has passed all records: what another has not got is held by its first worker.
    <2>7. CASE ~AtRecord(0)
      <3>1. PICK w \in Workers : AtRecord(w)
        BY <1>1
      <3>2. w # 0 /\ Receives(w)
        BY <2>4, <2>7, <3>1
      <3>3. pos[w] \in DOMAIN cache /\ NeedsAt(pos[w], GroupId(w)) /\ pos[w] < pos[0]
        BY <2>2, <2>3, <2>7, <3>1, <3>2 DEF Receives
      <3>4. Sent(GroupId(w), pos[w])
        BY <3>3 DEF Sent
      <3>5. Holds(GroupId(w))
        BY <2>2, <3>2, <3>3, <3>4 DEF HandedOn
      <3> QED
        BY <2>3, <2>5, <3>5
    <2> QED
      BY <2>6, <2>7
  <1>2. PipelineInv => LoadingProceeds
    BY <1>1 DEF LoadingProceeds
  <1> QED
    BY <1>2, PipelineInvariant, PTL
=============================================================================
