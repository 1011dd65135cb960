-------------------------- MODULE PrefixCacheTokens --------------------------
(***************************************************************************)
(* Proofs about the tokens: what the prefix cache believes its sequences   *)
(* hold, what the models hold for them, and what the entries have still    *)
(* to run.  PrefixCacheProofs is about who owns which sequence and its     *)
(* invariant IInv is used here throughout.                                 *)
(*                                                                         *)
(* The invariant TInv says of every sequence that the KV cache of the      *)
(* models is at most as long as the tokens the cache believes in once its  *)
(* uncommitted extensions are applied, and the same tokens if nothing is   *)
(* ever preempted.  (After a preemption the entry reports its committed    *)
(* tokens again, so that the cache runs ahead of the models: the weaker    *)
(* half is what is left, and it is what tail forks need.)  The extensions  *)
(* are held by reference, so TInv is kept only because no two of them      *)
(* extend the same sequence and all are committed before a buffer is       *)
(* refilled.                                                               *)
(***************************************************************************)
EXTENDS PrefixCacheProofs, WellFoundedInduction, SequenceTheorems

----------------------------------------------------------------------------
(* Induction over the natural numbers in terms of sets, and the functions  *)
(* it defines.  A property is given as the set of the numbers that have    *)
(* it, a definition by recursion as the function that makes the next value *)
(* from a number and the value before.                                     *)

\* The order of the natural numbers, as a relation.
NumberLess == {ss \in Nat \X Nat : ss[1] < ss[2]}

\* A set of numbers that is not empty has a least element.
LEMMA LeastNumber ==
  ASSUME NEW T, T \subseteq Nat, T # {}
  PROVE  \E x \in T : \A y \in T : x <= y
PROOF
  <1>1. IsWellFoundedOn(NumberLess, Nat) BY NatLessThanWellFounded, Zenon DEF NumberLess, OpToRel
  <1>2. PICK x \in T : \A y \in T : ~ (<<y, x>> \in NumberLess) BY <1>1, WFMin
  <1>3. ASSUME NEW y \in T PROVE x <= y
    <2>1. x \in Nat /\ y \in Nat OBVIOUS
    <2>2. ~ (y < x) BY <1>2, <2>1 DEF NumberLess
    <2> QED BY <2>1, <2>2
  <1> QED BY <1>3

\* A set that has 0 and with every number the next has all numbers.
LEMMA NumberInduction ==
  ASSUME NEW S, 0 \in S, \A n \in Nat : n \in S => n + 1 \in S
  PROVE  \A n \in Nat : n \in S
PROOF
  <1> DEFINE T == {n \in Nat : n \notin S}
  <1>0. SUFFICES ASSUME T # {} PROVE FALSE OBVIOUS
  <1>1. PICK x \in T : \A y \in T : x <= y BY <1>0, LeastNumber
  <1>2. x # 0 /\ x - 1 \in Nat BY <1>1
  <1>3. x - 1 \in S BY <1>1, <1>2
  <1> QED BY <1>2, <1>3

\* A set of numbers with a bound that is not empty has a greatest element.
LEMMA GreatestNumber ==
  ASSUME NEW N \in Nat, NEW T, T \subseteq 0..N, T # {}
  PROVE  \E x \in T : \A y \in T : y <= x
PROOF
  <1> DEFINE U == {n \in 0..N : N - n \in T}
  <1>1. U \subseteq Nat OBVIOUS
  <1>2. U # {}
    <2>1. PICK t \in T : TRUE OBVIOUS
    <2>2. t \in 0..N /\ N - t \in 0..N /\ N - (N - t) = t BY <2>1
    <2> QED BY <2>1, <2>2
  <1>3. PICK u \in U : \A v \in U : u <= v BY <1>1, <1>2, LeastNumber
  <1>4. ASSUME NEW y \in T PROVE y <= N - u
    <2>1. y \in 0..N /\ N - y \in 0..N /\ N - (N - y) = y OBVIOUS
    <2>2. N - y \in U BY <2>1
    <2>3. u <= N - y BY <1>3, <2>2
    <2> QED BY <1>3, <2>1, <2>3
  <1> QED BY <1>3, <1>4

\* Step by step up to N.
LEMMA IntervalInduction ==
  ASSUME NEW N \in Nat, NEW S, 0 \in S, \A n \in 1..N : n - 1 \in S => n \in S
  PROVE  \A n \in 0..N : n \in S
PROOF
  <1> DEFINE T == {n \in 0..N : n \notin S}
  <1>0. SUFFICES ASSUME T # {} PROVE FALSE OBVIOUS
  <1>a. T \subseteq Nat OBVIOUS
  <1>1. PICK x \in T : \A y \in T : x <= y BY <1>0, <1>a, LeastNumber
  <1>2. x \in 1..N BY <1>1
  <1>3. x - 1 \in 0..N /\ ~ (x <= x - 1) BY <1>2
  <1>4. x - 1 \in S BY <1>1, <1>3
  <1> QED BY <1>2, <1>4

\* What the function is that starts with a and goes on with step.
IsIterated(f, N, a, step) ==
  f = [n \in 0..N |-> IF n = 0 THEN a ELSE step[<<n, f[n - 1]>>]]

\* There is such a function, and its values are in S.
LEMMA IteratedExists ==
  ASSUME NEW N \in Nat, NEW S, NEW a \in S, NEW step \in [(1..N) \X S -> S]
  PROVE  \E f \in [0..N -> S] : IsIterated(f, N, a, step)
PROOF
  <1> DEFINE T == {k \in 0..N : \E f \in [0..k -> S] : IsIterated(f, k, a, step)}
  <1>1. 0 \in T
    <2> DEFINE f == [n \in 0..0 |-> a]
    <2>1. f \in [0..0 -> S] OBVIOUS
    <2>2. IsIterated(f, 0, a, step) BY DEF IsIterated
    <2> QED BY <2>1, <2>2
  <1>2. ASSUME NEW n \in 1..N, n - 1 \in T PROVE n \in T
    <2>1. PICK f \in [0..(n - 1) -> S] : IsIterated(f, n - 1, a, step) BY <1>2
    <2> DEFINE g == [k \in 0..n |-> IF k = n THEN step[<<n, f[n - 1]>>] ELSE f[k]]
    <2>2. n - 1 \in 0..(n - 1) /\ \A k \in 0..n : k # n => k \in 0..(n - 1) OBVIOUS
    <2>3. <<n, f[n - 1]>> \in (1..N) \X S BY <2>1, <2>2
    <2>4. step[<<n, f[n - 1]>>] \in S BY <2>3
    <2>5. g \in [0..n -> S] BY <2>1, <2>2, <2>4
    <2>6. \A k \in 0..(n - 1) : f[k] = IF k = 0 THEN a ELSE step[<<k, f[k - 1]>>]
      BY <2>1 DEF IsIterated
    <2>7. \A k \in 0..n : g[k] = IF k = 0 THEN a ELSE step[<<k, g[k - 1]>>]
      <3>1. SUFFICES ASSUME NEW k \in 0..n PROVE g[k] = IF k = 0 THEN a ELSE step[<<k, g[k - 1]>>]
        OBVIOUS
      <3>2. CASE k = n
        <4>1. n # 0 /\ g[n - 1] = f[n - 1] BY <2>2
        <4> QED BY <3>2, <4>1
      <3>3. CASE k # n
        <4>1. k \in 0..(n - 1) /\ g[k] = f[k] BY <3>3, <2>2
        <4>2. k # 0 => k - 1 \in 0..n /\ k - 1 # n OBVIOUS
        <4>3. k # 0 => g[k - 1] = f[k - 1] BY <4>2
        <4> QED BY <4>1, <4>3, <2>6
      <3> QED BY <3>2, <3>3
    <2>8. IsIterated(g, n, a, step) BY <2>7 DEF IsIterated
    <2> QED BY <2>5, <2>8
  <1>3. \A n \in 0..N : n \in T BY <1>1, <1>2, IntervalInduction
  <1>4. N \in T BY <1>3
  <1> QED BY <1>4

----------------------------------------------------------------------------
(* Sequences of tokens                                                     *)

\* The first n elements, also for a negative n.
LEMMA UpToFacts ==
    ASSUME NEW S, NEW s \in Seq(S), NEW n \in Int, n <= Len(s)
    PROVE  /\ SubSeq(s, 1, n) \in Seq(S)
           /\ Len(SubSeq(s, 1, n)) = IF n >= 0 THEN n ELSE 0
           /\ \A i \in 1..n : SubSeq(s, 1, n)[i] = s[i]
<1>1. Len(s) \in Nat /\ \A i \in 1..Len(s) : s[i] \in S
  BY LenProperties, ElementOfSeq
<1>2. \A i \in 1..n : s[i] \in S
  BY <1>1
<1>3. /\ SubSeq(s, 1, n) \in Seq(S)
      /\ Len(SubSeq(s, 1, n)) = IF 1 <= n THEN n - 1 + 1 ELSE 0
      /\ \A i \in 1..(n - 1 + 1) : SubSeq(s, 1, n)[i] = s[1 + i - 1]
  BY <1>2, SubSeqProperties
<1> QED
  BY <1>3

\* A sequence is cut into two parts.
LEMMA CutFacts ==
    ASSUME NEW S, NEW s \in Seq(S), NEW n \in 0..Len(s)
    PROVE  /\ SubSeq(s, 1, n) \in Seq(S) /\ Len(SubSeq(s, 1, n)) = n
           /\ SubSeq(s, n + 1, Len(s)) \in Seq(S)
           /\ Len(SubSeq(s, n + 1, Len(s))) = Len(s) - n
           /\ SubSeq(s, 1, n) \o SubSeq(s, n + 1, Len(s)) = s
<1>1. Len(s) \in Nat /\ \A i \in 1..Len(s) : s[i] \in S
  BY LenProperties, ElementOfSeq
<1>2. SubSeq(s, 1, n) \in Seq(S) /\ Len(SubSeq(s, 1, n)) = n
  BY <1>1, UpToFacts
<1>3. \A i \in (n + 1)..Len(s) : s[i] \in S
  BY <1>1
<1>4. /\ SubSeq(s, n + 1, Len(s)) \in Seq(S)
      /\ Len(SubSeq(s, n + 1, Len(s))) = IF n + 1 <= Len(s) THEN Len(s) - (n + 1) + 1 ELSE 0
  BY <1>1, <1>3, SubSeqProperties
<1>5. 1 \in 1..(Len(s) + 1) /\ n \in (1 - 1)..Len(s) /\ Len(s) \in n..Len(s)
  BY <1>1
<1>6. SubSeq(s, 1, n) \o SubSeq(s, n + 1, Len(s)) = SubSeq(s, 1, Len(s))
  BY <1>5, ConcatAdjacentSubSeq
<1>7. SubSeq(s, 1, Len(s)) = s
  BY SubSeqFull
<1>8. Len(SubSeq(s, n + 1, Len(s))) = Len(s) - n
  BY <1>1, <1>4
<1>9. SubSeq(s, 1, n) \o SubSeq(s, n + 1, Len(s)) = s
  BY <1>6, <1>7
<1> QED
  BY <1>2, <1>4, <1>8, <1>9

\* All but the last element, and the last.
LEMMA FrontLastFacts ==
    ASSUME NEW S, NEW s \in Seq(S), s # <<>>
    PROVE  /\ Front(s) \in Seq(S) /\ Len(Front(s)) = Len(s) - 1 /\ Len(s) \in Nat \ {0}
           /\ Last(s) \in S /\ Front(s) \o <<Last(s)>> = s
<1>1. Len(s) \in Nat \ {0}
  BY EmptySeq
<1>2. SubSeq(s, 1, Len(s) - 1) \in Seq(S) /\ Len(SubSeq(s, 1, Len(s) - 1)) = Len(s) - 1
  <2>1. Len(s) - 1 \in 0..Len(s)
    BY <1>1
  <2> QED
    BY <2>1, CutFacts
<1>3. s[Len(s)] \in S
  BY <1>1, ElementOfSeq
<1>4. SubSeq(s, 1, Len(s)) = SubSeq(s, 1, Len(s) - 1) \o <<s[Len(s)]>>
  BY <1>1, SubSeqRecursiveSecond
<1>5. SubSeq(s, 1, Len(s)) = s
  BY SubSeqFull
<1> QED
  BY <1>1, <1>2, <1>3, <1>4, <1>5 DEF Front, Last

\* Sequences that agree up to n have the same first n elements.
LEMMA SamePrefix ==
    ASSUME NEW S, NEW s \in Seq(S), NEW t \in Seq(S), NEW n \in 0..Len(s), n <= Len(t)
    PROVE  SubSeq(s, 1, n) = SubSeq(t, 1, n) <=> \A i \in 1..n : s[i] = t[i]
<1>1. Len(s) \in Nat /\ Len(t) \in Nat
  BY LenProperties
<1>2. /\ SubSeq(s, 1, n) \in Seq(S) /\ Len(SubSeq(s, 1, n)) = n
      /\ \A i \in 1..n : SubSeq(s, 1, n)[i] = s[i]
  BY <1>1, UpToFacts
<1>3. /\ SubSeq(t, 1, n) \in Seq(S) /\ Len(SubSeq(t, 1, n)) = n
      /\ \A i \in 1..n : SubSeq(t, 1, n)[i] = t[i]
  BY <1>1, UpToFacts
<1>4. ASSUME \A i \in 1..n : s[i] = t[i] PROVE SubSeq(s, 1, n) = SubSeq(t, 1, n)
  <2>1. \A i \in 1..n : SubSeq(s, 1, n)[i] = SubSeq(t, 1, n)[i]
    BY <1>2, <1>3, <1>4
  <2> QED
    BY <1>2, <1>3, <2>1, SeqEqual
<1>5. ASSUME SubSeq(s, 1, n) = SubSeq(t, 1, n) PROVE \A i \in 1..n : s[i] = t[i]
  BY <1>2, <1>3, <1>5
<1> QED
  BY <1>4, <1>5

\* CommonLen is well defined: some prefix is the longest common one.
LEMMA CommonLenFacts ==
    ASSUME NEW S, NEW s \in Seq(S), NEW t \in Seq(S)
    PROVE  /\ CommonLen(s, t) \in 0..Len(s) /\ CommonLen(s, t) <= Len(t)
           /\ SubSeq(s, 1, CommonLen(s, t)) = SubSeq(t, 1, CommonLen(s, t))
<1> DEFINE Good0(k) == /\ k <= Len(t) /\ SubSeq(s, 1, k) = SubSeq(t, 1, k)
                       /\ k = Len(s) \/ k = Len(t) \/ s[k + 1] # t[k + 1]
           T == {k \in 0..Len(s) : k <= Len(t) /\ \A i \in 1..k : s[i] = t[i]}
<1>1. Len(s) \in Nat /\ Len(t) \in Nat
  BY LenProperties
<1>2. 0 \in T
  BY <1>1
<1>3. PICK x \in T : \A y \in T : y <= x
  BY <1>1, <1>2, GreatestNumber
<1>4. x \in 0..Len(s) /\ x <= Len(t) /\ \A i \in 1..x : s[i] = t[i]
  BY <1>3
<1>5. SubSeq(s, 1, x) = SubSeq(t, 1, x)
  BY <1>1, <1>4, SamePrefix
<1>6. ASSUME x # Len(s), x # Len(t), s[x + 1] = t[x + 1] PROVE FALSE
  <2>1. x + 1 \in 0..Len(s) /\ x + 1 <= Len(t) /\ ~ (x + 1 <= x)
    BY <1>1, <1>4, <1>6
  <2>2. \A i \in 1..(x + 1) : i \in 1..x \/ i = x + 1
    BY <1>4
  <2>3. x + 1 \in T
    BY <1>4, <1>6, <2>1, <2>2
  <2> QED
    BY <1>3, <2>1, <2>3
<1>7. x \in 0..Len(s) /\ Good0(x)
  BY <1>4, <1>5, <1>6
<1>8. CommonLen(s, t) \in 0..Len(s) /\ Good0(CommonLen(s, t))
  <2>1. CommonLen(s, t) = CHOOSE k \in 0..Len(s) : Good0(k)
    BY DEF CommonLen
  <2> HIDE DEF Good0
  <2> QED
    BY <1>7, <2>1
<1> QED
  BY <1>8

----------------------------------------------------------------------------
(* Extensions                                                              *)

\* The function that Extension defines by recursion.
IsUpTo(f, c, b, s) ==
    f = [n \in 0..Len(c.pending) |->
           IF n = 0 THEN <<>>
           ELSE f[n - 1] \o (IF c.pending[n].seq = s THEN b[c.pending[n].src] ELSE <<>>)]

\* The vector of extensions: no two are of the same sequence.
PendingRight(c) ==
    /\ c.pending \in Seq([seq : Nat, src : Entries])
    /\ \A i, j \in DOMAIN c.pending : c.pending[i].seq = c.pending[j].seq => i = j

BuffersRight(b) == \A e \in Entries : b[e] \in Seq(Tokens)

\* A sequence that is extended gets what its buffer holds, the others nothing.
LEMMA ExtensionFacts ==
    ASSUME NEW c, NEW b, NEW s, PendingRight(c), BuffersRight(b)
    PROVE  /\ Extension(c, b, s) \in Seq(Tokens)
           /\ (\A i \in DOMAIN c.pending : c.pending[i].seq # s) => Extension(c, b, s) = <<>>
           /\ \A i \in DOMAIN c.pending :
                c.pending[i].seq = s => Extension(c, b, s) = b[c.pending[i].src]
<1> DEFINE p == c.pending
           N == Len(c.pending)
           X == Seq(Tokens)
           part(n) == IF p[n].seq = s THEN b[p[n].src] ELSE <<>>
           step == [q \in (1..N) \X X |-> q[2] \o part(q[1])]
<1>1. N \in Nat /\ DOMAIN p = 1..N /\ \A n \in 1..N : p[n] \in [seq : Nat, src : Entries]
  BY LenProperties, ElementOfSeq DEF PendingRight
<1>2. <<>> \in X
  BY EmptySeq
<1>3. \A n \in 1..N : part(n) \in X
  BY <1>1, <1>2 DEF BuffersRight
<1>4. step \in [(1..N) \X X -> X]
  <2>1. ASSUME NEW q \in (1..N) \X X PROVE q[2] \o part(q[1]) \in X
    <3>1. q[2] \in X /\ part(q[1]) \in X
      BY <1>3
    <3> HIDE DEF part
    <3> QED
      BY <3>1, ConcatProperties
  <2> QED
    BY <2>1
<1>5. PICK g \in [0..N -> X] : IsIterated(g, N, <<>>, step)
  <2> HIDE DEF step, N, X
  <2> QED
    BY <1>1, <1>2, <1>4, IteratedExists
<1>6. IsUpTo(g, c, b, s)
  <2>1. ASSUME NEW n \in 0..N, n # 0 PROVE step[<<n, g[n - 1]>>] = g[n - 1] \o part(n)
    <3>1. n \in 1..N /\ n - 1 \in 0..N
      BY <1>1, <2>1
    <3>2. g[n - 1] \in X
      BY <1>5, <3>1
    <3> HIDE DEF part, X
    <3> QED
      BY <3>1, <3>2
  <2>2. g = [n \in 0..N |-> IF n = 0 THEN <<>> ELSE step[<<n, g[n - 1]>>]]
    BY <1>5 DEF IsIterated
  <2>3. g = [n \in 0..N |-> IF n = 0 THEN <<>> ELSE g[n - 1] \o part(n)]
    <3> HIDE DEF step, part
    <3> QED
      BY <2>1, <2>2
  <2> QED
    BY <2>3 DEF IsUpTo
<1>7. PICK f : IsUpTo(f, c, b, s) /\ Extension(c, b, s) = f[N]
  <2> DEFINE h == CHOOSE x : IsUpTo(x, c, b, s)
  <2>1. IsUpTo(h, c, b, s)
    BY <1>6
  <2>2. Extension(c, b, s) = h[N]
    BY Zenon DEF Extension, IsUpTo
  <2> QED
    BY <2>1, <2>2
<1>8. /\ f[0] = <<>>
      /\ \A n \in 1..N : f[n] = f[n - 1] \o part(n)
  <2>1. f = [n \in 0..N |-> IF n = 0 THEN <<>> ELSE f[n - 1] \o part(n)]
    BY <1>7 DEF IsUpTo
  <2> HIDE DEF part
  <2>2. f[0] = <<>>
    BY <1>1, <2>1
  <2>3. ASSUME NEW n \in 1..N PROVE f[n] = f[n - 1] \o part(n)
    <3>1. n \in 0..N /\ n # 0
      BY <1>1
    <3> HIDE DEF N
    <3> QED
      BY <2>1, <3>1, Zenon
  <2> QED
    BY <2>2, <2>3
<1> DEFINE T == {n \in 0..N :
                   /\ f[n] \in X
                   /\ (\A i \in 1..n : p[i].seq # s) => f[n] = <<>>
                   /\ \A i \in 1..n : p[i].seq = s => f[n] = b[p[i].src]}
<1>9. 0 \in T
  <2>1. f[0] = <<>> /\ f[0] \in X /\ 0 \in 0..N /\ 1..0 = {}
    BY <1>1, <1>2, <1>8
  <2> QED
    BY <2>1
<1>10. ASSUME NEW n \in 1..N, n - 1 \in T PROVE n \in T
  <2>1. f[n - 1] \in X /\ part(n) \in X /\ f[n] = f[n - 1] \o part(n)
    BY <1>3, <1>8, <1>10
  <2>2. f[n] \in X
    <3> HIDE DEF part
    <3> QED
      BY <2>1, ConcatProperties
  <2>3. \A i \in 1..n : i \in 1..(n - 1) \/ i = n
    BY <1>1
  <2>4. CASE p[n].seq = s
    <3>1. ASSUME NEW i \in 1..(n - 1) PROVE p[i].seq # s
      <4>1. i \in 1..N /\ n \in 1..N /\ i # n
        BY <1>1
      <4>2. i \in DOMAIN p /\ n \in DOMAIN p
        BY <1>1, <4>1
      <4>3. p[i].seq = p[n].seq => i = n
        BY <4>2 DEF PendingRight
      <4> QED
        BY <2>4, <4>1, <4>3
    <3>2. f[n - 1] = <<>> /\ part(n) = b[p[n].src]
      BY <1>10, <2>4, <3>1
    <3>3. f[n] = b[p[n].src]
      <4>1. f[n] = <<>> \o part(n)
        BY <2>1, <3>2
      <4>2. <<>> \o part(n) = part(n)
        <5> HIDE DEF part
        <5> QED
          BY <2>1, ConcatEmptySeq
      <4> QED
        BY <3>2, <4>1, <4>2
    <3> QED
      BY <2>2, <2>3, <2>4, <3>1, <3>3
  <2>5. CASE p[n].seq # s
    <3>1. f[n] = f[n - 1]
      BY <2>1, <2>5, ConcatEmptySeq
    <3> QED
      BY <1>10, <2>2, <2>3, <2>5, <3>1
  <2> QED
    BY <2>4, <2>5
<1>11. \A n \in 0..N : n \in T
  <2> HIDE DEF T
  <2> QED
    BY <1>1, <1>9, <1>10, IntervalInduction
<1>12. N \in T
  BY <1>1, <1>11
<1> QED
  BY <1>1, <1>7, <1>12

----------------------------------------------------------------------------
(* What the cache believes and what the models hold                        *)

\* A sequence of the cache and the KV cache of the models: the KV cache is never
\* ahead, and without preemptions the two are the same.
Agrees(toks, kv) ==
    /\ toks \in Seq(Tokens) /\ kv \in Seq(Tokens) /\ Len(kv) <= Len(toks)
    /\ ~Preempts => toks = kv

\* What the cache believes a sequence holds once the extensions are committed.
Believed(c, b, s) == c.seqs[s] \o Extension(c, b, s)

TokensRight(c, b) ==
    /\ PendingRight(c) /\ BuffersRight(b)
    /\ \A s \in DOMAIN c.seqs : c.seqs[s] \in Seq(Tokens) /\ Agrees(Believed(c, b, s), c.kv[s])

\* The same of a cache without uncommitted extensions.
Settled(c) ==
    /\ c.pending = <<>>
    /\ \A s \in DOMAIN c.seqs : Agrees(c.seqs[s], c.kv[s])

\* Both are cut by the same number of tokens.
LEMMA AgreesCut ==
    ASSUME NEW t, NEW k, Agrees(t, k), NEW n \in 0..Len(t)
    PROVE  Agrees(SubSeq(t, 1, n), DropLast(k, Len(t) - n))
<1>1. t \in Seq(Tokens) /\ k \in Seq(Tokens) /\ Len(k) \in Nat /\ Len(t) \in Nat /\ Len(k) <= Len(t)
  BY LenProperties DEF Agrees
<1>2. SubSeq(t, 1, n) \in Seq(Tokens) /\ Len(SubSeq(t, 1, n)) = n
  BY <1>1, CutFacts
<1> DEFINE m == Len(k) - (Len(t) - n)
<1>3. m \in Int /\ m <= Len(k) /\ m <= n
  BY <1>1
<1> HIDE DEF m
<1>4. SubSeq(k, 1, m) \in Seq(Tokens) /\ Len(SubSeq(k, 1, m)) = IF m >= 0 THEN m ELSE 0
  BY <1>1, <1>3, UpToFacts
<1>5. Len(SubSeq(k, 1, m)) <= n
  BY <1>3, <1>4
<1>6. DropLast(k, Len(t) - n) = SubSeq(k, 1, m)
  BY DEF DropLast, m
<1>7. ASSUME ~Preempts PROVE SubSeq(t, 1, n) = SubSeq(k, 1, m)
  <2>1. t = k
    BY <1>7 DEF Agrees
  <2>2. m = n
    BY <1>1, <2>1 DEF m
  <2> QED
    BY <2>1, <2>2
<1> QED
  BY <1>2, <1>4, <1>5, <1>6, <1>7 DEF Agrees

\* A fork takes the same number of tokens from both, and all at the tail.
LEMMA AgreesFork ==
    ASSUME NEW t, NEW k, Agrees(t, k), NEW n \in 0..Len(t)
    PROVE  Agrees(SubSeq(t, 1, n), ForkedAt(k, n)) /\ (n = Len(t) => ForkedAt(k, n) = k)
<1>1. t \in Seq(Tokens) /\ k \in Seq(Tokens) /\ Len(k) \in Nat /\ Len(t) \in Nat /\ Len(k) <= Len(t)
  BY LenProperties DEF Agrees
<1>2. SubSeq(t, 1, n) \in Seq(Tokens) /\ Len(SubSeq(t, 1, n)) = n
  BY <1>1, CutFacts
<1> DEFINE m == IF n < Len(k) THEN n ELSE Len(k)
<1>3. m \in 0..Len(k) /\ m <= n
  BY <1>1
<1>4. ForkedAt(k, n) = SubSeq(k, 1, m)
  BY DEF ForkedAt
<1>5. n = Len(t) => m = Len(k)
  BY <1>1
<1>6. ~Preempts => t = k /\ m = n
  BY <1>1 DEF Agrees
<1> HIDE DEF m
<1>7. SubSeq(k, 1, m) \in Seq(Tokens) /\ Len(SubSeq(k, 1, m)) = m
  BY <1>1, <1>3, CutFacts
<1>8. n = Len(t) => ForkedAt(k, n) = k
  BY <1>1, <1>4, <1>5, SubSeqFull
<1> QED
  BY <1>2, <1>3, <1>4, <1>6, <1>7, <1>8 DEF Agrees

\* Both get new tokens, the cache at least as many.
LEMMA AgreesAppend ==
    ASSUME NEW t, NEW k, Agrees(t, k), NEW x \in Seq(Tokens), NEW y \in Seq(Tokens),
           Len(x) <= Len(y), ~Preempts => x = y
    PROVE  Agrees(t \o y, k \o x)
<1>1. t \in Seq(Tokens) /\ k \in Seq(Tokens) /\ Len(k) <= Len(t)
  BY DEF Agrees
<1>2. Len(k) \in Nat /\ Len(t) \in Nat /\ Len(x) \in Nat /\ Len(y) \in Nat
  BY <1>1, LenProperties
<1>3. t \o y \in Seq(Tokens) /\ Len(t \o y) = Len(t) + Len(y)
  BY <1>1, ConcatProperties
<1>4. k \o x \in Seq(Tokens) /\ Len(k \o x) = Len(k) + Len(x)
  BY <1>1, ConcatProperties
<1>5. Len(k \o x) <= Len(t \o y)
  BY <1>1, <1>2, <1>3, <1>4
<1>6. ~Preempts => t \o y = k \o x
  BY DEF Agrees
<1> QED
  BY <1>3, <1>4, <1>5, <1>6 DEF Agrees

\* Nothing new.
LEMMA AgreesEmpty == Agrees(<<>>, <<>>)
  BY EmptySeq DEF Agrees

\* Without extensions a cache believes what it has.
LEMMA SettledFacts ==
    ASSUME NEW c, NEW b, Settled(c), BuffersRight(b)
    PROVE  /\ TokensRight(c, b)
           /\ \A s \in DOMAIN c.seqs : c.seqs[s] \o Extension(c, b, s) = c.seqs[s]
<1>1. PendingRight(c)
  BY EmptySeq DEF Settled, PendingRight
<1>2. \A s : Extension(c, b, s) = <<>>
  <2>1. \A i \in DOMAIN c.pending : FALSE
    BY DEF Settled
  <2> QED
    BY <1>1, <2>1, ExtensionFacts
<1>3. \A s \in DOMAIN c.seqs : c.seqs[s] \in Seq(Tokens) /\ c.seqs[s] \o <<>> = c.seqs[s]
  BY ConcatEmptySeq DEF Settled, Agrees
<1> QED
  BY <1>1, <1>2, <1>3 DEF TokensRight, Settled, Believed

\* A commit makes the cache what it was believed to be.
LEMMA CommitSettles ==
    ASSUME NEW c, NEW b, GoodMaps(c), TokensRight(c, b)
    PROVE  LET d == CommitSequenceExtention(c, b)
           IN  /\ Settled(d) /\ DOMAIN d.seqs = DOMAIN c.seqs /\ d.kv = c.kv
               /\ \A s \in DOMAIN c.seqs : d.seqs[s] = Believed(c, b, s)
<1> DEFINE d == CommitSequenceExtention(c, b)
<1>1. /\ d.seqs = [s \in DOMAIN c.seqs |-> c.seqs[s] \o Extension(c, b, s)]
      /\ d.pending = <<>> /\ d.kv = c.kv
  BY DEF CommitSequenceExtention, GoodMaps, IsCache
<1>2. \A s \in DOMAIN c.seqs : d.seqs[s] = Believed(c, b, s)
  BY <1>1 DEF Believed
<1> QED
  BY <1>1, <1>2 DEF TokensRight, Settled

\* Sequences that are left are the same in d as in c.
StillThere(c, d) ==
    \A s \in DOMAIN d.seqs : s \in DOMAIN c.seqs /\ d.seqs[s] = c.seqs[s] /\ d.kv[s] = c.kv[s]

\* The tokens of the sequences that are left stay right.
LEMMA KeptFacts ==
    ASSUME NEW c, NEW d, NEW b, StillThere(c, d), d.pending = c.pending
    PROVE  /\ TokensRight(c, b) => TokensRight(d, b)
           /\ Settled(c) => Settled(d)
<1>1. \A s : Extension(d, b, s) = Extension(c, b, s)
  BY DEF Extension
<1>2. PendingRight(c) => PendingRight(d)
  BY DEF PendingRight
<1> QED
  BY <1>1, <1>2 DEF TokensRight, Settled, StillThere, Believed

\* Removing a sequence leaves the others.
LEMMA RemoveKept ==
    ASSUME NEW c, NEW s, GoodMaps(c), DOMAIN c.kv = DOMAIN c.seqs
    PROVE  StillThere(c, RemoveSequence(c, s)) /\ RemoveSequence(c, s).pending = c.pending
<1> DEFINE e == [c EXCEPT !.seqs = Erase(c.seqs, s), !.states = Erase(c.states, s),
                          !.windows = Erase(c.windows, s)]
           r == RemoveRequestFromModel(e, s)
           d == RemoveSequence(c, s)
<1>1. IsCache(e) /\ e.seqs = Erase(c.seqs, s) /\ e.kv = c.kv /\ e.pending = c.pending
  BY DEF GoodMaps, IsCache
<1>2. IsCache(r) /\ r.seqs = e.seqs /\ r.kv = Erase(e.kv, s) /\ r.pending = e.pending
  BY <1>1 DEF RemoveRequestFromModel, IsCache
<1>3. d = RecycleId(r, s)
  BY DEF RemoveSequence, RemoveCallback
<1> HIDE DEF r, e
<1>4. d.seqs = r.seqs /\ d.kv = r.kv /\ d.pending = r.pending
  BY <1>2, <1>3 DEF RecycleId, IsCache
<1> HIDE DEF d
<1> SUFFICES StillThere(c, d) /\ d.pending = c.pending
  BY DEF d
<1> QED
  BY <1>1, <1>2, <1>4 DEF StillThere, Erase

\* Eviction, too.
LEMMA FreeKept ==
    ASSUME NEW c, NEW d \in TryFreeMemory(c), GoodMaps(c), GoodIds(c), DOMAIN c.kv = DOMAIN c.seqs
    PROVE  StillThere(c, d) /\ d.pending = c.pending
<1>1. PICK l \in DOMAIN c.lruSeqs : d = Evict(c, c.lruSeqs[l])
  BY DEF TryFreeMemory
<1> DEFINE v == c.lruSeqs[l]
           r == RemoveSequence(c, v)
<1>2. v \in DOMAIN c.seqs
  BY DEF GoodMaps
<1>3. StillThere(c, r) /\ r.pending = c.pending
  BY RemoveKept
<1>4. IsCache(r)
  BY <1>2, RemoveFacts DEF Removal
<1>5. d = [r EXCEPT !.lrus = Erase(c.lrus, v), !.lruSeqs = Erase(c.lruSeqs, c.lrus[v])]
  BY <1>1 DEF Evict
<1> HIDE DEF r, v
<1>6. d.seqs = r.seqs /\ d.kv = r.kv /\ d.pending = r.pending
  BY <1>4, <1>5 DEF IsCache
<1> QED
  BY <1>3, <1>6 DEF StillThere

\* RecycleSequence leaves a settled cache.
LEMMA RecycleSettles ==
    ASSUME NEW c, NEW b, NEW s, NEW lazy \in BOOLEAN, NEW d \in RecycleSequence(c, b, s, lazy),
           GoodMaps(c), GoodIds(c), DOMAIN c.kv = DOMAIN c.seqs, TokensRight(c, b)
    PROVE  /\ Settled(d)
           /\ \A t \in DOMAIN d.seqs : t \in DOMAIN c.seqs /\ d.kv[t] = c.kv[t]
<1> DEFINE c1 == CommitSequenceExtention(c, b)
<1>1. /\ GoodMaps(c1) /\ GoodIds(c1) /\ c1.kv = c.kv
      /\ DOMAIN c1.seqs = DOMAIN c.seqs /\ DOMAIN c1.kv = DOMAIN c1.seqs
  BY CommitFacts
<1>2. Settled(c1)
  BY CommitSettles
<1>3. \/ \E c2 \in TryFreeMemory(c1) : d = MarkRecycling(c2, s)
      \/ d = MarkRecycling(c1, s)
      \/ d = RemoveSequence(c1, s)
  BY DEF RecycleSequence
<1> HIDE DEF c1
<1>4. ASSUME NEW x, IsCache(x)
      PROVE  LET y == MarkRecycling(x, s)
             IN  y.seqs = x.seqs /\ y.kv = x.kv /\ y.pending = x.pending
  BY <1>4 DEF MarkRecycling, IsCache
<1>5. StillThere(c1, d) /\ d.pending = c1.pending
  <2>1. CASE \E c2 \in TryFreeMemory(c1) : d = MarkRecycling(c2, s)
    <3>1. PICK c2 \in TryFreeMemory(c1) : d = MarkRecycling(c2, s)
      BY <2>1
    <3>2. StillThere(c1, c2) /\ c2.pending = c1.pending
      BY <1>1, FreeKept
    <3>3. IsCache(c2)
      <4>1. PICK l \in DOMAIN c1.lruSeqs : c2 = Evict(c1, c1.lruSeqs[l])
        BY DEF TryFreeMemory
      <4>2. c1.lruSeqs[l] \in DOMAIN c1.lrus
        BY <1>1 DEF GoodMaps
      <4>3. GoodMaps(c2)
        BY <1>1, <4>1, <4>2, EvictFacts
      <4> QED
        BY <4>3 DEF GoodMaps
    <3>4. d.seqs = c2.seqs /\ d.kv = c2.kv /\ d.pending = c2.pending
      BY <1>4, <3>1, <3>3
    <3> QED
      BY <3>2, <3>4 DEF StillThere
  <2>2. CASE d = MarkRecycling(c1, s)
    <3>1. IsCache(c1)
      BY <1>1 DEF GoodMaps
    <3>2. d.seqs = c1.seqs /\ d.kv = c1.kv /\ d.pending = c1.pending
      BY <1>4, <2>2, <3>1
    <3> QED
      BY <3>2 DEF StillThere
  <2>3. CASE d = RemoveSequence(c1, s)
    BY <1>1, <2>3, RemoveKept
  <2> QED
    BY <1>3, <2>1, <2>2, <2>3
<1>6. Settled(d)
  BY <1>2, <1>5, KeptFacts
<1> QED
  BY <1>1, <1>5, <1>6 DEF StillThere

----------------------------------------------------------------------------
(* Matching                                                                *)

\* The outcomes of PlaceSequence, one after the other.
LEMMA PlaceCases ==
    ASSUME NEW c, NEW s, NEW off, NEW matched, NEW o \in PlaceSequence(c, s, off, matched, Window)
    PROVE  \/ /\ off > 0
              /\ \E m \in Exact(c, matched, off, Window) :
                   o = [c |-> ReuseRecyclingSequence(c, m), res |-> Result(off, NoSeq, m, 0)]
           \/ /\ off > 0
              /\ \E m \in Shortest(c, matched, off, Window) :
                   o = [c |-> [ReuseRecyclingSequence(c, m) EXCEPT
                                  !.seqs = Put(c.seqs, m, SubSeq(c.seqs[m], 1, off))],
                        res |-> Result(off, NoSeq, m, Len(c.seqs[m]) - off)]
           \/ /\ off > 0
              /\ \E m \in Forkable(c, matched, off) :
                   o = [c |-> NewSequence(c, s, SubSeq(c.seqs[m], 1, off), Window),
                        res |-> Result(off, m, NoSeq, 0)]
           \/ o = [c |-> NewSequence(c, s, <<>>, Window), res |-> Result(0, NoSeq, NoSeq, 0)]
<1> DEFINE E == IF Window # NoWindow THEN Exact(c, matched, off, Window) ELSE {}
           H == IF Window = NoWindow THEN Shortest(c, matched, off, Window) ELSE {}
           F == IF Window = NoWindow THEN Forkable(c, matched, off) ELSE {}
<1>1. CASE off > 0 /\ E # {}
  BY <1>1 DEF PlaceSequence
<1>2. CASE ~(off > 0 /\ E # {}) /\ off > 0 /\ H # {}
  BY <1>2 DEF PlaceSequence
<1>3. CASE ~(off > 0 /\ E # {}) /\ ~(off > 0 /\ H # {}) /\ off > 0 /\ F # {}
  BY <1>3 DEF PlaceSequence
<1>4. CASE ~(off > 0 /\ E # {}) /\ ~(off > 0 /\ H # {}) /\ ~(off > 0 /\ F # {})
  BY <1>4 DEF PlaceSequence
<1> QED
  BY <1>1, <1>2, <1>3, <1>4

\* Sequence m of c starts with the first n tokens.
StartsWith(c, m, toks, n) ==
    /\ m \in DOMAIN c.seqs /\ n \in 1..Len(c.seqs[m]) /\ n < Len(toks)
    /\ SubSeq(c.seqs[m], 1, n) = SubSeq(toks, 1, n)

\* What the result of InsertSequence says about the tokens of the settled cache c:
\* a sequence is reused and cut, or forked, or nothing is matched.
PlacedReused(c, o, toks) ==
    LET m == o.res.reused
        n == o.res.prefilled
    IN  /\ m # NoSeq /\ StartsWith(c, m, toks, n) /\ o.res.pop = Len(c.seqs[m]) - n
        /\ \A t \in DOMAIN c.seqs :
             o.c.seqs[t] = IF t = m THEN SubSeq(c.seqs[m], 1, n) ELSE c.seqs[t]
PlacedForked(c, o, s, toks) ==
    LET m == o.res.forked
        n == o.res.prefilled
    IN  /\ o.res.reused = NoSeq /\ m # NoSeq /\ StartsWith(c, m, toks, n)
        /\ AllowNonTailForks \/ Len(c.seqs[m]) = n
        /\ o.c.seqs = Put(c.seqs, s, SubSeq(c.seqs[m], 1, n))
PlacedNew(c, o, s) ==
    /\ o.res.reused = NoSeq /\ o.res.forked = NoSeq /\ o.res.prefilled = 0
    /\ o.c.seqs = Put(c.seqs, s, <<>>)

\* The matched sequences start with the matched prefix, which leaves the last token.
LEMMA MatchedFacts ==
    ASSUME NEW c, Settled(c), NEW toks \in Seq(Tokens), toks # <<>>,
           NEW off, off = MatchedOffset(c, Front(toks)),
           NEW m \in MatchedSeqs(c, Front(toks)), off > 0
    PROVE  StartsWith(c, m, toks, off)
<1> DEFINE pre == Front(toks)
<1>1. /\ pre \in Seq(Tokens) /\ Len(pre) = Len(toks) - 1 /\ Len(toks) \in Nat \ {0}
  BY FrontLastFacts
<1>2. m \in DOMAIN c.seqs /\ CommonLen(pre, c.seqs[m]) = off
  BY DEF MatchedSeqs
<1>3. c.seqs[m] \in Seq(Tokens) /\ Len(c.seqs[m]) \in Nat
  BY <1>2, LenProperties DEF Settled, Agrees
<1>4. /\ off \in 0..Len(pre) /\ off <= Len(c.seqs[m])
      /\ SubSeq(pre, 1, off) = SubSeq(c.seqs[m], 1, off)
  BY <1>1, <1>2, <1>3, CommonLenFacts
<1>5. off \in 1..Len(c.seqs[m]) /\ off < Len(toks) /\ off \in 0..Len(toks) /\ off <= Len(pre)
  BY <1>1, <1>3, <1>4
<1>6. SubSeq(pre, 1, off) = SubSeq(toks, 1, off)
  <2>1. Len(toks) - 1 \in Int /\ Len(toks) - 1 <= Len(toks)
    BY <1>1
  <2>2. \A i \in 1..(Len(toks) - 1) : SubSeq(toks, 1, Len(toks) - 1)[i] = toks[i]
    BY <2>1, UpToFacts
  <2>3. \A i \in 1..off : toks[i] = pre[i]
    BY <1>1, <1>4, <2>2 DEF Front
  <2> HIDE DEF pre
  <2> QED
    BY <1>1, <1>5, <2>3, SamePrefix
<1> QED
  BY <1>2, <1>4, <1>5, <1>6 DEF StartsWith

\* InsertSequence after its commit.
LEMMA PlaceTokens ==
    ASSUME NEW c, GoodMaps(c), GoodIds(c), Settled(c), NEW s,
           NEW toks \in Seq(Tokens), toks # <<>>,
           NEW o \in PlaceSequence(c, s, MatchedOffset(c, Front(toks)),
                                   MatchedSeqs(c, Front(toks)), Window)
    PROVE  PlacedReused(c, o, toks) \/ PlacedForked(c, o, s, toks) \/ PlacedNew(c, o, s)
<1> DEFINE off == MatchedOffset(c, Front(toks))
           matched == MatchedSeqs(c, Front(toks))
<1>1. ASSUME off > 0, NEW m \in matched PROVE StartsWith(c, m, toks, off) /\ m # NoSeq
  <2>1. StartsWith(c, m, toks, off)
    BY <1>1, MatchedFacts
  <2>2. m \in 0..(c.idCnt - 1) /\ c.idCnt \in Nat
    BY <2>1 DEF StartsWith, GoodIds
  <2> QED
    BY <2>1, <2>2 DEF NoSeq
<1>2. IsCache(c)
  BY DEF GoodMaps
<1> HIDE DEF off, matched
<1>3. CASE /\ off > 0
           /\ \E m \in Exact(c, matched, off, Window) :
                o = [c |-> ReuseRecyclingSequence(c, m), res |-> Result(off, NoSeq, m, 0)]
  <2>1. PICK m \in Exact(c, matched, off, Window) :
           o = [c |-> ReuseRecyclingSequence(c, m), res |-> Result(off, NoSeq, m, 0)]
    BY <1>3
  <2>2. m \in matched /\ Len(c.seqs[m]) = off
    BY DEF Exact, Reusable
  <2>3. StartsWith(c, m, toks, off) /\ m # NoSeq
    BY <1>1, <1>3, <2>2
  <2>4. c.seqs[m] \in Seq(Tokens)
    BY <2>3 DEF StartsWith, Settled, Agrees
  <2>5. SubSeq(c.seqs[m], 1, off) = c.seqs[m]
    BY <2>2, <2>4, SubSeqFull
  <2>6. ReuseRecyclingSequence(c, m).seqs = c.seqs
    BY <1>2 DEF ReuseRecyclingSequence, IsCache
  <2>7. o.res.reused = m /\ o.res.prefilled = off /\ o.res.pop = 0 /\ o.c.seqs = c.seqs
    BY <2>1, <2>6 DEF Result
  <2>8. 0 = Len(c.seqs[m]) - off
    BY <2>2, <2>3 DEF StartsWith
  <2> QED
    BY <2>3, <2>5, <2>7, <2>8 DEF PlacedReused
<1>4. CASE /\ off > 0
           /\ \E m \in Shortest(c, matched, off, Window) :
                o = [c |-> [ReuseRecyclingSequence(c, m) EXCEPT
                              !.seqs = Put(c.seqs, m, SubSeq(c.seqs[m], 1, off))],
                     res |-> Result(off, NoSeq, m, Len(c.seqs[m]) - off)]
  <2>1. PICK m \in Shortest(c, matched, off, Window) :
           o = [c |-> [ReuseRecyclingSequence(c, m) EXCEPT
                              !.seqs = Put(c.seqs, m, SubSeq(c.seqs[m], 1, off))],
                res |-> Result(off, NoSeq, m, Len(c.seqs[m]) - off)]
    BY <1>4
  <2>2. m \in matched
    BY DEF Shortest, Reusable
  <2>3. StartsWith(c, m, toks, off) /\ m # NoSeq
    BY <1>1, <1>4, <2>2
  <2>4. IsCache(ReuseRecyclingSequence(c, m))
    BY <1>2 DEF ReuseRecyclingSequence, IsCache
  <2>5. o.c.seqs = Put(c.seqs, m, SubSeq(c.seqs[m], 1, off))
    BY <2>1, <2>4 DEF IsCache
  <2>6. o.res.reused = m /\ o.res.prefilled = off /\ o.res.pop = Len(c.seqs[m]) - off
    BY <2>1 DEF Result
  <2> QED
    BY <2>3, <2>5, <2>6 DEF PlacedReused, Put
<1>5. CASE /\ off > 0
           /\ \E m \in Forkable(c, matched, off) :
                o = [c |-> NewSequence(c, s, SubSeq(c.seqs[m], 1, off), Window),
                     res |-> Result(off, m, NoSeq, 0)]
  <2>1. PICK m \in Forkable(c, matched, off) :
           o = [c |-> NewSequence(c, s, SubSeq(c.seqs[m], 1, off), Window),
                res |-> Result(off, m, NoSeq, 0)]
    BY <1>5
  <2>2. m \in matched /\ (AllowNonTailForks \/ Len(c.seqs[m]) = off)
    BY DEF Forkable
  <2>3. StartsWith(c, m, toks, off) /\ m # NoSeq
    BY <1>1, <1>5, <2>2
  <2>4. NewSequence(c, s, SubSeq(c.seqs[m], 1, off), Window).seqs
          = Put(c.seqs, s, SubSeq(c.seqs[m], 1, off))
    BY <1>2 DEF NewSequence, IsCache
  <2>5. o.res.forked = m /\ o.res.reused = NoSeq /\ o.res.prefilled = off
    BY <2>1 DEF Result
  <2> QED
    BY <2>1, <2>2, <2>3, <2>4, <2>5 DEF PlacedForked
<1>6. CASE o = [c |-> NewSequence(c, s, <<>>, Window), res |-> Result(0, NoSeq, NoSeq, 0)]
  <2>1. NewSequence(c, s, <<>>, Window).seqs = Put(c.seqs, s, <<>>)
    BY <1>2 DEF NewSequence, IsCache
  <2> QED
    BY <1>6, <2>1 DEF PlacedNew, Result
<1>7. o \in PlaceSequence(c, s, off, matched, Window)
  BY DEF off, matched
<1> QED
  BY <1>3, <1>4, <1>5, <1>6, <1>7, PlaceCases

\* A cache that differs from a settled one in sequence m, which agrees with its KV
\* cache, is settled.
LEMMA SettledBut ==
    ASSUME NEW c, NEW d, NEW m, Settled(c), d.pending = <<>>,
           DOMAIN d.seqs = DOMAIN c.seqs \cup {m}, Agrees(d.seqs[m], d.kv[m]),
           \A t \in DOMAIN c.seqs : t # m => d.seqs[t] = c.seqs[t] /\ d.kv[t] = c.kv[t]
    PROVE  Settled(d)
  BY DEF Settled

HoldsTokens(c) == \A t \in DOMAIN c.seqs : c.seqs[t] \in Seq(Tokens)

\* Sequence s of d is the one of c without its last n tokens, the others are the same.
CutIn(c, d, s, n) ==
    /\ d.seqs[s] = DropLast(c.seqs[s], n)
    /\ \A t \in DOMAIN c.seqs : t # s => d.seqs[t] = c.seqs[t]

\* Without extensions a commit changes nothing, and a roll back cuts one sequence.
LEMMA RollBackTokens ==
    ASSUME NEW c, NEW b, NEW s, NEW n, GoodMaps(c), c.pending = <<>>, BuffersRight(b),
           HoldsTokens(c), s \in DOMAIN c.seqs
    PROVE  CutIn(c, RollBackSequence(c, b, s, n), s, n)
<1> DEFINE c1 == CommitSequenceExtention(c, b)
           d == RollBackSequence(c, b, s, n)
<1>1. PendingRight(c) /\ \A i \in DOMAIN c.pending : FALSE
  BY EmptySeq DEF PendingRight
<1>2. \A t : Extension(c, b, t) = <<>>
  BY <1>1, ExtensionFacts
<1>3. c1.seqs = [t \in DOMAIN c.seqs |-> c.seqs[t] \o Extension(c, b, t)] /\ IsCache(c1)
  BY DEF CommitSequenceExtention, GoodMaps, IsCache
<1>4. ASSUME NEW t \in DOMAIN c.seqs PROVE c1.seqs[t] = c.seqs[t]
  <2>1. c1.seqs[t] = c.seqs[t] \o <<>> /\ c.seqs[t] \in Seq(Tokens)
    BY <1>2, <1>3 DEF HoldsTokens
  <2> QED
    BY <2>1, ConcatEmptySeq
<1>5. d = [c1 EXCEPT !.seqs = Put(c1.seqs, s, DropLast(c1.seqs[s], n))]
  BY DEF RollBackSequence
<1> HIDE DEF c1, d
<1>6. d.seqs = Put(c1.seqs, s, DropLast(c1.seqs[s], n))
  BY <1>3, <1>5 DEF IsCache
<1>7. CutIn(c, d, s, n)
  BY <1>3, <1>4, <1>6 DEF Put, CutIn
<1> QED
  BY <1>7 DEF d

----------------------------------------------------------------------------
(* The entries                                                             *)

\* The tokens of an entry: a waiting one has something to prefill, a running one
\* has inputs or a token to decode from, and all it has committed but the last was
\* reported.  Without preemptions it decodes only after its whole prompt.
EntryRight(r) ==
    /\ r.prompt \in Seq(Tokens) /\ r.inputs \in Seq(Tokens) /\ r.committed \in Seq(Tokens)
    /\ r.cached \in Nat /\ (r.cached = 0 \/ r.cached < Len(r.committed))
    /\ r.phase # "none" => r.prompt # <<>>
    /\ r.phase = "pending" => r.inputs # <<>>
    /\ r.phase = "alive" /\ r.inputs = <<>> => r.committed # <<>>
    /\ ~Preempts =>
         /\ r.phase = "pending" => r.inputs = r.prompt /\ r.committed = <<>>
         /\ r.phase = "alive" /\ r.inputs # <<>> => r.committed = <<>>
         /\ r.phase = "alive" /\ r.inputs = <<>> => r.cached = Len(r.committed) - 1

TInv ==
    /\ TokensRight(cache, buf) /\ \A e \in Entries : EntryRight(ents[e])
    /\ eagle \in DOMAIN Prompts

\* MatchPrefixCache leaves entry e with sequence m and without n inputs, other
\* sequences as they were; and what the models then hold for m.
MatchedAt(e, m, n) ==
    /\ n \in 0..(Len(ents[e].inputs) - 1) /\ Matched(e, m, n)
    /\ DOMAIN cache'.kv = DOMAIN cache.kv \cup {m}
    /\ \A t \in DOMAIN cache.kv : t # m => cache'.kv[t] = cache.kv[t]
    /\ ~eagle /\ ~Preempts => cache'.kv[m] = SubSeq(ents[e].inputs, 1, n)
    /\ ~eagle /\ ~AllowNonTailForks /\ m \notin DOMAIN cache.kv =>
         cache'.kv[m] = <<>> \/ \E t \in DOMAIN cache.kv : cache'.kv[m] = cache.kv[t]

\* Without Eagle, all that is matched is taken.
LEMMA MatchTokens ==
    ASSUME IInv, TInv, NEW e \in Entries, MatchPrefixCache(e)
    PROVE  TokensRight(cache', buf') /\ \E m, n : MatchedAt(e, m, n)
<1> DEFINE id == ents[e].id
           toks == ents[e].inputs
           c1 == CommitSequenceExtention(cache, buf)
<1>1. /\ ents[e].phase = "pending" /\ id \notin DOMAIN cache.seqs /\ buf' = buf /\ ~eagle
      /\ DOMAIN ents = Entries /\ toks \in Seq(Tokens) /\ toks # <<>>
      /\ Good(cache) /\ TokensRight(cache, buf)
  BY DEF MatchPrefixCache, HasSequence, IInv, Owns, TInv, EntryRight
<1>2. PICK o \in InsertSequence(cache, buf, id, toks, Window) :
         LET r == o.res
         IN  IF r.reused # NoSeq
             THEN /\ cache' = [RecycleId(o.c, id) EXCEPT
                        !.kv = Put(@, r.reused, DropLast(@[r.reused], r.pop))]
                  /\ Matched(e, r.reused, r.prefilled)
             ELSE /\ cache' = [o.c EXCEPT
                        !.kv = Put(@, id, IF r.forked = NoSeq THEN <<>>
                                          ELSE ForkedAt(@[r.forked], r.prefilled))]
                  /\ Matched(e, id, r.prefilled)
  BY DEF MatchPrefixCache
<1>3. \/ o.res.reused = NoSeq /\ Obtained(cache, o.c, id)
      \/ o.res.reused # NoSeq /\ Obtained(cache, o.c, o.res.reused)
  BY <1>1, InsertFacts DEF Good
<1>4. IsCache(o.c) /\ o.c.kv = cache.kv /\ o.c.pending = <<>>
  BY <1>3 DEF Obtained, GoodMaps
<1>5. /\ GoodMaps(c1) /\ GoodIds(c1) /\ Settled(c1) /\ c1.kv = cache.kv
      /\ DOMAIN c1.seqs = DOMAIN cache.seqs /\ DOMAIN cache.kv = DOMAIN cache.seqs
  BY <1>1, CommitFacts, CommitSettles DEF Good
<1>6. PlacedReused(c1, o, toks) \/ PlacedForked(c1, o, id, toks) \/ PlacedNew(c1, o, id)
  <2>1. o \in PlaceSequence(c1, id, MatchedOffset(c1, Front(toks)),
                            MatchedSeqs(c1, Front(toks)), Window)
    BY DEF InsertSequence
  <2> HIDE DEF c1, toks, id
  <2> QED
    BY <1>1, <1>5, <2>1, PlaceTokens
<1>7. Len(toks) \in Nat \ {0} /\ BuffersRight(buf)
  BY <1>1, EmptySeq DEF TokensRight
<1> HIDE DEF c1, toks, id
<1>8. CASE PlacedReused(c1, o, toks)
  <2> DEFINE m == o.res.reused
             n == o.res.prefilled
             k == cache.kv[m]
             t == c1.seqs[m]
  <2>1. /\ m # NoSeq /\ m \in DOMAIN c1.seqs /\ n \in 1..Len(t) /\ n < Len(toks)
        /\ SubSeq(t, 1, n) = SubSeq(toks, 1, n) /\ o.res.pop = Len(t) - n
        /\ o.c.seqs[m] = SubSeq(t, 1, n)
        /\ \A u \in DOMAIN c1.seqs : u # m => o.c.seqs[u] = c1.seqs[u]
    BY <1>8 DEF PlacedReused, StartsWith
  <2>2. Agrees(t, k) /\ Len(t) \in Nat
    BY <1>5, <2>1, LenProperties DEF Settled, Agrees
  <2>3. n \in 0..Len(t) /\ n \in 0..(Len(toks) - 1)
    BY <1>7, <2>1, <2>2
  <2>4. Agrees(SubSeq(t, 1, n), DropLast(k, Len(t) - n))
    BY <2>2, <2>3, AgreesCut
  <2>5. cache' = [RecycleId(o.c, id) EXCEPT !.kv = Put(@, m, DropLast(@[m], o.res.pop))]
        /\ Matched(e, m, n)
    BY <1>2, <2>1
  <2>6. IsCache(RecycleId(o.c, id)) /\ RecycleId(o.c, id).seqs = o.c.seqs
        /\ RecycleId(o.c, id).kv = o.c.kv /\ RecycleId(o.c, id).pending = o.c.pending
    BY <1>4 DEF RecycleId, IsCache
  <2>7. /\ cache'.seqs = o.c.seqs /\ cache'.pending = <<>>
        /\ cache'.kv = Put(cache.kv, m, DropLast(k, Len(t) - n))
    BY <1>4, <2>1, <2>5, <2>6 DEF IsCache
  <2>8. DOMAIN o.c.seqs = DOMAIN c1.seqs \cup {m}
    BY <1>3, <1>5, <2>1 DEF Obtained
  <2> HIDE DEF m, n, k, t
  <2>9. /\ cache'.kv[m] = DropLast(k, Len(t) - n)
        /\ \A u \in DOMAIN cache.kv : u # m => cache'.kv[u] = cache.kv[u]
        /\ DOMAIN cache'.kv = DOMAIN cache.kv \cup {m}
    BY <2>7 DEF Put
  <2>10. Settled(cache')
    <3>1. /\ \A u \in DOMAIN c1.seqs :
               u # m => cache'.seqs[u] = c1.seqs[u] /\ cache'.kv[u] = c1.kv[u]
          /\ DOMAIN cache'.seqs = DOMAIN c1.seqs \cup {m} /\ cache'.pending = <<>>
          /\ Agrees(cache'.seqs[m], cache'.kv[m])
      BY <1>5, <2>1, <2>4, <2>7, <2>8, <2>9
    <3> QED
      BY <1>5, <3>1, SettledBut
  <2>11. ~Preempts => cache'.kv[m] = SubSeq(toks, 1, n)
    BY <2>1, <2>4, <2>9 DEF Agrees
  <2>12. m \in DOMAIN cache.kv
    BY <1>5, <2>1
  <2>13. MatchedAt(e, m, n)
    BY <1>1, <2>3, <2>5, <2>9, <2>11, <2>12 DEF MatchedAt, toks
  <2> QED
    BY <1>1, <1>7, <2>10, <2>13, SettledFacts
<1>9. CASE PlacedForked(c1, o, id, toks)
  <2> DEFINE m == o.res.forked
             n == o.res.prefilled
             k == cache.kv[m]
             t == c1.seqs[m]
  <2>1. /\ o.res.reused = NoSeq /\ m # NoSeq
        /\ m \in DOMAIN c1.seqs /\ n \in 1..Len(t) /\ n < Len(toks)
        /\ SubSeq(t, 1, n) = SubSeq(toks, 1, n) /\ (AllowNonTailForks \/ Len(t) = n)
        /\ o.c.seqs = Put(c1.seqs, id, SubSeq(t, 1, n))
    BY <1>9 DEF PlacedForked, StartsWith
  <2>2. Agrees(t, k) /\ Len(t) \in Nat
    BY <1>5, <2>1, LenProperties DEF Settled, Agrees
  <2>3. n \in 0..Len(t) /\ n \in 0..(Len(toks) - 1)
    BY <1>7, <2>1, <2>2
  <2>4. Agrees(SubSeq(t, 1, n), ForkedAt(k, n)) /\ (n = Len(t) => ForkedAt(k, n) = k)
    BY <2>2, <2>3, AgreesFork
  <2>5. cache' = [o.c EXCEPT !.kv = Put(@, id, ForkedAt(@[m], n))] /\ Matched(e, id, n)
    BY <1>2, <2>1
  <2>6. /\ cache'.seqs = o.c.seqs /\ cache'.pending = <<>>
        /\ cache'.kv = Put(cache.kv, id, ForkedAt(k, n))
    BY <1>4, <2>5 DEF IsCache
  <2> HIDE DEF m, n, k, t
  <2>7. /\ cache'.kv[id] = ForkedAt(k, n)
        /\ \A u \in DOMAIN cache.kv : u # id => cache'.kv[u] = cache.kv[u]
        /\ DOMAIN cache'.kv = DOMAIN cache.kv \cup {id}
    BY <2>6 DEF Put
  <2>8. /\ DOMAIN cache'.seqs = DOMAIN c1.seqs \cup {id} /\ cache'.seqs[id] = SubSeq(t, 1, n)
        /\ \A u \in DOMAIN c1.seqs : u # id => cache'.seqs[u] = c1.seqs[u]
    BY <2>1, <2>6 DEF Put
  <2>9. Settled(cache')
    <3>1. /\ \A u \in DOMAIN c1.seqs :
               u # id => cache'.seqs[u] = c1.seqs[u] /\ cache'.kv[u] = c1.kv[u]
          /\ Agrees(cache'.seqs[id], cache'.kv[id])
      BY <1>5, <2>4, <2>7, <2>8
    <3> QED
      BY <1>5, <2>6, <2>8, <3>1, SettledBut
  <2>10. ~Preempts => cache'.kv[id] = SubSeq(toks, 1, n)
    BY <2>1, <2>4, <2>7 DEF Agrees
  <2>11. ~AllowNonTailForks => \E u \in DOMAIN cache.kv : cache'.kv[id] = cache.kv[u]
    BY <1>5, <2>1, <2>4, <2>7 DEF k
  <2>12. MatchedAt(e, id, n)
    BY <1>1, <2>3, <2>5, <2>7, <2>10, <2>11 DEF MatchedAt, toks
  <2> QED
    BY <1>1, <1>7, <2>9, <2>12, SettledFacts
<1>10. CASE PlacedNew(c1, o, id)
  <2>1. /\ o.res.reused = NoSeq /\ o.res.forked = NoSeq /\ o.res.prefilled = 0
        /\ o.c.seqs = Put(c1.seqs, id, <<>>)
    BY <1>10 DEF PlacedNew
  <2>2. cache' = [o.c EXCEPT !.kv = Put(@, id, <<>>)] /\ Matched(e, id, 0)
    BY <1>2, <2>1
  <2>3. /\ cache'.seqs = o.c.seqs /\ cache'.pending = <<>> /\ cache'.kv = Put(cache.kv, id, <<>>)
    BY <1>4, <2>2 DEF IsCache
  <2>4. /\ cache'.kv[id] = <<>>
        /\ \A u \in DOMAIN cache.kv : u # id => cache'.kv[u] = cache.kv[u]
        /\ DOMAIN cache'.kv = DOMAIN cache.kv \cup {id}
    BY <2>3 DEF Put
  <2>5. /\ DOMAIN cache'.seqs = DOMAIN c1.seqs \cup {id} /\ cache'.seqs[id] = <<>>
        /\ \A u \in DOMAIN c1.seqs : u # id => cache'.seqs[u] = c1.seqs[u]
    BY <2>1, <2>3 DEF Put
  <2>6. Settled(cache')
    <3>1. /\ \A u \in DOMAIN c1.seqs :
               u # id => cache'.seqs[u] = c1.seqs[u] /\ cache'.kv[u] = c1.kv[u]
          /\ Agrees(cache'.seqs[id], cache'.kv[id])
      BY <1>5, <2>4, <2>5, AgreesEmpty
    <3> QED
      BY <1>5, <2>3, <2>5, <3>1, SettledBut
  <2>7. SubSeq(toks, 1, 0) = <<>> /\ 0 \in 0..(Len(toks) - 1)
    BY <1>7, SubSeqEmpty
  <2>8. MatchedAt(e, id, 0)
    BY <1>1, <2>2, <2>4, <2>7 DEF MatchedAt, toks
  <2> QED
    BY <1>1, <1>7, <2>6, <2>8, SettledFacts
<1> QED
  BY <1>6, <1>8, <1>9, <1>10

\* What is cut by one more token.
LEMMA CutOneMore ==
    ASSUME NEW S, NEW t \in Seq(S), NEW n \in 1..Len(t)
    PROVE  DropLast(SubSeq(t, 1, n), 1) = SubSeq(t, 1, n - 1)
<1>1. Len(t) \in Nat /\ n - 1 \in 0..Len(t) /\ n \in 0..Len(t) /\ n \in Int
  BY LenProperties
<1> DEFINE u == SubSeq(t, 1, n)
<1>2. u \in Seq(S) /\ Len(u) = n /\ \A i \in 1..n : u[i] = t[i]
  <2>1. n <= Len(t) /\ n >= 0
    BY <1>1
  <2> QED
    BY <1>1, <2>1, UpToFacts
<1> HIDE DEF u
<1>3. n - 1 \in 0..Len(u) /\ \A i \in 1..(n - 1) : u[i] = t[i]
  BY <1>1, <1>2
<1>4. SubSeq(u, 1, n - 1) = SubSeq(t, 1, n - 1)
  BY <1>1, <1>2, <1>3, SamePrefix
<1> QED
  BY <1>2, <1>4 DEF DropLast, u

\* With Eagle one token less is taken.
LEMMA EagleMatchTokens ==
    ASSUME IInv, TInv, NEW e \in Entries, EagleMatchPrefixCache(e)
    PROVE  TokensRight(cache', buf') /\ \E m, n : MatchedAt(e, m, n)
<1> DEFINE id == ents[e].id
           toks == ents[e].inputs
           c1 == CommitSequenceExtention(cache, buf)
<1>1. /\ ents[e].phase = "pending" /\ id \notin DOMAIN cache.seqs /\ buf' = buf /\ eagle
      /\ DOMAIN ents = Entries /\ toks \in Seq(Tokens) /\ toks # <<>>
      /\ Good(cache) /\ TokensRight(cache, buf)
  BY DEF EagleMatchPrefixCache, HasSequence, IInv, Owns, TInv, EntryRight
<1>2. PICK o \in InsertSequence(cache, buf, id, toks, Window) :
         LET r == o.res
             RolledBack(c, s) == RollBackSequence(c, buf, s, 1)
         IN  IF r.reused # NoSeq
             THEN /\ cache' = [RolledBack(RecycleId(o.c, id), r.reused) EXCEPT
                        !.kv = Put(@, r.reused, DropLast(@[r.reused], r.pop + 1))]
                  /\ Matched(e, r.reused, r.prefilled - 1)
             ELSE IF r.forked # NoSeq
             THEN /\ cache' = [RolledBack(o.c, id) EXCEPT
                        !.kv = Put(@, id, ForkedAt(@[r.forked], r.prefilled - 1))]
                  /\ Matched(e, id, r.prefilled)
             ELSE /\ cache' = [o.c EXCEPT !.kv = Put(@, id, <<>>)]
                  /\ Matched(e, id, 0)
  BY DEF EagleMatchPrefixCache
<1>3. \/ o.res.reused = NoSeq /\ Obtained(cache, o.c, id)
      \/ /\ o.res.reused # NoSeq /\ o.res.reused \in DOMAIN cache.seqs
         /\ Obtained(cache, o.c, o.res.reused)
  BY <1>1, InsertFacts DEF Good
<1>4. GoodMaps(o.c) /\ GoodIds(o.c) /\ IsCache(o.c) /\ o.c.kv = cache.kv /\ o.c.pending = <<>>
  <2>1. GoodMaps(o.c) /\ GoodIds(o.c)
    BY <1>1, <1>3, ObtainedIds
  <2> QED
    BY <1>3, <2>1 DEF Obtained, GoodMaps
<1>5. /\ GoodMaps(c1) /\ GoodIds(c1) /\ Settled(c1) /\ c1.kv = cache.kv
      /\ DOMAIN c1.seqs = DOMAIN cache.seqs /\ DOMAIN cache.kv = DOMAIN cache.seqs
  BY <1>1, CommitFacts, CommitSettles DEF Good
<1>6. PlacedReused(c1, o, toks) \/ PlacedForked(c1, o, id, toks) \/ PlacedNew(c1, o, id)
  <2>1. o \in PlaceSequence(c1, id, MatchedOffset(c1, Front(toks)),
                            MatchedSeqs(c1, Front(toks)), Window)
    BY DEF InsertSequence
  <2> HIDE DEF c1, toks, id
  <2> QED
    BY <1>1, <1>5, <2>1, PlaceTokens
<1>7. Len(toks) \in Nat \ {0} /\ BuffersRight(buf)
  BY <1>1, EmptySeq DEF TokensRight
<1>8. \A u \in DOMAIN c1.seqs : c1.seqs[u] \in Seq(Tokens)
  BY <1>5 DEF Settled, Agrees
<1> HIDE DEF c1, toks
<1>9. CASE PlacedReused(c1, o, toks)
  <2> DEFINE m == o.res.reused
             n == o.res.prefilled
             k == cache.kv[m]
             t == c1.seqs[m]
             r == RecycleId(o.c, id)
             q == RollBackSequence(r, buf, m, 1)
  <2>1. /\ m # NoSeq /\ m \in DOMAIN c1.seqs /\ n \in 1..Len(t) /\ n < Len(toks)
        /\ o.res.pop = Len(t) - n /\ o.c.seqs[m] = SubSeq(t, 1, n)
        /\ \A u \in DOMAIN c1.seqs : u # m => o.c.seqs[u] = c1.seqs[u]
    BY <1>9 DEF PlacedReused, StartsWith
  <2>2. Agrees(t, k) /\ Len(t) \in Nat /\ t \in Seq(Tokens)
    BY <1>5, <2>1, LenProperties DEF Settled, Agrees
  <2>3. n - 1 \in 0..Len(t) /\ n - 1 \in 0..(Len(toks) - 1) /\ n \in 0..Len(t)
        /\ o.res.pop + 1 = Len(t) - (n - 1)
    BY <1>7, <2>1, <2>2
  <2>4. Agrees(SubSeq(t, 1, n - 1), DropLast(k, Len(t) - (n - 1)))
    BY <2>2, <2>3, AgreesCut
  <2>5. cache' = [q EXCEPT !.kv = Put(@, m, DropLast(@[m], o.res.pop + 1))]
        /\ Matched(e, m, n - 1)
    BY <1>2, <2>1
  <2>6. m # id /\ Obtained(cache, o.c, m) /\ m \in DOMAIN cache.seqs
    BY <1>1, <1>3, <2>1
  <2>7. /\ m \in DOMAIN o.c.seqs
        /\ id \in 0..(o.c.idCnt - 1) /\ id \notin Ids(o.c.available) /\ id \notin DOMAIN o.c.seqs
    BY <1>1, <2>6, ObtainedIds
  <2> HIDE DEF id
  <2>8. GivenBack(o.c, r, id)
    BY <1>4, <2>7, GiveBackFacts
  <2> HIDE DEF r
  <2>9. GoodMaps(r) /\ GoodIds(r) /\ r.seqs = o.c.seqs /\ r.kv = cache.kv /\ r.pending = <<>>
    BY <1>4, <2>8 DEF GivenBack
  <2>10. DOMAIN r.seqs = DOMAIN c1.seqs
    BY <1>5, <2>1, <2>6, <2>9 DEF Obtained
  <2>11. HoldsTokens(r) /\ m \in DOMAIN r.seqs
    <3>1. SubSeq(t, 1, n) \in Seq(Tokens)
      BY <2>2, <2>3, CutFacts
    <3> QED
      BY <1>8, <2>1, <2>9, <2>10, <3>1 DEF HoldsTokens
  <2>12. /\ q.seqs[m] = DropLast(r.seqs[m], 1)
         /\ \A u \in DOMAIN r.seqs : u # m => q.seqs[u] = r.seqs[u]
    <3>1. CutIn(r, q, m, 1)
      BY <1>7, <2>9, <2>11, RollBackTokens
    <3> QED
      BY <3>1 DEF CutIn
  <2>13. SameButTokens(r, q)
    BY <2>1, <2>9, <2>10, RollBackFacts
  <2> HIDE DEF q, m, n, k, t
  <2>14. DropLast(SubSeq(t, 1, n), 1) = SubSeq(t, 1, n - 1)
    BY <2>1, <2>2, CutOneMore
  <2>15. /\ cache'.seqs = q.seqs /\ cache'.pending = <<>>
         /\ cache'.kv = Put(q.kv, m, DropLast(q.kv[m], o.res.pop + 1))
    BY <2>5, <2>13 DEF SameButTokens, GoodMaps, IsCache
  <2>16. q.kv = cache.kv /\ DOMAIN q.seqs = DOMAIN c1.seqs /\ cache.kv[m] = k
    BY <2>9, <2>10, <2>13 DEF SameButTokens, k
  <2>17. cache'.kv = Put(cache.kv, m, DropLast(k, Len(t) - (n - 1)))
    BY <2>3, <2>15, <2>16
  <2>18. /\ cache'.kv[m] = DropLast(k, Len(t) - (n - 1))
         /\ \A u \in DOMAIN cache.kv : u # m => cache'.kv[u] = cache.kv[u]
         /\ DOMAIN cache'.kv = DOMAIN cache.kv \cup {m}
        /\ DOMAIN cache'.kv = DOMAIN cache.kv \cup {m}
    BY <2>17 DEF Put
  <2>19. Settled(cache')
    <3>1. \A u \in DOMAIN c1.seqs :
             u # m => cache'.seqs[u] = c1.seqs[u] /\ cache'.kv[u] = c1.kv[u]
      BY <1>5, <2>1, <2>9, <2>10, <2>12, <2>15, <2>18
    <3>2. cache'.seqs[m] = SubSeq(t, 1, n - 1)
      BY <2>1, <2>9, <2>12, <2>14, <2>15
    <3>3. DOMAIN cache'.seqs = DOMAIN c1.seqs \cup {m} /\ cache'.pending = <<>>
          /\ Agrees(cache'.seqs[m], cache'.kv[m])
      BY <2>1, <2>4, <2>15, <2>16, <2>18, <3>2
    <3> QED
      BY <1>5, <3>1, <3>3, SettledBut
  <2>20. m \in DOMAIN cache.kv
    BY <1>5, <2>1
  <2>21. MatchedAt(e, m, n - 1)
    BY <1>1, <2>3, <2>5, <2>18, <2>20 DEF MatchedAt, toks
  <2> QED
    BY <1>1, <1>7, <2>19, <2>21, SettledFacts
<1>10. CASE PlacedForked(c1, o, id, toks)
  <2> DEFINE m == o.res.forked
             n == o.res.prefilled
             k == cache.kv[m]
             t == c1.seqs[m]
             q == RollBackSequence(o.c, buf, id, 1)
  <2>1. /\ o.res.reused = NoSeq /\ m # NoSeq
        /\ m \in DOMAIN c1.seqs /\ n \in 1..Len(t) /\ n < Len(toks)
        /\ o.c.seqs = Put(c1.seqs, id, SubSeq(t, 1, n))
    BY <1>10 DEF PlacedForked, StartsWith
  <2>2. Agrees(t, k) /\ Len(t) \in Nat /\ t \in Seq(Tokens)
    BY <1>5, <2>1, LenProperties DEF Settled, Agrees
  <2>3. n - 1 \in 0..Len(t) /\ n \in 0..(Len(toks) - 1) /\ n \in 0..Len(t)
    BY <1>7, <2>1, <2>2
  <2>4. Agrees(SubSeq(t, 1, n - 1), ForkedAt(k, n - 1))
    BY <2>2, <2>3, AgreesFork
  <2>5. cache' = [q EXCEPT !.kv = Put(@, id, ForkedAt(@[m], n - 1))] /\ Matched(e, id, n)
    BY <1>2, <2>1
  <2>6. /\ DOMAIN o.c.seqs = DOMAIN c1.seqs \cup {id} /\ o.c.seqs[id] = SubSeq(t, 1, n)
        /\ \A u \in DOMAIN c1.seqs : u # id => o.c.seqs[u] = c1.seqs[u]
    <3> HIDE DEF t, n, id
    <3> QED
      BY <2>1 DEF Put
  <2>7. HoldsTokens(o.c) /\ id \in DOMAIN o.c.seqs
    <3>1. SubSeq(t, 1, n) \in Seq(Tokens)
      BY <2>2, <2>3, CutFacts
    <3> QED
      BY <1>8, <2>6, <3>1 DEF HoldsTokens
  <2> HIDE DEF id
  <2>8. /\ q.seqs[id] = DropLast(o.c.seqs[id], 1)
        /\ \A u \in DOMAIN o.c.seqs : u # id => q.seqs[u] = o.c.seqs[u]
    <3>1. CutIn(o.c, q, id, 1)
      BY <1>4, <1>7, <2>7, RollBackTokens
    <3> QED
      BY <3>1 DEF CutIn
  <2>9. SameButTokens(o.c, q)
    BY <1>4, <2>6, RollBackFacts
  <2> HIDE DEF q, m, n, k, t
  <2>10. DropLast(SubSeq(t, 1, n), 1) = SubSeq(t, 1, n - 1)
    BY <2>1, <2>2, CutOneMore
  <2>11. /\ cache'.seqs = q.seqs /\ cache'.pending = <<>>
         /\ cache'.kv = Put(q.kv, id, ForkedAt(q.kv[m], n - 1))
    BY <2>5, <2>9 DEF SameButTokens, GoodMaps, IsCache
  <2>12. cache'.kv = Put(cache.kv, id, ForkedAt(k, n - 1))
    BY <1>4, <2>9, <2>11 DEF SameButTokens, k
  <2>13. /\ cache'.kv[id] = ForkedAt(k, n - 1)
         /\ \A u \in DOMAIN cache.kv : u # id => cache'.kv[u] = cache.kv[u]
         /\ DOMAIN cache'.kv = DOMAIN cache.kv \cup {id}
        /\ DOMAIN cache'.kv = DOMAIN cache.kv \cup {id}
    BY <2>12 DEF Put
  <2>14. Settled(cache')
    <3>1. \A u \in DOMAIN c1.seqs :
             u # id => cache'.seqs[u] = c1.seqs[u] /\ cache'.kv[u] = c1.kv[u]
      BY <1>5, <2>6, <2>8, <2>11, <2>13
    <3>2. cache'.seqs[id] = SubSeq(t, 1, n - 1)
      BY <2>6, <2>8, <2>10, <2>11
    <3>3. DOMAIN cache'.seqs = DOMAIN c1.seqs \cup {id} /\ cache'.pending = <<>>
          /\ Agrees(cache'.seqs[id], cache'.kv[id])
      BY <2>4, <2>6, <2>9, <2>11, <2>13, <3>2 DEF SameButTokens
    <3> QED
      BY <1>5, <3>1, <3>3, SettledBut
  <2>15. MatchedAt(e, id, n)
    BY <1>1, <2>3, <2>5, <2>13 DEF MatchedAt, toks
  <2> QED
    BY <1>1, <1>7, <2>14, <2>15, SettledFacts
<1>11. CASE PlacedNew(c1, o, id)
  <2>1. /\ o.res.reused = NoSeq /\ o.res.forked = NoSeq
        /\ o.c.seqs = Put(c1.seqs, id, <<>>)
    BY <1>11 DEF PlacedNew
  <2>2. cache' = [o.c EXCEPT !.kv = Put(@, id, <<>>)] /\ Matched(e, id, 0)
    BY <1>2, <2>1
  <2> HIDE DEF id
  <2>3. /\ cache'.seqs = o.c.seqs /\ cache'.pending = <<>> /\ cache'.kv = Put(cache.kv, id, <<>>)
    BY <1>4, <2>2 DEF IsCache
  <2>4. /\ cache'.kv[id] = <<>>
        /\ \A u \in DOMAIN cache.kv : u # id => cache'.kv[u] = cache.kv[u]
        /\ DOMAIN cache'.kv = DOMAIN cache.kv \cup {id}
    BY <2>3 DEF Put
  <2>5. /\ DOMAIN cache'.seqs = DOMAIN c1.seqs \cup {id} /\ cache'.seqs[id] = <<>>
        /\ \A u \in DOMAIN c1.seqs : u # id => cache'.seqs[u] = c1.seqs[u]
    BY <2>1, <2>3 DEF Put
  <2>6. Settled(cache')
    <3>1. /\ \A u \in DOMAIN c1.seqs :
               u # id => cache'.seqs[u] = c1.seqs[u] /\ cache'.kv[u] = c1.kv[u]
          /\ Agrees(cache'.seqs[id], cache'.kv[id])
      BY <1>5, <2>4, <2>5, AgreesEmpty
    <3> QED
      BY <1>5, <2>3, <2>5, <3>1, SettledBut
  <2>7. 0 \in 0..(Len(toks) - 1)
    BY <1>7
  <2>8. MatchedAt(e, id, 0)
    BY <1>1, <2>2, <2>4, <2>7 DEF MatchedAt, toks
  <2> QED
    BY <1>1, <1>7, <2>6, <2>8, SettledFacts
<1> QED
  BY <1>6, <1>9, <1>10, <1>11

\* A running entry continues where its sequence ends.
Continued(kv, r) ==
    kv \o r.inputs = r.prompt \o (IF r.inputs = <<>> THEN Front(r.committed) ELSE r.committed)

\* Chunks, of any entry: a part of its inputs that is not empty, or its last token.
IsChunk(r, k) ==
    IF r.inputs # <<>> THEN \E n \in 1..Len(r.inputs) : k = SubSeq(r.inputs, 1, n)
    ELSE k = <<Last(r.committed)>>

\* Chunks gives such chunks.
LEMMA ChunkFacts ==
    ASSUME NEW e \in Entries, EntryRight(ents[e]), NEW k \in Chunks(e)
    PROVE  IsChunk(ents[e], k)
<1> DEFINE inputs == ents[e].inputs
<1>1. CASE inputs # <<>>
  <2>1. Len(inputs) \in Nat \ {0}
    BY <1>1, EmptySeq DEF EntryRight
  <2>2. PICK n \in ChunkSizes : k = SubSeq(inputs, 1, IF n < Len(inputs) THEN n ELSE Len(inputs))
    BY <1>1 DEF Chunks
  <2>3. n \in Nat \ {0}
    BY ChunkAssumption
  <2>4. (IF n < Len(inputs) THEN n ELSE Len(inputs)) \in 1..Len(inputs)
    BY <2>1, <2>3
  <2> QED
    BY <1>1, <2>2, <2>4 DEF IsChunk
<1>2. CASE inputs = <<>>
  BY <1>2 DEF Chunks, IsChunk
<1> QED
  BY <1>1, <1>2

\* An entry after a batch, as RunBatch leaves it: what was reported is counted.
Counted(q) ==
    [q EXCEPT !.cached = IF @ < Len(q.committed) - 1 THEN Len(q.committed) - 1 ELSE @]

\* What a batch does to an entry: r has run chunk k, reports y and becomes z.
RanRight(r, k, y, z) ==
    /\ k \in Seq(Tokens) /\ y \in Seq(Tokens) /\ Len(k) <= Len(y) /\ (~Preempts => k = y)
    /\ EntryRight(z) /\ z.phase = r.phase /\ z.id = r.id
    /\ ~Preempts => \A kv \in Seq(Tokens) : Continued(kv, r) => Continued(kv \o k, z)

\* A prefill.
LEMMA PrefillFacts ==
    ASSUME NEW r, DOMAIN r = EntryFields, EntryRight(r), r.phase = "alive", r.inputs # <<>>,
           NEW k, IsChunk(r, k), NEW t \in Tokens
    PROVE  RanRight(r, k, Reported(r, Ran(r, k, t), k), Counted(Ran(r, k, t)))
<1> DEFINE q == Ran(r, k, t)
           z == Counted(q)
           y == Reported(r, q, k)
           left == SubSeq(r.inputs, Len(k) + 1, Len(r.inputs))
<1>1. PICK n \in 1..Len(r.inputs) : k = SubSeq(r.inputs, 1, n)
  BY DEF IsChunk
<1>2. r.inputs \in Seq(Tokens) /\ Len(r.inputs) \in Nat /\ n \in 0..Len(r.inputs)
  BY LenProperties DEF EntryRight
<1>3. /\ k \in Seq(Tokens) /\ Len(k) = n /\ k \o left = r.inputs
      /\ left \in Seq(Tokens) /\ Len(left) = Len(r.inputs) - n
  BY <1>1, <1>2, CutFacts
<1>4. /\ q.inputs = left /\ q.prompt = r.prompt /\ q.cached = r.cached /\ q.phase = "alive"
      /\ q.id = r.id
      /\ q.committed = IF left = <<>> THEN Append(r.committed, t) ELSE r.committed
      /\ DOMAIN q = EntryFields
  BY DEF Ran, EntryFields
<1> HIDE DEF q, left
<1>5. /\ z.inputs = left /\ z.prompt = r.prompt /\ z.phase = "alive" /\ z.committed = q.committed
      /\ z.id = r.id
      /\ z.cached = IF r.cached < Len(q.committed) - 1 THEN Len(q.committed) - 1 ELSE r.cached
  BY <1>4 DEF Counted, EntryFields
<1> HIDE DEF z
<1>6. /\ r.committed \in Seq(Tokens) /\ Len(r.committed) \in Nat
      /\ r.cached \in Nat /\ (r.cached = 0 \/ r.cached < Len(r.committed))
      /\ r.prompt \in Seq(Tokens) /\ r.prompt # <<>>
  BY LenProperties DEF EntryRight
<1>7. /\ Append(r.committed, t) \in Seq(Tokens) /\ Append(r.committed, t) # <<>>
      /\ Len(Append(r.committed, t)) = Len(r.committed) + 1
  BY <1>6, AppendProperties
<1>8. /\ q.committed \in Seq(Tokens) /\ Len(q.committed) \in Nat
      /\ left = <<>> => q.committed # <<>> /\ Len(q.committed) = Len(r.committed) + 1
      /\ left # <<>> => q.committed = r.committed
  BY <1>4, <1>6, <1>7
<1> DEFINE w == SubSeq(q.committed, r.cached + 1, Len(q.committed) - 1)
<1>9. y = k \o w
  BY DEF Reported
<1>10. w \in Seq(Tokens) /\ Len(w) \in Nat
  <2>1. \A i \in (r.cached + 1)..(Len(q.committed) - 1) : i \in 1..Len(q.committed)
    BY <1>6, <1>8
  <2>2. \A i \in (r.cached + 1)..(Len(q.committed) - 1) : q.committed[i] \in Tokens
    BY <1>8, <2>1, ElementOfSeq
  <2>3. w \in Seq(Tokens)
    BY <1>6, <1>8, <2>2, SubSeqProperties
  <2> QED
    BY <2>3, LenProperties
<1>11. ~Preempts => r.committed = <<>> /\ r.cached = 0
  <2>1. ~Preempts => r.committed = <<>>
    BY DEF EntryRight
  <2>2. Len(<<>>) = 0
    BY EmptySeq
  <2> QED
    BY <1>6, <2>1, <2>2
<1>12. ASSUME ~Preempts PROVE w = <<>>
  <2>1. Len(r.committed) = 0
    BY <1>11, <1>12, EmptySeq
  <2> DEFINE N == Len(q.committed)
  <2>2. N \in Nat /\ N <= 1
    <3>1. CASE left = <<>>
      <4>1. Len(q.committed) = Len(r.committed) + 1
        BY <1>8, <3>1, Zenon
      <4> QED
        BY <2>1, <4>1
    <3>2. CASE left # <<>>
      BY <1>8, <2>1, <3>2
    <3> QED
      BY <3>1, <3>2
  <2> HIDE DEF N
  <2>3. N - 1 < r.cached + 1 /\ r.cached + 1 \in Int /\ N - 1 \in Int
    BY <1>6, <2>2
  <2> QED
    BY <2>3, SubSeqEmpty DEF N
<1> HIDE DEF y, w
<1>13. y \in Seq(Tokens) /\ Len(k) <= Len(y) /\ (~Preempts => k = y)
  <2>1. y \in Seq(Tokens) /\ Len(y) = Len(k) + Len(w)
    BY <1>3, <1>9, <1>10, ConcatProperties
  <2>2. ASSUME ~Preempts PROVE k = y
    BY <1>3, <1>9, <1>12, <2>2, ConcatEmptySeq
  <2>3. Len(k) <= Len(y)
    BY <1>2, <1>3, <1>10, <2>1
  <2> QED
    BY <2>1, <2>2, <2>3
<1>14. EntryRight(z)
  <2>1. z.cached \in Nat /\ (z.cached = 0 \/ z.cached < Len(z.committed))
    BY <1>5, <1>6, <1>8
  <2>2. ~Preempts /\ left = <<>> => z.cached = Len(z.committed) - 1
    <3> SUFFICES ASSUME ~Preempts, left = <<>> PROVE z.cached = Len(z.committed) - 1
      OBVIOUS
    <3>1. Len(r.committed) = 0 /\ r.cached = 0
      BY <1>11, EmptySeq
    <3>2. Len(q.committed) = 1
      BY <1>8, <3>1
    <3>3. Len(z.committed) = 1 /\ z.cached = IF 0 < 1 - 1 THEN 1 - 1 ELSE 0
      BY <1>5, <3>1, <3>2
    <3> QED
      BY <3>3
  <2>3. ~Preempts /\ left # <<>> => z.committed = <<>>
    BY <1>5, <1>8, <1>11
  <2> QED
    BY <1>3, <1>5, <1>6, <1>8, <2>1, <2>2, <2>3 DEF EntryRight
<1>15. ASSUME ~Preempts, NEW kv \in Seq(Tokens), Continued(kv, r)
       PROVE  Continued(kv \o k, z)
  <2>1. kv \o r.inputs = r.prompt \o <<>> /\ r.prompt \o <<>> = r.prompt
    <3>1. r.prompt \o <<>> = r.prompt
      BY <1>6, ConcatEmptySeq
    <3> QED
      BY <1>11, <1>15, <3>1 DEF Continued
  <2>2. (kv \o k) \o left = kv \o r.inputs
    <3>1. kv \in Seq(Tokens) /\ k \in Seq(Tokens) /\ left \in Seq(Tokens)
      BY <1>3
    <3>2. (kv \o k) \o left = kv \o (k \o left)
      BY <3>1
    <3> QED
      BY <1>3, <3>2
  <2>3. CASE left # <<>>
    <3>1. z.committed = <<>>
      BY <1>5, <1>8, <1>11, <1>15, <2>3
    <3> QED
      BY <1>5, <2>1, <2>2, <2>3, <3>1 DEF Continued
  <2>4. CASE left = <<>>
    <3>1. z.committed = Append(<<>>, t)
      BY <1>4, <1>5, <1>11, <1>15, <2>4
    <3>2. Len(z.committed) = 1
      BY <3>1, <1>7, <1>11, <1>15, EmptySeq
    <3>3. Front(z.committed) = <<>>
      <4>1. Len(z.committed) - 1 < 1 /\ Len(z.committed) - 1 \in Int
        BY <3>2
      <4> QED
        BY <4>1, SubSeqEmpty DEF Front
    <3> QED
      BY <1>5, <2>1, <2>2, <2>4, <3>3 DEF Continued
  <2> QED
    BY <2>3, <2>4
<1> QED
  BY <1>3, <1>5, <1>13, <1>14, <1>15 DEF RanRight, z, y, q

\* A decode step: the last token goes into the KV cache, and one more is committed.
LEMMA DecodeFacts ==
    ASSUME NEW r, DOMAIN r = EntryFields, EntryRight(r), r.phase = "alive", r.inputs = <<>>,
           NEW k, IsChunk(r, k), NEW t \in Tokens
    PROVE  RanRight(r, k, Reported(r, Ran(r, k, t), k), Counted(Ran(r, k, t)))
<1> DEFINE q == Ran(r, k, t)
           z == Counted(q)
           y == Reported(r, q, k)
           left == SubSeq(r.inputs, Len(k) + 1, Len(r.inputs))
           s == r.committed
<1>1. /\ s \in Seq(Tokens) /\ s # <<>> /\ Len(s) \in Nat \ {0}
      /\ r.cached \in Nat /\ (r.cached = 0 \/ r.cached < Len(s))
      /\ r.prompt \in Seq(Tokens) /\ r.prompt # <<>> /\ Len(r.inputs) = 0
  BY EmptySeq DEF EntryRight
<1>2. Last(s) \in Tokens /\ k = <<Last(s)>> /\ Front(s) \in Seq(Tokens) /\ Front(s) \o k = s
  BY <1>1, FrontLastFacts DEF IsChunk
<1>3. k \in Seq(Tokens) /\ Len(k) = 1
  BY <1>2
<1>4. left = <<>>
  <2>1. Len(r.inputs) < Len(k) + 1 /\ Len(r.inputs) \in Int /\ Len(k) + 1 \in Int
    BY <1>1, <1>3
  <2> QED
    BY <2>1, SubSeqEmpty
<1>5. /\ q.inputs = <<>> /\ q.prompt = r.prompt /\ q.cached = r.cached /\ q.phase = "alive"
      /\ q.id = r.id
      /\ q.committed = Append(s, t) /\ DOMAIN q = EntryFields
  BY <1>4 DEF Ran, EntryFields
<1> HIDE DEF q, left
<1>6. /\ q.committed \in Seq(Tokens) /\ q.committed # <<>> /\ Len(q.committed) = Len(s) + 1
      /\ \A i \in 1..Len(s) : q.committed[i] = s[i]
  BY <1>1, <1>5, AppendProperties
<1>7. /\ z.inputs = <<>> /\ z.prompt = r.prompt /\ z.phase = "alive" /\ z.committed = q.committed
      /\ z.id = r.id
      /\ z.cached = Len(s)
  <2>1. /\ z.inputs = <<>> /\ z.prompt = r.prompt /\ z.phase = "alive"
        /\ z.committed = q.committed /\ z.id = r.id
        /\ z.cached = IF r.cached < Len(q.committed) - 1 THEN Len(q.committed) - 1 ELSE r.cached
    BY <1>5 DEF Counted, EntryFields
  <2> QED
    BY <1>1, <1>6, <2>1
<1> HIDE DEF z, s
<1> DEFINE w == SubSeq(q.committed, r.cached + 1, Len(q.committed) - 1)
<1>8. /\ w \in Seq(Tokens) /\ Len(w) = Len(s) - r.cached
      /\ \A i \in 1..(Len(s) - r.cached) : w[i] = q.committed[r.cached + i]
  <2>1. \A i \in (r.cached + 1)..(Len(q.committed) - 1) : i \in 1..Len(q.committed)
    BY <1>1, <1>6
  <2>2. \A i \in (r.cached + 1)..(Len(q.committed) - 1) : q.committed[i] \in Tokens
    BY <1>6, <2>1, ElementOfSeq
  <2>3. r.cached + 1 \in Int /\ Len(q.committed) - 1 \in Int
        /\ Len(q.committed) - 1 - (r.cached + 1) + 1 = Len(s) - r.cached
        /\ r.cached + 1 <= Len(q.committed) - 1
    BY <1>1, <1>6
  <2>4. /\ w \in Seq(Tokens)
        /\ Len(w) = IF r.cached + 1 <= Len(q.committed) - 1
                    THEN Len(q.committed) - 1 - (r.cached + 1) + 1 ELSE 0
        /\ \A i \in 1..(Len(q.committed) - 1 - (r.cached + 1) + 1) :
              w[i] = q.committed[r.cached + 1 + i - 1]
    BY <2>2, <2>3, SubSeqProperties
  <2>5. ASSUME NEW i \in 1..(Len(s) - r.cached) PROVE w[i] = q.committed[r.cached + i]
    <3>1. r.cached + 1 + i - 1 = r.cached + i
      BY <1>1
    <3> QED
      BY <2>3, <2>4, <3>1
  <2> QED
    BY <2>3, <2>4, <2>5
<1>9. y = w
  <2>1. y = <<>> \o w
    BY DEF Reported
  <2> HIDE DEF w, y
  <2> QED
    BY <1>8, <2>1, ConcatEmptySeq
<1> HIDE DEF w, y
<1>10. ASSUME ~Preempts PROVE k = w
  <2>1. r.cached = Len(s) - 1
    BY <1>10 DEF EntryRight, s
  <2>2. Len(w) = 1 /\ w[1] = q.committed[Len(s)] /\ q.committed[Len(s)] = s[Len(s)]
    BY <1>1, <1>6, <1>8, <2>1
  <2>3. Len(k) = 1 /\ k[1] = s[Len(s)]
    BY <1>2, <1>3 DEF Last
  <2>4. Len(k) = Len(w) /\ \A i \in 1..Len(k) : k[i] = w[i]
    BY <2>2, <2>3
  <2> QED
    BY <1>3, <1>8, <2>4, SeqEqual
<1>11. Len(k) <= Len(w)
  BY <1>1, <1>3, <1>8
<1>12. EntryRight(z)
  <2>1. z.cached \in Nat /\ z.cached < Len(z.committed) /\ z.cached = Len(z.committed) - 1
    BY <1>1, <1>6, <1>7
  <2>2. <<>> \in Seq(Tokens)
    BY EmptySeq
  <2> QED
    BY <1>1, <1>6, <1>7, <2>1, <2>2 DEF EntryRight
<1>13. ASSUME NEW kv \in Seq(Tokens), Continued(kv, r)
       PROVE  Continued(kv \o k, z)
  <2>1. kv \o <<>> = r.prompt \o Front(s) /\ kv \o <<>> = kv
    BY <1>13, ConcatEmptySeq DEF Continued, s
  <2>2. kv \o k = r.prompt \o s
    <3>1. (r.prompt \o Front(s)) \o k = r.prompt \o (Front(s) \o k)
      <4>1. r.prompt \in Seq(Tokens) /\ Front(s) \in Seq(Tokens) /\ k \in Seq(Tokens)
        BY <1>1, <1>2, <1>3
      <4>2. \A a, b \in Seq(Tokens) : (a \o b) \o k = a \o (b \o k)
        BY <4>1
      <4> QED
        BY <4>1, <4>2, Zenon
    <3> QED
      BY <1>2, <2>1, <3>1
  <2>3. Front(z.committed) = s
    <3>1. Len(q.committed) - 1 = Len(s) /\ Len(s) \in 0..Len(q.committed) /\ Len(s) \in 0..Len(s)
      BY <1>1, <1>6
    <3>2. SubSeq(q.committed, 1, Len(s)) = SubSeq(s, 1, Len(s))
      BY <1>1, <1>6, <3>1, SamePrefix
    <3> QED
      BY <1>1, <1>7, <3>1, <3>2, SubSeqFull DEF Front
  <2>4. (kv \o k) \o <<>> = kv \o k
    <3>1. kv \o k \in Seq(Tokens)
      BY <1>3, <1>13, ConcatProperties
    <3> QED
      BY <3>1, ConcatEmptySeq
  <2> QED
    BY <1>7, <2>2, <2>3, <2>4 DEF Continued
<1> QED
  BY <1>3, <1>7, <1>8, <1>9, <1>10, <1>11, <1>12, <1>13 DEF RanRight, z, y, q

\* A running entry is in a batch, or it and its KV cache stay the same.
Runs(e) ==
    LET s == ents[e].id
    IN  \/ ents'[e] = ents[e] /\ cache'.kv[s] = cache.kv[s]
        \/ \E k, y : /\ RanRight(ents[e], k, y, ents'[e])
                     /\ cache'.kv[s] = cache.kv[s] \o k

\* A batch: the KV cache of its sequences gets their chunks, and what was reported
\* waits to be added to the cached sequences.
LEMMA RunBatchTokens ==
    ASSUME IInv, TInv, NEW b \in Batches, RunBatch(b)
    PROVE  /\ TokensRight(cache', buf') /\ DOMAIN cache'.kv = DOMAIN cache.kv
           /\ \A e \in Entries : /\ EntryRight(ents'[e])
                                 /\ ents'[e].phase = ents[e].phase /\ ents'[e].id = ents[e].id
           /\ \A e \in Entries : ents[e].phase = "alive" => Runs(e)
<1> DEFINE members == {b[i] : i \in DOMAIN b}
           owner(s) == CHOOSE e \in members : ents[e].id = s
           c1 == CommitSequenceExtention(cache, buf)
<1>1. PICK chunk \in [members -> UNION {Chunks(e) : e \in members}],
           sampled \in [members -> Tokens] :
          LET after(e) == Ran(ents[e], chunk[e], sampled[e])
          IN  /\ \A e \in members : chunk[e] \in Chunks(e)
              /\ cache' = [c1 EXCEPT
                     !.kv = [s \in DOMAIN cache.kv |->
                                IF \E e \in members : ents[e].id = s
                                THEN AppendKv(cache.kv[s], chunk[owner(s)]) ELSE cache.kv[s]],
                     !.pending = [i \in DOMAIN b |-> [seq |-> ents[b[i]].id, src |-> b[i]]]]
              /\ buf' = [e \in Entries |->
                            IF e \in members THEN Reported(ents[e], after(e), chunk[e])
                            ELSE buf[e]]
              /\ ents' = [e \in Entries |->
                            IF e \notin members THEN ents[e]
                            ELSE [after(e) EXCEPT !.cached =
                                    IF @ < Len(after(e).committed) - 1
                                    THEN Len(after(e).committed) - 1 ELSE @]]
  BY DEF RunBatch
<1>2. PICK n \in 1..MaxBatch : b \in [1..n -> {e \in Entries : ents[e].phase = "alive"}]
  BY DEF Batches
<1>3. /\ n \in Nat /\ DOMAIN b = 1..n /\ members \subseteq Entries
      /\ \A i \in 1..n : b[i] \in members /\ ents[b[i]].phase = "alive"
      /\ \A e \in members : ents[e].phase = "alive" /\ \E i \in 1..n : b[i] = e
      /\ \A i, j \in 1..n : b[i] = b[j] => i = j
  BY <1>2, BoundsAssumption DEF Batches
<1>4. /\ GoodMaps(c1) /\ Settled(c1) /\ DOMAIN c1.seqs = DOMAIN cache.seqs
      /\ DOMAIN cache.kv = DOMAIN cache.seqs /\ c1.kv = cache.kv /\ BuffersRight(buf)
  BY CommitFacts, CommitSettles DEF IInv, Good, TInv, TokensRight
<1>5. /\ Owns(cache, ents) /\ GoodIds(cache)
      /\ \A e \in Entries : DOMAIN ents[e] = EntryFields /\ EntryRight(ents[e])
  BY DEF IInv, Good, Owns, TInv
<1> HIDE DEF members, c1
<1>6. ASSUME NEW e \in members
      PROVE  /\ RanRight(ents[e], chunk[e], buf'[e], ents'[e])
             /\ ents[e].id \in DOMAIN cache.seqs /\ owner(ents[e].id) = e
  <2> DEFINE q == Ran(ents[e], chunk[e], sampled[e])
  <2>1. e \in Entries /\ ents[e].phase = "alive" /\ sampled[e] \in Tokens /\ chunk[e] \in Chunks(e)
    BY <1>1, <1>3
  <2>2. IsChunk(ents[e], chunk[e]) /\ EntryRight(ents[e]) /\ DOMAIN ents[e] = EntryFields
    BY <1>5, <2>1, ChunkFacts
  <2>3. buf'[e] = Reported(ents[e], q, chunk[e]) /\ ents'[e] = Counted(q)
    BY <1>1, <2>1 DEF Counted
  <2> HIDE DEF q
  <2>4. RanRight(ents[e], chunk[e], buf'[e], ents'[e])
    <3>1. RanRight(ents[e], chunk[e], Reported(ents[e], q, chunk[e]), Counted(q))
      BY <2>1, <2>2, PrefillFacts, DecodeFacts DEF q
    <3> QED
      BY <2>3, <3>1
  <2>5. ents[e].id \in DOMAIN cache.seqs
    BY <1>5, <2>1 DEF Owns
  <2>6. \A g \in members : ents[g].id = ents[e].id => g = e
    BY <1>3, <1>5, <2>1 DEF Owns
  <2>7. owner(ents[e].id) = e
    BY <2>6
  <2> QED
    BY <2>4, <2>5, <2>7
<1>7. /\ cache'.seqs = c1.seqs
      /\ cache'.kv = [s \in DOMAIN cache.kv |->
                        IF \E e \in members : ents[e].id = s
                        THEN AppendKv(cache.kv[s], chunk[owner(s)]) ELSE cache.kv[s]]
      /\ cache'.pending = [i \in DOMAIN b |-> [seq |-> ents[b[i]].id, src |-> b[i]]]
  <2> HIDE DEF owner
  <2> QED
    BY <1>1, <1>4 DEF GoodMaps, IsCache
<1>8. ASSUME NEW e \in members
      PROVE  cache'.kv[ents[e].id] = cache.kv[ents[e].id] \o chunk[e]
  <2>1. ents[e].id \in DOMAIN cache.kv /\ owner(ents[e].id) = e
    BY <1>4, <1>6
  <2>2. \E g \in members : ents[g].id = ents[e].id
    OBVIOUS
  <2> HIDE DEF owner
  <2>3. cache'.kv[ents[e].id] = AppendKv(cache.kv[ents[e].id], chunk[owner(ents[e].id)])
    BY <1>7, <2>1, <2>2, Zenon
  <2> QED
    BY <2>1, <2>3 DEF AppendKv
<1>9. ASSUME NEW s \in DOMAIN cache.kv, \A e \in members : ents[e].id # s
      PROVE  cache'.kv[s] = cache.kv[s]
  <2> HIDE DEF owner
  <2> QED
    BY <1>7, <1>9
<1> HIDE DEF owner
<1>10. ASSUME NEW e \in Entries, e \notin members
       PROVE  ents'[e] = ents[e] /\ buf'[e] = buf[e]
  BY <1>1, <1>10
<1>11. \A e \in Entries : /\ EntryRight(ents'[e])
                           /\ ents'[e].phase = ents[e].phase /\ ents'[e].id = ents[e].id
  BY <1>5, <1>6, <1>10 DEF RanRight
<1>12. ASSUME NEW e \in Entries, ents[e].phase = "alive" PROVE Runs(e)
  <2>1. CASE e \in members
    BY <1>6, <1>8, <2>1 DEF Runs
  <2>2. CASE e \notin members
    <3>1. ents[e].id \in DOMAIN cache.kv /\ \A g \in members : ents[g].id # ents[e].id
      BY <1>3, <1>4, <1>5, <1>12, <2>2 DEF Owns
    <3> QED
      BY <1>9, <1>10, <2>2, <3>1 DEF Runs
  <2> QED
    BY <2>1, <2>2
<1>13. BuffersRight(buf')
  BY <1>4, <1>6, <1>10 DEF BuffersRight, RanRight
<1>14. /\ DOMAIN cache'.pending = 1..n
       /\ \A i \in 1..n : /\ cache'.pending[i].seq = ents[b[i]].id
                          /\ cache'.pending[i].src = b[i]
  BY <1>3, <1>7
<1>15. PendingRight(cache')
  <2>1. \A i \in 1..n : ents[b[i]].id \in Nat /\ b[i] \in Entries
    <3>1. DOMAIN cache.seqs \subseteq Nat
      BY <1>5 DEF GoodIds
    <3> QED
      BY <1>3, <1>6, <3>1
  <2>2. cache'.pending \in [1..n -> [seq : Nat, src : Entries]]
    BY <1>3, <1>7, <2>1
  <2>3. cache'.pending \in Seq([seq : Nat, src : Entries])
    <3> DEFINE R == [seq : Nat, src : Entries]
    <3>1. \E k \in Nat : cache'.pending \in [1..k -> R]
      BY <1>3, <2>2
    <3> HIDE DEF R
    <3>2. cache'.pending \in UNION {[1..k -> R] : k \in Nat}
      BY <3>1
    <3>3. cache'.pending \in Seq(R)
      BY <3>2, SeqDef, Zenon
    <3> QED
      BY <3>3 DEF R
  <2>4. ASSUME NEW i \in 1..n, NEW j \in 1..n, ents[b[i]].id = ents[b[j]].id PROVE i = j
    <3>1. b[i] = b[j]
      BY <1>3, <1>5, <2>4 DEF Owns
    <3> QED
      BY <1>3, <3>1
  <2> QED
    BY <1>14, <2>3, <2>4 DEF PendingRight
<1>16. ASSUME NEW s \in DOMAIN cache'.seqs
       PROVE  cache'.seqs[s] \in Seq(Tokens) /\ Agrees(Believed(cache', buf', s), cache'.kv[s])
  <2>1. /\ s \in DOMAIN cache.kv /\ cache'.seqs[s] = c1.seqs[s]
        /\ Agrees(cache'.seqs[s], cache.kv[s])
    BY <1>4, <1>7, <1>16 DEF Settled
  <2>2. cache'.seqs[s] \in Seq(Tokens)
    BY <2>1 DEF Agrees
  <2>3. CASE \E e \in members : ents[e].id = s
    <3>1. PICK e \in members : ents[e].id = s
      BY <2>3
    <3>2. PICK i \in 1..n : b[i] = e
      BY <1>3
    <3>3. Extension(cache', buf', s) = buf'[e]
      <4>1. i \in DOMAIN cache'.pending /\ cache'.pending[i].seq = s /\ cache'.pending[i].src = e
        BY <1>14, <3>1, <3>2
      <4> QED
        BY <1>13, <1>15, <4>1, ExtensionFacts
    <3>4. /\ chunk[e] \in Seq(Tokens) /\ buf'[e] \in Seq(Tokens) /\ Len(chunk[e]) <= Len(buf'[e])
          /\ ~Preempts => chunk[e] = buf'[e]
      BY <1>6 DEF RanRight
    <3>5. Agrees(cache'.seqs[s] \o buf'[e], cache.kv[s] \o chunk[e])
      BY <2>1, <3>4, AgreesAppend
    <3> QED
      BY <1>8, <2>2, <3>1, <3>3, <3>5 DEF Believed
  <2>4. CASE \A e \in members : ents[e].id # s
    <3>1. \A i \in DOMAIN cache'.pending : cache'.pending[i].seq # s
      <4>1. ASSUME NEW i \in 1..n PROVE ents[b[i]].id # s
        BY <1>3, <2>4
      <4> QED
        BY <1>14, <4>1
    <3>2. Extension(cache', buf', s) = <<>>
      BY <1>13, <1>15, <3>1, ExtensionFacts
    <3>3. cache'.seqs[s] \o <<>> = cache'.seqs[s]
      BY <2>2, ConcatEmptySeq
    <3>4. cache'.kv[s] = cache.kv[s]
      BY <1>9, <2>1, <2>4
    <3> QED
      BY <2>1, <2>2, <3>2, <3>3, <3>4 DEF Believed
  <2> QED
    BY <2>3, <2>4
<1> QED
  BY <1>7, <1>11, <1>12, <1>13, <1>15, <1>16 DEF TokensRight

----------------------------------------------------------------------------
(* The steps of the engine                                                 *)

\* An entry that runs after a step ran before it, on the same sequence, or has just
\* been matched.
Follows(e) ==
    \/ ents[e].phase = "alive" /\ ents'[e].id = ents[e].id /\ Runs(e)
    \/ ents[e].phase = "pending" /\ ents'[e].phase = "alive" /\ \E m, n : MatchedAt(e, m, n)

\* What a step does to the KV cache: only a match makes a sequence.
StepRight ==
    /\ \A e \in Entries : ents'[e].phase = "alive" => Follows(e)
    /\ \A s \in DOMAIN cache'.kv \ DOMAIN cache.kv :
         \E e \in Entries : \E n : MatchedAt(e, s, n)

\* A step without batch and match: entries stay the same or do not run after it,
\* and the sequences that are left keep their KV cache.
LEMMA LeavesAlone ==
    ASSUME IInv, IInv', TInv, eagle' = eagle, TokensRight(cache', buf'),
           \A g \in Entries : \/ ents'[g] = ents[g]
                              \/ ents'[g].phase # "alive" /\ EntryRight(ents'[g]),
           \A t \in DOMAIN cache'.kv : t \in DOMAIN cache.kv /\ cache'.kv[t] = cache.kv[t]
    PROVE  TInv' /\ StepRight
<1>1. TInv'
  BY DEF TInv
<1>2. ASSUME NEW e \in Entries, ents'[e].phase = "alive" PROVE Follows(e)
  <2>1. ents'[e] = ents[e]
    BY <1>2
  <2>2. ents'[e].id \in DOMAIN cache'.kv
    BY <1>2 DEF IInv, Owns, Good
  <2> QED
    BY <1>2, <2>1, <2>2 DEF Follows, Runs
<1> QED
  BY <1>1, <1>2 DEF StepRight

\* An idle entry, and one that has just come.
LEMMA NewEntryRight ==
    /\ EntryRight(Idle) /\ Idle.phase # "alive"
    /\ \A p \in Seq(Tokens) : \A id : p # <<>> =>
         EntryRight(Entry("pending", id, p)) /\ Entry("pending", id, p).phase # "alive"
  BY EmptySeq DEF EntryRight, Idle, Entry

\* Taking an id leaves sequences and tokens.
LEMMA NewIdKept ==
    ASSUME NEW c, NEW b, GoodMaps(c), GoodIds(c), TokensRight(c, b)
    PROVE  TokensRight(GetNewId(c), b)
<1>1. /\ GetNewId(c).seqs = c.seqs /\ GetNewId(c).kv = c.kv
      /\ GetNewId(c).pending = c.pending
  BY GetNewIdFacts
<1>2. StillThere(c, GetNewId(c))
  BY <1>1 DEF StillThere
<1> QED
  BY <1>1, <1>2, KeptFacts

\* AddRequest.
LEMMA AddRequestTokens ==
    ASSUME IInv, IInv', TInv, eagle' = eagle, NEW e \in Entries, NEW p \in Prompts[eagle],
           AddRequest(e, p)
    PROVE  TInv' /\ StepRight
<1>1. p \in Seq(Tokens) /\ p # <<>>
  BY PromptAssumption DEF TInv
<1>2. TokensRight(cache', buf') /\ cache'.kv = cache.kv
  <2>1. GoodMaps(cache) /\ GoodIds(cache) /\ TokensRight(cache, buf)
        /\ cache' = GetNewId(cache) /\ buf' = buf
    BY DEF IInv, Good, TInv, AddRequest
  <2> QED
    BY <2>1, NewIdKept, GetNewIdFacts
<1>3. \A g \in Entries : \/ ents'[g] = ents[g]
                         \/ ents'[g].phase # "alive" /\ EntryRight(ents'[g])
  <2>1. ents' = [ents EXCEPT ![e] = Entry("pending", NewId(cache), p)] /\ DOMAIN ents = Entries
    BY DEF AddRequest, IInv, Owns
  <2>2. EntryRight(Entry("pending", NewId(cache), p))
        /\ Entry("pending", NewId(cache), p).phase # "alive"
    BY <1>1, NewEntryRight
  <2> QED
    BY <2>1, <2>2
<1> QED
  BY <1>2, <1>3, LeavesAlone

\* MatchPrefixCache, with Eagle or without.
LEMMA MatchStep ==
    ASSUME IInv, IInv', TInv, eagle' = eagle, NEW e \in Entries,
           MatchPrefixCache(e) \/ EagleMatchPrefixCache(e)
    PROVE  TInv' /\ StepRight
<1>1. TokensRight(cache', buf') /\ \E m, n : MatchedAt(e, m, n)
  BY MatchTokens, EagleMatchTokens
<1>2. PICK m, n : MatchedAt(e, m, n)
  BY <1>1
<1>3. n \in 0..(Len(ents[e].inputs) - 1) /\ Matched(e, m, n)
      /\ DOMAIN cache'.kv = DOMAIN cache.kv \cup {m}
      /\ \A t \in DOMAIN cache.kv : t # m => cache'.kv[t] = cache.kv[t]
  BY <1>2 DEF MatchedAt
<1>4. /\ ents[e].phase = "pending" /\ DOMAIN ents = Entries /\ DOMAIN ents[e] = EntryFields
      /\ EntryRight(ents[e])
  BY DEF MatchPrefixCache, EagleMatchPrefixCache, IInv, Owns, TInv
<1> DEFINE toks == ents[e].inputs
           left == SubSeq(toks, n + 1, Len(toks))
<1>5. /\ \A g \in Entries : g # e => ents'[g] = ents[g]
      /\ ents'[e].phase = "alive" /\ ents'[e].id = m /\ ents'[e].inputs = left
      /\ ents'[e].prompt = ents[e].prompt /\ ents'[e].committed = ents[e].committed
      /\ ents'[e].cached = ents[e].cached
  BY <1>3, <1>4 DEF Matched, EntryFields
<1>6. left \in Seq(Tokens) /\ left # <<>>
  <2>1. toks \in Seq(Tokens) /\ Len(toks) \in Nat
    BY <1>4, LenProperties DEF EntryRight
  <2>2. n \in 0..Len(toks) /\ Len(toks) - n > 0
    BY <1>3, <2>1
  <2> HIDE DEF toks
  <2>3. left \in Seq(Tokens) /\ Len(left) = Len(toks) - n
    BY <2>1, <2>2, CutFacts
  <2> HIDE DEF left
  <2>4. Len(left) # 0 /\ Len(<<>>) = 0
    BY <2>1, <2>2, <2>3, EmptySeq
  <2> QED
    BY <2>3, <2>4
<1> HIDE DEF left, toks
<1>7. EntryRight(ents'[e])
  BY <1>4, <1>5, <1>6 DEF EntryRight
<1>8. TInv'
  BY <1>1, <1>5, <1>7 DEF TInv
<1>9. ASSUME NEW g \in Entries, ents'[g].phase = "alive" PROVE Follows(g)
  <2>1. CASE g = e
    BY <1>2, <1>4, <1>5, <2>1 DEF Follows
  <2>2. CASE g # e
    <3>1. ents'[g] = ents[g] /\ ents[g].phase = "alive"
      BY <1>5, <1>9, <2>2
    <3>2. ents[g].id # m
      BY <1>5, <1>9, <2>2, <3>1 DEF IInv, Owns
    <3>3. ents[g].id \in DOMAIN cache.kv
      BY <3>1 DEF IInv, Owns, Good
    <3> QED
      BY <1>3, <3>1, <3>2, <3>3 DEF Follows, Runs
  <2> QED
    BY <2>1, <2>2
<1>10. ASSUME NEW s \in DOMAIN cache'.kv \ DOMAIN cache.kv
       PROVE  \E g \in Entries : \E k : MatchedAt(g, s, k)
  <2>1. s = m
    BY <1>3, <1>10
  <2> QED
    BY <1>2, <2>1
<1> QED
  BY <1>8, <1>9, <1>10 DEF StepRight

\* A batch.
LEMMA RunBatchStep ==
    ASSUME IInv, IInv', TInv, eagle' = eagle, NEW b \in Batches, RunBatch(b)
    PROVE  TInv' /\ StepRight
<1>1. /\ TokensRight(cache', buf') /\ DOMAIN cache'.kv = DOMAIN cache.kv
      /\ \A e \in Entries : /\ EntryRight(ents'[e])
                            /\ ents'[e].phase = ents[e].phase /\ ents'[e].id = ents[e].id
      /\ \A e \in Entries : ents[e].phase = "alive" => Runs(e)
  BY RunBatchTokens
<1> QED
  BY <1>1 DEF TInv, StepRight, Follows

\* An entry that ends, or goes back to the queue with all its tokens as inputs, after
\* its sequence was recycled.
LEMMA RecycleStep ==
    ASSUME IInv, IInv', TInv, eagle' = eagle, buf' = buf, NEW e \in Entries,
           NEW lazy \in BOOLEAN, NEW c \in RecycleSequence(cache, buf, ents[e].id, lazy),
           cache' = c \/ (Good(c) /\ cache' = GetNewId(c)),
           \A g \in Entries : g # e => ents'[g] = ents[g],
           ents'[e].phase # "alive", EntryRight(ents'[e])
    PROVE  TInv' /\ StepRight
<1>1. /\ GoodMaps(cache) /\ GoodIds(cache) /\ DOMAIN cache.kv = DOMAIN cache.seqs
      /\ TokensRight(cache, buf) /\ BuffersRight(buf)
  BY DEF IInv, Good, TInv, TokensRight
<1>2. Settled(c) /\ \A t \in DOMAIN c.seqs : t \in DOMAIN cache.seqs /\ c.kv[t] = cache.kv[t]
  BY <1>1, RecycleSettles
<1>3. TokensRight(c, buf)
  BY <1>1, <1>2, SettledFacts
<1>4. TokensRight(cache', buf') /\ cache'.seqs = c.seqs /\ cache'.kv = c.kv
  <2>1. CASE cache' = c
    BY <1>3, <2>1
  <2>2. CASE Good(c) /\ cache' = GetNewId(c)
    <3>1. GoodMaps(c) /\ GoodIds(c)
      BY <2>2 DEF Good
    <3> QED
      BY <1>3, <2>2, <3>1, NewIdKept, GetNewIdFacts
  <2> QED
    BY <2>1, <2>2
<1>5. DOMAIN cache'.kv = DOMAIN cache'.seqs
  BY DEF IInv, Good
<1>6. \A t \in DOMAIN cache'.kv : t \in DOMAIN cache.kv /\ cache'.kv[t] = cache.kv[t]
  BY <1>1, <1>2, <1>4, <1>5
<1>7. \A g \in Entries : \/ ents'[g] = ents[g]
                         \/ ents'[g].phase # "alive" /\ EntryRight(ents'[g])
  OBVIOUS
<1> QED
  BY <1>4, <1>6, <1>7, LeavesAlone

\* An entry becomes idle.
LEMMA IdleStep ==
    ASSUME IInv, NEW e \in Entries, ents' = [ents EXCEPT ![e] = Idle]
    PROVE  /\ \A g \in Entries : g # e => ents'[g] = ents[g]
           /\ ents'[e].phase # "alive" /\ EntryRight(ents'[e])
<1>1. DOMAIN ents = Entries
  BY DEF IInv, Owns
<1> QED
  BY <1>1, NewEntryRight

\* Finish, FinishPinned and Abort.
LEMMA EndStep ==
    ASSUME IInv, IInv', TInv, eagle' = eagle, NEW e \in Entries,
           Finish(e) \/ FinishPinned(e) \/ Abort(e)
    PROVE  TInv' /\ StepRight
<1>1. ents' = [ents EXCEPT ![e] = Idle] /\ buf' = buf
  BY DEF Finish, FinishPinned, Abort
<1>2. /\ \A g \in Entries : g # e => ents'[g] = ents[g]
      /\ ents'[e].phase # "alive" /\ EntryRight(ents'[e])
  BY <1>1, IdleStep
<1>3. \/ cache' = cache
      \/ \E lazy \in BOOLEAN : cache' \in RecycleSequence(cache, buf, ents[e].id, lazy)
  BY DEF Finish, FinishPinned, Abort
<1>4. CASE cache' = cache
  <2>1. TokensRight(cache', buf')
    BY <1>1, <1>4 DEF TInv
  <2>2. \A t \in DOMAIN cache'.kv : t \in DOMAIN cache.kv /\ cache'.kv[t] = cache.kv[t]
    BY <1>4
  <2>3. \A g \in Entries : \/ ents'[g] = ents[g]
                           \/ ents'[g].phase # "alive" /\ EntryRight(ents'[g])
    BY <1>2
  <2> QED
    BY <2>1, <2>2, <2>3, LeavesAlone
<1>5. CASE \E lazy \in BOOLEAN : cache' \in RecycleSequence(cache, buf, ents[e].id, lazy)
  <2>1. PICK lazy \in BOOLEAN : cache' \in RecycleSequence(cache, buf, ents[e].id, lazy)
    BY <1>5
  <2> QED
    BY <1>1, <1>2, <2>1, RecycleStep
<1> QED
  BY <1>3, <1>4, <1>5

\* Preempt.
LEMMA PreemptStep ==
    ASSUME IInv, IInv', TInv, eagle' = eagle, NEW e \in Entries, Preempt(e)
    PROVE  TInv' /\ StepRight
<1>1. PICK c \in RecycleSequence(cache, buf, ents[e].id, FALSE) :
         /\ cache' = GetNewId(c)
         /\ ents' = [ents EXCEPT ![e].phase = "pending", ![e].id = NewId(c),
                                 ![e].inputs = ents[e].prompt \o ents[e].committed,
                                 ![e].cached = 0]
  BY DEF Preempt
<1>2. /\ ents[e].phase = "alive" /\ Preempts /\ buf' = buf /\ DOMAIN ents = Entries
      /\ DOMAIN ents[e] = EntryFields /\ EntryRight(ents[e])
  BY DEF Preempt, IInv, Owns, TInv
<1>3. /\ \A g \in Entries : g # e => ents'[g] = ents[g]
      /\ ents'[e].phase = "pending" /\ ents'[e].prompt = ents[e].prompt
      /\ ents'[e].inputs = ents[e].prompt \o ents[e].committed
      /\ ents'[e].committed = ents[e].committed /\ ents'[e].cached = 0
  BY <1>1, <1>2 DEF EntryFields
<1>4. EntryRight(ents'[e])
  <2>1. /\ ents[e].prompt \in Seq(Tokens) /\ ents[e].committed \in Seq(Tokens)
        /\ ents[e].prompt # <<>>
    BY <1>2 DEF EntryRight
  <2>2. /\ ents[e].prompt \o ents[e].committed \in Seq(Tokens)
        /\ ents[e].prompt \o ents[e].committed # <<>>
    BY <2>1, ConcatProperties, ConcatEqualIffEmpty
  <2> QED
    BY <1>2, <1>3, <2>1, <2>2 DEF EntryRight
<1>5. Good(c)
  <2> DEFINE h == [ents EXCEPT ![e] = Idle]
  <2>1. Became(ents, h, e, "none", NoSeq)
    BY <1>2 DEF Became, Idle, Entry, EntryFields
  <2> QED
    BY <1>2, <2>1, ReleaseIInv
<1>6. FALSE \in BOOLEAN /\ ents'[e].phase # "alive"
  BY <1>3
<1> QED
  BY <1>1, <1>2, <1>3, <1>4, <1>5, <1>6, RecycleStep

\* FreeMemory and Reset.
LEMMA MemoryStep ==
    ASSUME IInv, IInv', TInv, eagle' = eagle, FreeMemory \/ Reset
    PROVE  TInv' /\ StepRight
<1>1. CASE FreeMemory
  <2>1. cache' \in TryFreeMemory(cache) /\ buf' = buf /\ ents' = ents
    BY <1>1 DEF FreeMemory
  <2>2. /\ GoodMaps(cache) /\ GoodIds(cache) /\ DOMAIN cache.kv = DOMAIN cache.seqs
        /\ TokensRight(cache, buf) /\ DOMAIN cache'.kv = DOMAIN cache'.seqs
    BY DEF IInv, Good, TInv
  <2>3. StillThere(cache, cache') /\ cache'.pending = cache.pending
    BY <2>1, <2>2, FreeKept
  <2>4. TokensRight(cache', buf')
    BY <2>1, <2>2, <2>3, KeptFacts
  <2>5. \A t \in DOMAIN cache'.kv : t \in DOMAIN cache.kv /\ cache'.kv[t] = cache.kv[t]
    BY <2>2, <2>3 DEF StillThere
  <2> QED
    BY <2>1, <2>4, <2>5, LeavesAlone
<1>2. CASE Reset
  <2>1. cache' = EmptyCache /\ buf' = buf /\ ents' = [g \in Entries |-> Idle]
    BY <1>2 DEF Reset
  <2>2. Settled(EmptyCache) /\ DOMAIN EmptyCache.kv = {}
    BY DEF Settled, EmptyCache, EmptyMap
  <2>3. TokensRight(cache', buf')
    <3>1. BuffersRight(buf)
      BY DEF TInv, TokensRight
    <3> QED
      BY <2>1, <2>2, <3>1, SettledFacts
  <2>4. \A t \in DOMAIN cache'.kv : t \in DOMAIN cache.kv /\ cache'.kv[t] = cache.kv[t]
    BY <2>1, <2>2
  <2>5. \A g \in Entries : ents'[g].phase # "alive" /\ EntryRight(ents'[g])
    BY <2>1, NewEntryRight
  <2> QED
    BY <2>3, <2>4, <2>5, LeavesAlone
<1> QED
  BY <1>1, <1>2

\* Every step of the engine.
LEMMA NextTokens ==
    ASSUME IInv, IInv', TInv, [Next]_vars
    PROVE  TInv' /\ StepRight
<1>1. CASE UNCHANGED vars
  <2>1. eagle' = eagle /\ cache' = cache /\ buf' = buf /\ ents' = ents
    BY <1>1 DEF vars
  <2>2. TokensRight(cache', buf')
    BY <2>1 DEF TInv
  <2>3. \A t \in DOMAIN cache'.kv : t \in DOMAIN cache.kv /\ cache'.kv[t] = cache.kv[t]
    BY <2>1
  <2> QED
    BY <2>1, <2>2, <2>3, LeavesAlone
<1>2. CASE Next
  <2>1. eagle' = eagle
    BY <1>2 DEF Next
  <2>2. ASSUME NEW e \in Entries, NEW p \in Prompts[eagle], AddRequest(e, p)
        PROVE  TInv' /\ StepRight
    BY <2>1, <2>2, AddRequestTokens
  <2>3. ASSUME NEW e \in Entries, MatchPrefixCache(e) \/ EagleMatchPrefixCache(e)
        PROVE  TInv' /\ StepRight
    BY <2>1, <2>3, MatchStep
  <2>4. ASSUME NEW e \in Entries, Finish(e) \/ FinishPinned(e) \/ Abort(e)
        PROVE  TInv' /\ StepRight
    BY <2>1, <2>4, EndStep
  <2>5. ASSUME NEW e \in Entries, Preempt(e) PROVE TInv' /\ StepRight
    BY <2>1, <2>5, PreemptStep
  <2>6. ASSUME NEW b \in Batches, RunBatch(b) PROVE TInv' /\ StepRight
    BY <2>1, <2>6, RunBatchStep
  <2>7. CASE FreeMemory \/ Reset
    BY <2>1, <2>7, MemoryStep
  <2> QED
    BY <1>2, <2>2, <2>3, <2>4, <2>5, <2>6, <2>7 DEF Next
<1> QED
  BY <1>1, <1>2

----------------------------------------------------------------------------
(* The theorems                                                            *)

\* A new engine: nothing is cached and nothing runs.
LEMMA InitTokens == Init => TInv
<1> SUFFICES ASSUME Init PROVE TInv
  OBVIOUS
<1>1. eagle \in DOMAIN Prompts /\ cache = EmptyCache
      /\ buf = [e \in Entries |-> <<>>] /\ ents = [e \in Entries |-> Idle]
  BY DEF Init
<1>2. BuffersRight(buf)
  BY <1>1, EmptySeq DEF BuffersRight
<1>3. Settled(cache)
  BY <1>1 DEF Settled, EmptyCache, EmptyMap
<1>4. TokensRight(cache, buf)
  BY <1>2, <1>3, SettledFacts
<1>5. \A e \in Entries : EntryRight(ents[e])
  BY <1>1, NewEntryRight
<1> QED
  BY <1>1, <1>4, <1>5 DEF TInv

\* Throughout, the tokens are right: the KV cache of a sequence is never ahead of
\* what the cache believes, and the entries have what they still have to run.
THEOREM TokensAreRight == Spec => [](IInv /\ TInv)
<1>1. Init => IInv /\ TInv
  BY InitIInv, InitTokens
<1>2. (IInv /\ TInv) /\ [Next]_vars => (IInv /\ TInv)'
  BY NextIInv, NextTokens
<1> QED
  BY <1>1, <1>2, PTL DEF Spec

\* Without preemptions the cache never believes what the models do not hold: a prefix
\* that is matched, now or after the extensions are committed, is really there.
THEOREM CacheIsTrue ==
    ASSUME ~Preempts
    PROVE  Spec => []CacheMatchesKv
<1>1. IInv /\ TInv => CacheMatchesKv
  <2> SUFFICES ASSUME IInv, TInv, NEW s \in DOMAIN cache.seqs
               PROVE  CommitSequenceExtention(cache, buf).seqs[s] = cache.kv[s]
    BY DEF CacheMatchesKv
  <2>1. GoodMaps(cache) /\ TokensRight(cache, buf)
    BY DEF IInv, Good, TInv
  <2>2. CommitSequenceExtention(cache, buf).seqs[s] = Believed(cache, buf, s)
    BY <2>1, CommitSettles
  <2>3. Believed(cache, buf, s) = cache.kv[s]
    BY <2>1 DEF TokensRight, Agrees
  <2> QED
    BY <2>2, <2>3
<1> QED
  BY <1>1, TokensAreRight, PTL

\* Every running entry continues where its sequence ends.
Continues ==
    ~eagle => \A e \in Entries : ents[e].phase = "alive" => Continued(cache.kv[ents[e].id], ents[e])

\* A step leaves every running entry so.
LEMMA StepContinues ==
    ASSUME ~Preempts, IInv, TInv, Continues, StepRight, IInv', TInv', [Next]_vars
    PROVE  Continues'
<1>1. eagle' = eagle
  BY DEF Next, vars
<1> SUFFICES ASSUME ~eagle, NEW e \in Entries, ents'[e].phase = "alive"
             PROVE  Continued(cache'.kv[ents'[e].id], ents'[e])
  BY <1>1 DEF Continues
<1>2. Follows(e)
  BY DEF StepRight
<1>3. CASE ents[e].phase = "alive" /\ ents'[e].id = ents[e].id /\ Runs(e)
  <2> DEFINE s == ents[e].id
  <2>1. Continued(cache.kv[s], ents[e])
    BY <1>3 DEF Continues
  <2>2. CASE ents'[e] = ents[e] /\ cache'.kv[s] = cache.kv[s]
    BY <1>3, <2>1, <2>2
  <2>3. CASE \E k, y : RanRight(ents[e], k, y, ents'[e]) /\ cache'.kv[s] = cache.kv[s] \o k
    <3>1. PICK k, y : RanRight(ents[e], k, y, ents'[e]) /\ cache'.kv[s] = cache.kv[s] \o k
      BY <2>3
    <3>2. cache.kv[s] \in Seq(Tokens)
      <4>1. s \in DOMAIN cache.seqs
        BY <1>3 DEF IInv, Owns
      <4> QED
        BY <4>1 DEF TInv, TokensRight, Agrees
    <3>3. Continued(cache.kv[s] \o k, ents'[e])
      BY <2>1, <3>1, <3>2 DEF RanRight
    <3> QED
      BY <1>3, <3>1, <3>3
  <2> QED
    BY <1>3, <2>2, <2>3 DEF Runs
<1>4. CASE ents[e].phase = "pending" /\ ents'[e].phase = "alive" /\ \E m, n : MatchedAt(e, m, n)
  <2>1. PICK m, n : MatchedAt(e, m, n)
    BY <1>4
  <2> DEFINE toks == ents[e].inputs
             left == SubSeq(toks, n + 1, Len(toks))
  <2>2. n \in 0..(Len(toks) - 1) /\ Matched(e, m, n) /\ cache'.kv[m] = SubSeq(toks, 1, n)
    BY <2>1 DEF MatchedAt
  <2>3. /\ ents[e].committed = <<>> /\ ents[e].prompt = toks /\ toks \in Seq(Tokens)
        /\ Len(toks) \in Nat
    BY <1>4, LenProperties DEF TInv, EntryRight
  <2>4. n \in 0..Len(toks) /\ Len(toks) - n > 0
    BY <2>2, <2>3
  <2>5. DOMAIN ents = Entries /\ DOMAIN ents[e] = EntryFields
    BY DEF IInv, Owns
  <2>6. /\ ents'[e].id = m /\ ents'[e].inputs = left /\ ents'[e].prompt = toks
        /\ ents'[e].committed = <<>>
    BY <2>2, <2>3, <2>5 DEF Matched, EntryFields
  <2> HIDE DEF toks
  <2>7. SubSeq(toks, 1, n) \o left = toks /\ left \in Seq(Tokens) /\ Len(left) = Len(toks) - n
    BY <2>3, <2>4, CutFacts
  <2> HIDE DEF left
  <2>8. left # <<>>
    <3>1. Len(left) # 0 /\ Len(<<>>) = 0
      BY <2>3, <2>4, <2>7, EmptySeq
    <3> QED
      BY <3>1
  <2>9. toks \o <<>> = toks
    BY <2>3, ConcatEmptySeq
  <2> QED
    BY <2>2, <2>6, <2>7, <2>8, <2>9 DEF Continued
<1> QED
  BY <1>2, <1>3, <1>4 DEF Follows

\* Without preemptions no token is missing in the KV cache of a running entry and none
\* is there twice, from the match through all chunks and decode steps.
THEOREM PrefillContinues ==
    ASSUME ~Preempts
    PROVE  Spec => []PrefillContinuesKv
<1>1. Init => IInv /\ TInv /\ Continues
  <2>1. Init => Continues
    BY NewEntryRight DEF Init, Continues
  <2> QED
    BY <2>1, InitIInv, InitTokens
<1>2. (IInv /\ TInv /\ Continues) /\ [Next]_vars => (IInv /\ TInv /\ Continues)'
  BY NextIInv, NextTokens, StepContinues
<1>3. Continues => PrefillContinuesKv
  BY DEF Continues, Continued, PrefillContinuesKv
<1> QED
  BY <1>1, <1>2, <1>3, PTL DEF Spec

\* An entry that has been matched has something to prefill.
LEMMA StepLeavesInput ==
    ASSUME IInv, TInv, StepRight
    PROVE  \A e \in Entries : ents[e].phase = "pending" /\ ents'[e].phase = "alive"
                                => ents'[e].inputs # <<>>
<1> SUFFICES ASSUME NEW e \in Entries, ents[e].phase = "pending", ents'[e].phase = "alive"
             PROVE  ents'[e].inputs # <<>>
  OBVIOUS
<1>1. PICK m, n : MatchedAt(e, m, n)
  BY DEF StepRight, Follows
<1> DEFINE toks == ents[e].inputs
           left == SubSeq(toks, n + 1, Len(toks))
<1>2. n \in 0..(Len(toks) - 1) /\ Matched(e, m, n)
  BY <1>1 DEF MatchedAt
<1>3. toks \in Seq(Tokens) /\ Len(toks) \in Nat
  BY LenProperties DEF TInv, EntryRight
<1>4. DOMAIN ents = Entries /\ DOMAIN ents[e] = EntryFields
  BY DEF IInv, Owns
<1>5. ents'[e].inputs = left
  BY <1>2, <1>4 DEF Matched, EntryFields
<1>6. n \in 0..Len(toks) /\ Len(toks) - n > 0
  BY <1>2, <1>3
<1> HIDE DEF toks
<1>7. Len(left) = Len(toks) - n
  BY <1>3, <1>6, CutFacts
<1> HIDE DEF left
<1>8. Len(left) # 0 /\ Len(<<>>) = 0
  BY <1>3, <1>6, <1>7, EmptySeq
<1> QED
  BY <1>5, <1>8

\* The last token of the inputs is never matched, with Eagle or without and also for
\* an entry that was preempted: there are logits to sample from.
THEOREM MatchesLeaveInput == Spec => MatchLeavesInput
<1>1. (IInv /\ TInv) /\ [Next]_vars =>
        [\A e \in Entries : ents[e].phase = "pending" /\ ents'[e].phase = "alive"
                              => ents'[e].inputs # <<>>]_vars
  BY NextIInv, NextTokens, StepLeavesInput
<1> QED
  BY <1>1, TokensAreRight, PTL DEF Spec, MatchLeavesInput

\* An entry that goes on with its sequence keeps what the models hold.
LEMMA StepKeepsKv ==
    ASSUME IInv, TInv, StepRight, IInv', NEW e \in Entries,
           ents[e].phase = "alive", ents'[e].phase = "alive", ents'[e].id = ents[e].id
    PROVE  /\ ents[e].id \in DOMAIN cache'.kv
           /\ IsPrefix(cache.kv[ents[e].id], cache'.kv[ents[e].id])
<1> DEFINE k == cache.kv[ents[e].id]
<1>1. ents[e].id \in DOMAIN cache'.kv /\ ents[e].id \in DOMAIN cache.seqs
  BY DEF IInv, Owns, Good
<1>2. k \in Seq(Tokens)
  BY <1>1 DEF TInv, TokensRight, Agrees
<1>3. Runs(e)
  BY DEF StepRight, Follows
<1>4. CASE cache'.kv[ents[e].id] = k
  <2>1. Len(k) \in Nat
    BY <1>2, LenProperties
  <2> QED
    BY <1>1, <1>4, <2>1 DEF IsPrefix
<1>5. CASE \E x, y : RanRight(ents[e], x, y, ents'[e]) /\ cache'.kv[ents[e].id] = k \o x
  <2>1. PICK x, y : RanRight(ents[e], x, y, ents'[e]) /\ cache'.kv[ents[e].id] = k \o x
    BY <1>5
  <2>2. x \in Seq(Tokens)
    BY <2>1 DEF RanRight
  <2> HIDE DEF k
  <2>3. /\ k \o x \in Seq(Tokens) /\ Len(k \o x) = Len(k) + Len(x)
        /\ \A i \in 1..(Len(k) + Len(x)) :
             (k \o x)[i] = IF i <= Len(k) THEN k[i] ELSE x[i - Len(k)]
    BY <1>2, <2>2, ConcatProperties
  <2>4. Len(k) \in Nat /\ Len(x) \in Nat
    BY <1>2, <2>2, LenProperties
  <2>5. Len(k) <= Len(k \o x) /\ Len(k) \in 0..Len(k) /\ \A i \in 1..Len(k) : k[i] = (k \o x)[i]
    BY <2>3, <2>4
  <2>6. SubSeq(k, 1, Len(k)) = SubSeq(k \o x, 1, Len(k))
    BY <1>2, <2>3, <2>5, SamePrefix
  <2>7. IsPrefix(k, k \o x)
    BY <2>5, <2>6 DEF IsPrefix
  <2> QED
    BY <1>1, <2>1, <2>7 DEF k
<1> QED
  BY <1>3, <1>4, <1>5 DEF Runs

\* Whatever is evicted, reused, forked, preempted or rolled back for others, the KV
\* cache of a running entry never shrinks.
THEOREM RunningKvIsKept == Spec => RunningKvNeverShrinks
<1>1. (IInv /\ TInv) /\ [Next]_vars =>
        [\A e \in Entries :
            /\ ents[e].phase = "alive" /\ ents'[e].phase = "alive"
            /\ ents'[e].id = ents[e].id
            => /\ ents[e].id \in DOMAIN cache'.kv
               /\ IsPrefix(cache.kv[ents[e].id], cache'.kv[ents[e].id])]_vars
  BY NextIInv, NextTokens, StepKeepsKv
<1> QED
  BY <1>1, TokensAreRight, PTL DEF Spec, RunningKvNeverShrinks

\* Where only the tail may be forked (and Eagle does not prefill), a new sequence has
\* all another one has in the models, or nothing; and running entries keep theirs.
\* Preemptions do not matter: the KV cache is never ahead of the cached sequence.
THEOREM KvStepsAreRight ==
    ASSUME ~AllowNonTailForks, TRUE \notin DOMAIN Prompts
    PROVE  Spec => KvSteps
<1>1. (IInv /\ TInv) /\ [Next]_vars =>
        [\A s \in DOMAIN cache'.kv \ DOMAIN cache.kv :
            \/ cache'.kv[s] = <<>>
            \/ \E t \in DOMAIN cache.kv : cache'.kv[s] = cache.kv[t]]_vars
  <2> SUFFICES ASSUME IInv, TInv, [Next]_vars, NEW s \in DOMAIN cache'.kv \ DOMAIN cache.kv
               PROVE  \/ cache'.kv[s] = <<>>
                      \/ \E t \in DOMAIN cache.kv : cache'.kv[s] = cache.kv[t]
    OBVIOUS
  <2>1. StepRight
    BY NextIInv, NextTokens
  <2>2. PICK e \in Entries : \E n : MatchedAt(e, s, n)
    BY <2>1 DEF StepRight
  <2>3. ~eagle
    BY PromptAssumption DEF TInv
  <2> QED
    BY <2>2, <2>3 DEF MatchedAt
<1>2. Spec => TailForksOnly
  BY <1>1, TokensAreRight, PTL DEF Spec, TailForksOnly
<1> QED
  BY <1>2, RunningKvIsKept, PTL DEF KvSteps
=============================================================================
