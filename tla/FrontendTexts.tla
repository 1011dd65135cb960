--------------------------- MODULE FrontendTexts ----------------------------
(***************************************************************************)
(* The texts of the Python engines, for any number of calls, any request ids*)
(* and any requests: the text of an undisturbed call is its own tokens in   *)
(* order (TextsInOrder), is complete when the call ends (EndsRight), and    *)
(* nothing follows an end (NoTextAfterEnd), save for a generation whose end *)
(* was sent twice, by a reset or an abort after its own.  FrontendProofs is *)
(* about who is served, and its invariant ServingInv is used throughout.    *)
(*                                                                          *)
(* TextInv adds the texts.  A token is in one of four places: with the      *)
(* consumer, in the stream, held back by the text streamer, or on its way.  *)
(* The contents of the four, in this order, are the tokens made so far      *)
(* (Flow), each text being the tokens between two places (Chain).  An end   *)
(* that was reached is in one of them (Told), and when the final output has *)
(* been emitted every generation has reached its end (AllOver).  Behind an  *)
(* end no text is on its way (Once), so a text streamer gets no tokens after*)
(* finish; what it keeps then is no longer due (Due).                       *)
(***************************************************************************)
EXTENDS FrontendProofs

----------------------------------------------------------------------------
(* The invariant of texts                                                  *)

\* The tokens of generation g of call c after place a, up to place b.
Seg(c, g, a, b) == [j \in 1..(b - a) |-> Token(c, g, a + j)]

Prefix(c) == IF req[c].echo THEN <<EchoToken>> ELSE <<>>

\* A text that is passed on, and whether the generation ends with it.
Links == [text : Texts, ends : BOOLEAN]
NoLink == [text |-> <<>>, ends |-> FALSE]
IsCount(m) == m.tokens \in Nat /\ m.over \in BOOLEAN /\ m.again \in BOOLEAN

\* The text has the tokens between two places; one that ends the generation has the last.
Link(c, g, w, from, to, m) ==
  /\ from <= to /\ to <= m.tokens /\ w.text = Seg(c, g, from, to)
  /\ w.ends => m.over /\ to = m.tokens

\* Places in the tokens of a generation, before the first text and after each.
Places == [Nat -> Nat]

\* The texts have the tokens between two places, without gaps.
Chain(c, g, W, from, to, m) ==
  \E B \in Places : /\ B[0] = from /\ B[Len(W)] = to
                    /\ \A j \in 1..Len(W) : Link(c, g, W[j], B[j - 1], B[j], m)

\* What the consumer has, what its stream has, what is held back and what is on its way
\* are the tokens that were made, in order.
Flow(c, g, pre, text, ended, W, h, V, m) ==
  \E x, y, z \in 0..m.tokens :
    /\ text = pre \o Seg(c, g, 0, x)
    /\ ended => m.over /\ x = m.tokens
    /\ Chain(c, g, W, x, y, m)
    /\ y <= z /\ h = Seg(c, g, y, z)
    /\ Chain(c, g, V, z, m.tokens, m)

\* The end of a generation has been reported or will be.
Told(ended, W, V, m) ==
  m.over => \/ ended
            \/ \E j \in 1..Len(W) : W[j].ends
            \/ \E j \in 1..Len(V) : V[j].ends

\* The end is on its way or has arrived: the text streamer is finished.
Fin(ended, W) == ended \/ \E j \in 1..Len(W) : W[j].ends

\* Behind an end there is no text, and no second end unless one was sent.
Silent(w, m) == w.text = <<>> /\ (~m.again => ~w.ends)
Once(fin, V, m) ==
  /\ fin => m.over
  /\ \A k \in 1..Len(V) :
       /\ V[k].ends => m.over
       /\ fin \/ (\E j \in 1..(k - 1) : V[j].ends) => Silent(V[k], m)

IsChunk(x) == x.kind = "chunk" /\ ~x.chunk.final
ItemLink(x, g) ==
  IF IsChunk(x) THEN [text |-> x.chunk.outputs[g].text, ends |-> x.chunk.outputs[g].reason # NoReason]
  ELSE NoLink
OutLink(c, b, g) ==
  IF b.call = c THEN [text |-> b.outs[g].text, ends |-> b.outs[g].reason # NoReason] ELSE NoLink

ItemLinks(g, S) == [j \in 1..Len(S) |-> ItemLink(S[j], g)]
OutLinks(c, g, S) == [j \in 1..Len(S) |-> OutLink(c, S[j], g)]
StreamLinks(c, g) == ItemLinks(g, stream[c])
ComingLinks(c, g) == OutLinks(c, g, Coming)

\* What the text streamer still has to give; it keeps what it has given at the end.
Due(ended, W, h) == IF Fin(ended, W) THEN <<>> ELSE h

FlowsOf(c, g, pre, text, ended, W, h, V, m) ==
  /\ text \in Texts
  /\ ~m.again => Flow(c, g, pre, text, ended, W, Due(ended, W, h), V, m)
  /\ Told(ended, W, V, m) /\ Once(Fin(ended, W), V, m)

Flows(c, g) ==
  FlowsOf(c, g, Prefix(c), answer[c].texts[g], reasons[c][g] # NoReason,
          StreamLinks(c, g), held[c][g], ComingLinks(c, g), made[c][g])

ReasonsRight(c, g) ==
  /\ answer[c].reasons[g] = reasons[c][g]
  /\ reasons[c][g] = "tool_calls" => req[c].tools

UsageDue(c) == IF ~req[c].stream \/ req[c].include_usage THEN 1 ELSE 0

\* A stream has chunks for every generation, and at its end the final chunk and the stop.
ItemRight(c, j) ==
  LET x == stream[c][j] IN
  /\ IsChunk(x) => Len(x.chunk.outputs) = req[c].n
  /\ x.kind = "stop" => j = Len(stream[c])
  /\ x.kind = "chunk" /\ x.chunk.final => j + 1 = Len(stream[c]) /\ stream[c][j + 1].kind = "stop"
  /\ x.kind = "stop" /\ j # 1 => stream[c][j - 1].kind = "chunk" /\ stream[c][j - 1].chunk.final
StopsNow(c) == stream[c] # <<>> /\ stream[c][1].kind = "stop"
Shape(c) ==
  /\ \A j \in 1..Len(stream[c]) : ItemRight(c, j)
  /\ answer[c].usage = IF StopsNow(c) THEN UsageDue(c) ELSE 0

AllOver(c) == HasStop(c) \/ EndsFor(c) => \A g \in Gens(c) : made[c][g].over

Running(c) ==
  /\ \A g \in Gens(c) : Flows(c, g) /\ ReasonsRight(c, g)
  /\ Shape(c) /\ AllOver(c)

\* A call that was left has a part of the text.
Partial(c) == \A g \in Gens(c) : ~made[c][g].again =>
                \E k \in 0..made[c][g].tokens : answer[c].texts[g] = Prefix(c) \o Seg(c, g, 0, k)

\* Nothing has been made for the call.
Untouched(c) ==
  \A g \in Gens(c) : made[c][g] = [tokens |-> 0, over |-> FALSE, again |-> FALSE] /\ held[c][g] = <<>>
                     /\ reasons[c][g] = NoReason

\* Only its prompt, if at all.
Opening(c) ==
  /\ \A g \in Gens(c) : answer[c].texts[g] = Prefix(c) /\ answer[c].reasons[g] = NoReason
  /\ answer[c].usage = 0

AnswerShape(c) ==
  /\ answer[c] = [texts |-> answer[c].texts, reasons |-> answer[c].reasons, usage |-> answer[c].usage]
  /\ DOMAIN answer[c].texts = Gens(c) /\ DOMAIN answer[c].reasons = Gens(c)

Early(c) ==
  /\ pc[c] \in {"idle", "echo", "unused"} => Untouched(c)
  /\ pc[c] = "idle" => answer[c] = EmptyAnswer(req[c])
  /\ pc[c] = "echo" => Opening(c)
  /\ pc[c] = "unused" => answer[c] = EmptyAnswer(req[c]) \/ Opening(c)

\* A call that has ended by itself or was left.
After(c) ==
  /\ pc[c] \in {"closing", "failed", "closed"} => Partial(c)
  /\ pc[c] = "failed" => req[c].tools
  /\ pc[c] = "done" => CompleteAnswer(c) /\ ~Present(c)

CallRight(c) ==
  /\ AnswerShape(c) /\ Early(c)
  /\ c \in Quiet => (pc[c] = "run" => Running(c)) /\ After(c)

TextInv == ServingInv /\ \A c \in Calls : CallRight(c)

----------------------------------------------------------------------------
(* Segments and chains                                                     *)

\* A segment is a text with one token per place.
LEMMA SegFacts ==
  ASSUME NEW c \in Calls, NEW g \in Nat, NEW a \in Nat, NEW b \in Nat, a <= b
  PROVE  /\ Seg(c, g, a, b) \in Texts /\ Len(Seg(c, g, a, b)) = b - a
         /\ \A j \in 1..(b - a) : Seg(c, g, a, b)[j] = Token(c, g, a + j)
<1>1. b - a \in Nat
  OBVIOUS
<1>2. \A j \in 1..(b - a) : Token(c, g, a + j) \in Toks
  BY DEF Token, Toks
<1>3. Seg(c, g, a, b) \in [1..(b - a) -> Toks]
  BY <1>2 DEF Seg
<1>4. Seg(c, g, a, b) \in Texts /\ Len(Seg(c, g, a, b)) = b - a
  BY <1>1, <1>3, FunctionIsSeq DEF Texts
<1> QED
  BY <1>4 DEF Seg

IsSeg(s, c, g, a, b) ==
  s \in Seq(Toks) /\ Len(s) = b - a /\ \A j \in 1..(b - a) : s[j] = Token(c, g, a + j)

\* The same, as one predicate.
LEMMA SegIsSeg ==
  ASSUME NEW c \in Calls, NEW g \in Nat, NEW a \in Nat, NEW b \in Nat, a <= b
  PROVE  IsSeg(Seg(c, g, a, b), c, g, a, b)
BY SegFacts DEF IsSeg, Texts

\* The segment between a place and itself is empty.
LEMMA SegEmpty ==
  ASSUME NEW c, NEW g, NEW a \in Nat
  PROVE  Seg(c, g, a, a) = <<>>
<1>1. 1..(a - a) = {}
  OBVIOUS
<1> QED
  BY <1>1 DEF Seg

\* Two segments that meet are one.
LEMMA SegConcat ==
  ASSUME NEW c \in Calls, NEW g \in Nat, NEW x \in Nat, NEW y \in Nat, NEW z \in Nat, x <= y, y <= z
  PROVE  Seg(c, g, x, y) \o Seg(c, g, y, z) = Seg(c, g, x, z)
<1> DEFINE s == Seg(c, g, x, y)
           t == Seg(c, g, y, z)
           u == Seg(c, g, x, z)
<1>1. /\ s \in Seq(Toks) /\ Len(s) = y - x /\ \A j \in 1..(y - x) : s[j] = Token(c, g, x + j)
      /\ t \in Seq(Toks) /\ Len(t) = z - y /\ \A j \in 1..(z - y) : t[j] = Token(c, g, y + j)
      /\ u \in Seq(Toks) /\ Len(u) = z - x /\ \A j \in 1..(z - x) : u[j] = Token(c, g, x + j)
  <2>1. IsSeg(s, c, g, x, y) /\ IsSeg(t, c, g, y, z)
    BY SegIsSeg
  <2>2. x <= z
    OBVIOUS
  <2>3. IsSeg(u, c, g, x, z)
    BY <2>2, SegIsSeg
  <2> HIDE DEF s, t, u
  <2> QED
    BY <2>1, <2>3 DEF IsSeg
<1> HIDE DEF s, t, u
<1>2. /\ s \o t \in Seq(Toks) /\ Len(s \o t) = Len(s) + Len(t)
      /\ \A i \in 1..(Len(s) + Len(t)) : (s \o t)[i] = IF i <= Len(s) THEN s[i] ELSE t[i - Len(s)]
  BY <1>1, ConcatProperties
<1>3. Len(s \o t) = Len(u)
  BY <1>1, <1>2
<1>4. ASSUME NEW j \in 1..Len(u) PROVE (s \o t)[j] = u[j]
  <2>1. (s \o t)[j] = IF j <= Len(s) THEN s[j] ELSE t[j - Len(s)]
    BY <1>2, <1>3
  <2>2. CASE j <= y - x
    BY <1>1, <2>1, <2>2
  <2>3. CASE ~(j <= y - x)
    <3>1. j - (y - x) \in 1..(z - y) /\ y + (j - (y - x)) = x + j
      BY <1>1, <2>3
    <3> QED
      BY <1>1, <2>1, <2>3, <3>1
  <2> QED
    BY <2>2, <2>3
<1>5. s \o t = u
  BY <1>1, <1>2, <1>3, <1>4, SeqEqual
<1> QED
  BY <1>5 DEF s, t, u

\* Two texts meet at a place.
MeetAt(c, g, s, t, a, y, b) == y \in a..b /\ s = Seg(c, g, a, y) /\ t = Seg(c, g, y, b)

\* The parts of a segment are segments.
LEMMA SegParts ==
  ASSUME NEW c \in Calls, NEW g \in Nat, NEW x \in Nat, NEW z \in Nat, x <= z
  PROVE  \A s, t \in Texts : s \o t = Seg(c, g, x, z) =>
           \E y : MeetAt(c, g, s, t, x, y, z)
<1>0. SUFFICES ASSUME NEW s \in Texts, NEW t \in Texts, s \o t = Seg(c, g, x, z)
               PROVE  \E y : MeetAt(c, g, s, t, x, y, z)
  OBVIOUS
<1> DEFINE u == Seg(c, g, x, z)
<1>1. /\ u \in Seq(Toks) /\ Len(u) = z - x /\ \A j \in 1..(z - x) : u[j] = Token(c, g, x + j)
      /\ s \in Seq(Toks) /\ t \in Seq(Toks) /\ u = s \o t
  <2>1. IsSeg(u, c, g, x, z)
    BY SegIsSeg
  <2>2. s \in Seq(Toks) /\ t \in Seq(Toks) /\ u = s \o t
    BY <1>0 DEF Texts
  <2> HIDE DEF u
  <2> QED
    BY <2>1, <2>2 DEF IsSeg
<1> HIDE DEF u
<1>2. Len(s) \in Nat /\ Len(t) \in Nat /\ Len(u) = Len(s) + Len(t)
  BY <1>1, ConcatProperties, LenProperties
<1>3. \A j \in 1..(Len(s) + Len(t)) : u[j] = IF j <= Len(s) THEN s[j] ELSE t[j - Len(s)]
  BY <1>1, ConcatProperties
<1>4. PICK y \in x..z : y = x + Len(s) /\ y - x = Len(s) /\ z - y = Len(t)
  <2>1. z - x = Len(s) + Len(t)
    BY <1>1, <1>2
  <2>2. x + Len(s) \in x..z /\ (x + Len(s)) - x = Len(s) /\ z - (x + Len(s)) = Len(t)
    BY <1>2, <2>1
  <2> QED
    BY <2>2
<1>y. y \in Nat /\ x <= y /\ y <= z
  OBVIOUS
<1>5. s = Seg(c, g, x, y)
  <2>1. /\ Seg(c, g, x, y) \in Seq(Toks) /\ Len(Seg(c, g, x, y)) = Len(s)
        /\ \A j \in 1..Len(s) : Seg(c, g, x, y)[j] = Token(c, g, x + j)
    <3>1. PICK v : v = Seg(c, g, x, y)
      OBVIOUS
    <3>2. IsSeg(v, c, g, x, y)
      BY <1>y, <3>1, SegIsSeg
    <3>3. v \in Seq(Toks) /\ Len(v) = Len(s) /\ \A j \in 1..Len(s) : v[j] = Token(c, g, x + j)
      BY <1>4, <3>2 DEF IsSeg
    <3> QED
      BY <3>1, <3>3
  <2>2. \A j \in 1..Len(s) : s[j] = Token(c, g, x + j)
    BY <1>1, <1>2, <1>3
  <2> QED
    BY <1>1, <2>1, <2>2, SeqEqual
<1>6. t = Seg(c, g, y, z)
  <2>1. /\ Seg(c, g, y, z) \in Seq(Toks) /\ Len(Seg(c, g, y, z)) = Len(t)
        /\ \A j \in 1..Len(t) : Seg(c, g, y, z)[j] = Token(c, g, y + j)
    <3>1. PICK v : v = Seg(c, g, y, z)
      OBVIOUS
    <3>2. IsSeg(v, c, g, y, z)
      BY <1>y, <3>1, SegIsSeg
    <3>3. v \in Seq(Toks) /\ Len(v) = Len(t) /\ \A j \in 1..Len(t) : v[j] = Token(c, g, y + j)
      BY <1>4, <3>2 DEF IsSeg
    <3> QED
      BY <3>1, <3>3
  <2>2. ASSUME NEW j \in 1..Len(t) PROVE t[j] = Token(c, g, y + j)
    <3>1. /\ Len(s) + j \in 1..(Len(s) + Len(t)) /\ ~(Len(s) + j <= Len(s)) /\ (Len(s) + j) - Len(s) = j
          /\ x + (Len(s) + j) = y + j
      BY <1>2, <1>4
    <3> QED
      BY <1>1, <1>2, <1>3, <3>1
  <2> QED
    BY <1>1, <2>1, <2>2, SeqEqual
<1> QED
  BY <1>4, <1>5, <1>6 DEF MeetAt

\* The segment of one token.
LEMMA SegOne ==
  ASSUME NEW c \in Calls, NEW g \in Nat, NEW a \in Nat
  PROVE  Seg(c, g, a, a + 1) = <<Token(c, g, a + 1)>>
<1>1. (a + 1) - a = 1
  OBVIOUS
<1> QED
  BY <1>1 DEF Seg

\* A generation goes on, or is ended.
Grows(m, n) ==
  m.tokens <= n.tokens /\ (m.over => n.over /\ n.tokens = m.tokens) /\ (m.again => n.again)

\* A link stays right when more tokens are made.
LEMMA LinkGrows ==
  ASSUME NEW c, NEW g, NEW w, NEW x \in Nat, NEW y \in Nat, NEW m, NEW n, IsCount(m), IsCount(n), Grows(m, n),
         Link(c, g, w, x, y, m)
  PROVE  Link(c, g, w, x, y, n)
BY DEF IsCount, Grows, Link

\* A chain stays right when more tokens are made.
LEMMA ChainGrows ==
  ASSUME NEW c, NEW g, NEW W \in Seq(Links), NEW x \in Nat, NEW y \in Nat, NEW m, NEW n,
         IsCount(m), IsCount(n), Grows(m, n), Chain(c, g, W, x, y, m)
  PROVE  Chain(c, g, W, x, y, n)
<1>1. PICK B \in Places : /\ B[0] = x /\ B[Len(W)] = y
                          /\ \A j \in 1..Len(W) : Link(c, g, W[j], B[j - 1], B[j], m)
  BY DEF Chain
<1>2. ASSUME NEW j \in 1..Len(W) PROVE Link(c, g, W[j], B[j - 1], B[j], n)
  <2>1. B[j - 1] \in Nat /\ B[j] \in Nat
    <3>1. j - 1 \in Nat /\ j \in Nat
      OBVIOUS
    <3> QED
      BY <3>1 DEF Places
  <2> QED
    BY <1>1, <2>1, LinkGrows
<1> QED
  BY <1>1, <1>2 DEF Chain

\* No texts: the place stays.
LEMMA ChainFlat ==
  ASSUME NEW c, NEW g, NEW W \in Seq(Links), NEW m, IsCount(m), NEW x \in 0..m.tokens,
         \A j \in 1..Len(W) : W[j] = NoLink
  PROVE  Chain(c, g, W, x, x, m)
<1> DEFINE B == [n \in Nat |-> x]
<1>0. x \in Nat /\ x <= m.tokens /\ Len(W) \in Nat
  BY DEF IsCount
<1>1. B \in Places /\ B[0] = x /\ B[Len(W)] = x
  BY <1>0 DEF Places
<1>2. ASSUME NEW j \in 1..Len(W) PROVE Link(c, g, W[j], B[j - 1], B[j], m)
  <2>1. j - 1 \in Nat /\ j \in Nat /\ B[j - 1] = x /\ B[j] = x
    BY <1>0
  <2>2. W[j].text = <<>> /\ W[j].ends = FALSE
    BY DEF NoLink
  <2> HIDE DEF B
  <2> QED
    BY <1>0, <2>1, <2>2, SegEmpty DEF Link
<1> HIDE DEF B
<1> QED
  BY <1>1, <1>2 DEF Chain

\* A chain without texts stays where it is.
LEMMA ChainEmpty ==
  ASSUME NEW c, NEW g, NEW m, NEW x, NEW y, Chain(c, g, <<>>, x, y, m)
  PROVE  x = y
BY DEF Chain

\* The first text of a chain.
LEMMA ChainHead ==
  ASSUME NEW c, NEW g, NEW W \in Seq(Links), W # <<>>, NEW x, NEW y \in Nat, NEW m, Chain(c, g, W, x, y, m)
  PROVE  \E z \in Nat : Link(c, g, Head(W), x, z, m) /\ Chain(c, g, Tail(W), z, y, m)
<1>1. PICK B \in Places : /\ B[0] = x /\ B[Len(W)] = y
                          /\ \A j \in 1..Len(W) : Link(c, g, W[j], B[j - 1], B[j], m)
  BY DEF Chain
<1>2. Len(W) \in Nat \ {0} /\ Head(W) = W[1] /\ Tail(W) \in Seq(Links) /\ Len(Tail(W)) = Len(W) - 1
      /\ \A j \in 1..(Len(W) - 1) : Tail(W)[j] = W[j + 1]
  BY HeadTailProperties, EmptySeq, LenProperties
<1>3. B[1] \in Nat /\ Link(c, g, Head(W), x, B[1], m)
  <2>1. 1 \in 1..Len(W) /\ 1 - 1 = 0
    BY <1>2
  <2>2. Link(c, g, W[1], B[0], B[1], m)
    BY <1>1, <2>1
  <2> QED
    BY <1>1, <1>2, <2>2 DEF Places
<1> DEFINE D == [n \in Nat |-> B[n + 1]]
<1>4. D \in Places /\ \A n \in Nat : D[n] = B[n + 1]
  BY DEF Places
<1> HIDE DEF D
<1>5. D[0] = B[1] /\ D[Len(Tail(W))] = y
  <2>1. Len(Tail(W)) \in Nat /\ Len(Tail(W)) + 1 = Len(W)
    BY <1>2
  <2> QED
    <3>1. D[Len(Tail(W))] = B[Len(Tail(W)) + 1]
      BY <1>4, <2>1
    <3>2. D[0] = B[0 + 1] /\ 0 + 1 = 1
      BY <1>4
    <3> QED
      BY <1>1, <2>1, <3>1, <3>2
<1>6. ASSUME NEW j \in 1..Len(Tail(W)) PROVE Link(c, g, Tail(W)[j], D[j - 1], D[j], m)
  <2>1. j \in 1..(Len(W) - 1) /\ j + 1 \in 1..Len(W) /\ j - 1 \in Nat /\ j \in Nat
        /\ (j + 1) - 1 = j /\ (j - 1) + 1 = j
    BY <1>2
  <2>2. Link(c, g, W[j + 1], B[j], B[j + 1], m)
    BY <1>1, <2>1
  <2>3. D[j - 1] = B[j] /\ D[j] = B[j + 1] /\ Tail(W)[j] = W[j + 1]
    BY <1>2, <1>4, <2>1
  <2> QED
    BY <2>2, <2>3
<1>7. Chain(c, g, Tail(W), B[1], y, m)
  BY <1>4, <1>5, <1>6 DEF Chain
<1> QED
  BY <1>3, <1>7

\* One more text.
LEMMA ChainAppend ==
  ASSUME NEW c, NEW g, NEW W \in Seq(Links), NEW w \in Links, NEW x, NEW y, NEW z \in Nat, NEW m,
         Chain(c, g, W, x, y, m), Link(c, g, w, y, z, m)
  PROVE  Chain(c, g, Append(W, w), x, z, m)
<1>1. PICK B \in Places : /\ B[0] = x /\ B[Len(W)] = y
                          /\ \A j \in 1..Len(W) : Link(c, g, W[j], B[j - 1], B[j], m)
  BY DEF Chain
<1>2. Len(W) \in Nat /\ Len(Append(W, w)) = Len(W) + 1 /\ Append(W, w)[Len(W) + 1] = w
      /\ \A j \in 1..Len(W) : Append(W, w)[j] = W[j]
  BY AppendProperties, LenProperties
<1> DEFINE D == [n \in Nat |-> IF n = Len(W) + 1 THEN z ELSE B[n]]
<1>3. D \in Places /\ \A n \in Nat : D[n] = IF n = Len(W) + 1 THEN z ELSE B[n]
  BY DEF Places
<1> HIDE DEF D
<1>4. D[0] = x /\ D[Len(W) + 1] = z /\ D[Len(W)] = y
  BY <1>1, <1>2, <1>3
<1>5. ASSUME NEW j \in 1..(Len(W) + 1) PROVE Link(c, g, Append(W, w)[j], D[j - 1], D[j], m)
  <2>1. CASE j = Len(W) + 1
    <3>1. (Len(W) + 1) - 1 = Len(W)
      BY <1>2
    <3> QED
      BY <1>2, <1>4, <2>1, <3>1
  <2>2. CASE j # Len(W) + 1
    <3>1. j \in 1..Len(W) /\ j - 1 \in Nat /\ j \in Nat /\ j - 1 # Len(W) + 1
      BY <1>2, <2>2
    <3>2. D[j - 1] = B[j - 1] /\ D[j] = B[j]
      BY <1>3, <2>2, <3>1
    <3> QED
      BY <1>1, <1>2, <3>1, <3>2
  <2> QED
    BY <2>1, <2>2
<1> QED
  BY <1>2, <1>3, <1>4, <1>5 DEF Chain

Joined(c, g, x, y, z) == Seg(c, g, x, y) \o Seg(c, g, y, z) = Seg(c, g, x, z)
Follows(c, g, pre, x, u) == (pre \o Seg(c, g, 0, x)) \o Seg(c, g, x, u) = pre \o Seg(c, g, 0, u)

\* Two segments that meet are joined.
LEMMA SegJoins ==
  ASSUME NEW c \in Calls, NEW g \in Nat, NEW x \in Nat, NEW y \in Nat, NEW z \in Nat, x <= y, y <= z
  PROVE  Joined(c, g, x, y, z)
BY SegConcat DEF Joined

\* A segment behind the tokens before it.
LEMMA SegFollows ==
  ASSUME NEW c \in Calls, NEW g \in Nat, NEW pre \in Seq(Toks), NEW x \in Nat, NEW u \in Nat, x <= u
  PROVE  Follows(c, g, pre, x, u)
<1>1. 0 \in Nat /\ 0 <= x
  OBVIOUS
<1>2. PICK s, t : s = Seg(c, g, 0, x) /\ t = Seg(c, g, x, u)
  OBVIOUS
<1>3. s \in Seq(Toks) /\ t \in Seq(Toks)
  BY <1>1, <1>2, SegFacts DEF Texts
<1>4. (pre \o s) \o t = pre \o (s \o t)
  BY <1>3, ConcatAssociative
<1>5. Joined(c, g, 0, x, u)
  BY <1>1, SegJoins
<1>6. s \o t = Seg(c, g, 0, u)
  BY <1>2, <1>5 DEF Joined
<1> QED
  BY <1>2, <1>4, <1>6 DEF Follows

\* The consumer takes the first text of its stream; after the end there is none.
LEMMA FlowConsume ==
  ASSUME NEW c \in Calls, NEW g \in Nat, NEW pre \in Texts, NEW text, NEW ended \in BOOLEAN,
         NEW W \in Seq(Links), W # <<>>, NEW h, NEW V, NEW m, IsCount(m),
         Flow(c, g, pre, text, ended, W, h, V, m)
  PROVE  /\ Flow(c, g, pre, text \o Head(W).text, ended \/ Head(W).ends, Tail(W), h, V, m)
         /\ ended => Head(W).text = <<>>
<1>1. PICK x, y, z \in 0..m.tokens :
        /\ text = pre \o Seg(c, g, 0, x)
        /\ ended => m.over /\ x = m.tokens
        /\ Chain(c, g, W, x, y, m)
        /\ y <= z /\ h = Seg(c, g, y, z)
        /\ Chain(c, g, V, z, m.tokens, m)
  BY DEF Flow
<1>2. m.tokens \in Nat /\ x \in Nat /\ y \in Nat
  BY DEF IsCount
<1>3. PICK u \in Nat : Link(c, g, Head(W), x, u, m) /\ Chain(c, g, Tail(W), u, y, m)
  BY <1>1, <1>2, ChainHead
<1>4. /\ x <= u /\ u <= m.tokens /\ Head(W).text = Seg(c, g, x, u)
      /\ Head(W).ends => m.over /\ u = m.tokens
  BY <1>3 DEF Link
<1>5. u \in 0..m.tokens
  BY <1>2, <1>4
<1>6. text \o Head(W).text = pre \o Seg(c, g, 0, u)
  <2>1. Follows(c, g, pre, x, u)
    BY <1>2, <1>4, SegFollows DEF Texts
  <2> QED
    BY <1>1, <1>4, <2>1 DEF Follows
<1>7. ended => u = x
  BY <1>1, <1>2, <1>4
<1>8. ended \/ Head(W).ends => m.over /\ u = m.tokens
  BY <1>1, <1>4, <1>7
<1>9. ended => Head(W).text = <<>>
  BY <1>2, <1>4, <1>7, SegEmpty
<1> QED
  BY <1>1, <1>3, <1>5, <1>6, <1>8, <1>9 DEF Flow

\* The oldest text on its way goes to the stream, but for what is held back.
LEMMA FlowTake ==
  ASSUME NEW c \in Calls, NEW g \in Nat, NEW pre, NEW text, NEW ended, NEW W \in Seq(Links),
         NEW h \in Texts, NEW V \in Seq(Links), V # <<>>, NEW m, IsCount(m),
         Flow(c, g, pre, text, ended, W, h, V, m),
         NEW w \in Links, NEW k \in Texts, w.text \o k = h \o Head(V).text,
         w.ends => Head(V).ends /\ k = <<>>
  PROVE  Flow(c, g, pre, text, ended, Append(W, w), k, Tail(V), m)
<1>1. PICK x, y, z \in 0..m.tokens :
        /\ text = pre \o Seg(c, g, 0, x)
        /\ ended => m.over /\ x = m.tokens
        /\ Chain(c, g, W, x, y, m)
        /\ y <= z /\ h = Seg(c, g, y, z)
        /\ Chain(c, g, V, z, m.tokens, m)
  BY DEF Flow
<1>2. m.tokens \in Nat /\ x \in Nat /\ y \in Nat /\ z \in Nat
  BY DEF IsCount
<1>3. PICK u \in Nat : Link(c, g, Head(V), z, u, m) /\ Chain(c, g, Tail(V), u, m.tokens, m)
  BY <1>1, <1>2, ChainHead
<1>4. /\ z <= u /\ u <= m.tokens /\ Head(V).text = Seg(c, g, z, u)
      /\ Head(V).ends => m.over /\ u = m.tokens
  BY <1>3 DEF Link
<1>5. w.text \o k = Seg(c, g, y, u) /\ y <= u
  <2>0. y <= z /\ z <= u
    BY <1>1, <1>4
  <2>1. Joined(c, g, y, z, u)
    BY <1>2, <2>0, SegJoins
  <2>2. y <= u
    BY <1>1, <1>2, <1>4
  <2> QED
    BY <1>1, <1>4, <2>1, <2>2 DEF Joined
<1>6. PICK v \in y..u : w.text = Seg(c, g, y, v) /\ k = Seg(c, g, v, u)
  <2>1. w.text \in Texts
    BY DEF Links
  <2>2. y <= u /\ y \in Nat /\ u \in Nat
    BY <1>2, <1>5
  <2>3. \A s, t \in Texts : s \o t = Seg(c, g, y, u) =>
          \E v : MeetAt(c, g, s, t, y, v, u)
    BY <2>2, SegParts
  <2> QED
    BY <1>5, <2>1, <2>3 DEF MeetAt
<1>7. v \in Nat /\ y <= v /\ v <= u /\ v <= m.tokens /\ v \in 0..m.tokens /\ u \in 0..m.tokens
  BY <1>2, <1>4
<1>8. k = <<>> => v = u
  <2>1. Len(Seg(c, g, v, u)) = u - v
    BY <1>7, SegFacts
  <2>2. k = <<>> => Len(k) = 0
    OBVIOUS
  <2> QED
    BY <1>6, <1>7, <2>1, <2>2
<1>9. Link(c, g, w, y, v, m)
  BY <1>4, <1>6, <1>7, <1>8 DEF Link
<1>10. Chain(c, g, Append(W, w), x, v, m)
  BY <1>1, <1>7, <1>9, ChainAppend
<1> QED
  BY <1>1, <1>3, <1>6, <1>7, <1>10 DEF Flow

\* An item without a text.
LEMMA FlowPad ==
  ASSUME NEW c, NEW g, NEW pre, NEW text, NEW ended, NEW W \in Seq(Links), NEW h, NEW V, NEW m, IsCount(m),
         Flow(c, g, pre, text, ended, W, h, V, m)
  PROVE  Flow(c, g, pre, text, ended, Append(W, NoLink), h, V, m)
<1>1. PICK x, y, z \in 0..m.tokens :
        /\ text = pre \o Seg(c, g, 0, x)
        /\ ended => m.over /\ x = m.tokens
        /\ Chain(c, g, W, x, y, m)
        /\ y <= z /\ h = Seg(c, g, y, z)
        /\ Chain(c, g, V, z, m.tokens, m)
  BY DEF Flow
<1>2. y \in Nat /\ y <= m.tokens
  BY DEF IsCount
<1>3. NoLink \in Links /\ Link(c, g, NoLink, y, y, m)
  <2>1. NoLink.text = <<>> /\ NoLink.ends = FALSE /\ NoLink \in Links
    BY DEF NoLink, Links, Texts
  <2> QED
    BY <1>2, <2>1, SegEmpty DEF Link
<1>4. Chain(c, g, Append(W, NoLink), x, y, m)
  BY <1>1, <1>2, <1>3, ChainAppend
<1> QED
  BY <1>1, <1>4 DEF Flow

\* The oldest output is of another call.
LEMMA FlowSkip ==
  ASSUME NEW c \in Calls, NEW g \in Nat, NEW pre, NEW text, NEW ended, NEW W,
         NEW h, NEW V \in Seq(Links), V # <<>>, Head(V) = NoLink, NEW m, IsCount(m),
         Flow(c, g, pre, text, ended, W, h, V, m)
  PROVE  Flow(c, g, pre, text, ended, W, h, Tail(V), m)
<1>1. PICK x, y, z \in 0..m.tokens :
        /\ text = pre \o Seg(c, g, 0, x)
        /\ ended => m.over /\ x = m.tokens
        /\ Chain(c, g, W, x, y, m)
        /\ y <= z /\ h = Seg(c, g, y, z)
        /\ Chain(c, g, V, z, m.tokens, m)
  BY DEF Flow
<1>2. m.tokens \in Nat /\ z \in Nat
  BY DEF IsCount
<1>3. PICK u \in Nat : Link(c, g, Head(V), z, u, m) /\ Chain(c, g, Tail(V), u, m.tokens, m)
  BY <1>1, <1>2, ChainHead
<1>4. z <= u /\ Seg(c, g, z, u) = <<>>
  BY <1>3 DEF Link, NoLink
<1>5. Len(Seg(c, g, z, u)) = u - z /\ Len(Seg(c, g, z, u)) = 0
  <2>1. IsSeg(Seg(c, g, z, u), c, g, z, u)
    BY <1>2, <1>4, SegIsSeg
  <2> QED
    BY <1>4, <2>1 DEF IsSeg
<1>6. u = z
  BY <1>2, <1>4, <1>5
<1> QED
  BY <1>1, <1>3, <1>6 DEF Flow

\* The engine puts out a text.
LEMMA FlowEmit ==
  ASSUME NEW c \in Calls, NEW g \in Nat, NEW pre, NEW text, NEW ended \in BOOLEAN, NEW W \in Seq(Links),
         NEW h, NEW V \in Seq(Links), NEW m, NEW n, IsCount(m), IsCount(n), Grows(m, n),
         Flow(c, g, pre, text, ended, W, h, V, m),
         NEW v \in Links, v.text = Seg(c, g, m.tokens, n.tokens), v.ends => n.over
  PROVE  Flow(c, g, pre, text, ended, W, h, Append(V, v), n)
<1>1. PICK x, y, z \in 0..m.tokens :
        /\ text = pre \o Seg(c, g, 0, x)
        /\ ended => m.over /\ x = m.tokens
        /\ Chain(c, g, W, x, y, m)
        /\ y <= z /\ h = Seg(c, g, y, z)
        /\ Chain(c, g, V, z, m.tokens, m)
  BY DEF Flow
<1>2. /\ m.tokens \in Nat /\ n.tokens \in Nat /\ m.tokens <= n.tokens
      /\ x \in 0..n.tokens /\ y \in 0..n.tokens /\ z \in 0..n.tokens /\ x \in Nat /\ y \in Nat /\ z \in Nat
  BY DEF IsCount, Grows
<1>3. ended => n.over /\ x = n.tokens
  BY <1>1 DEF Grows
<1>4. Chain(c, g, W, x, y, n) /\ Chain(c, g, V, z, m.tokens, n)
  BY <1>1, <1>2, ChainGrows
<1>5. Link(c, g, v, m.tokens, n.tokens, n)
  BY <1>2 DEF Link
<1>6. Chain(c, g, Append(V, v), z, n.tokens, n)
  BY <1>2, <1>4, <1>5, ChainAppend
<1> QED
  BY <1>1, <1>2, <1>3, <1>4, <1>6 DEF Flow

\* What has been passed on of the end.
LEMMA ToldFacts ==
  ASSUME NEW ended \in BOOLEAN, NEW W \in Seq(Links), NEW V \in Seq(Links), NEW m, IsCount(m), Told(ended, W, V, m)
  PROVE  /\ W # <<>> => Told(ended \/ Head(W).ends, Tail(W), V, m)
         /\ \A w \in Links : V # <<>> /\ (Head(V).ends => w.ends) => Told(ended, Append(W, w), Tail(V), m)
         /\ \A w \in Links : Told(ended, Append(W, w), V, m)
         /\ V # <<>> /\ ~Head(V).ends => Told(ended, W, Tail(V), m)
         /\ \A v \in Links : \A n : Grows(m, n) /\ IsCount(n) /\ (n.over /\ ~m.over => v.ends) => Told(ended, W, Append(V, v), n)
<1>a. ASSUME NEW U \in Seq(Links), NEW u \in Links
      PROVE  /\ (\E j \in 1..Len(U) : U[j].ends) => \E j \in 1..Len(Append(U, u)) : Append(U, u)[j].ends
             /\ u.ends => \E j \in 1..Len(Append(U, u)) : Append(U, u)[j].ends
  <2>1. Len(U) \in Nat /\ Len(Append(U, u)) = Len(U) + 1 /\ Append(U, u)[Len(U) + 1] = u
        /\ \A j \in 1..Len(U) : Append(U, u)[j] = U[j]
    BY AppendProperties, LenProperties
  <2>2. Len(U) + 1 \in 1..Len(Append(U, u)) /\ \A j \in 1..Len(U) : j \in 1..Len(Append(U, u))
    BY <2>1
  <2> QED
    BY <2>1, <2>2
<1>b. ASSUME NEW U \in Seq(Links), U # <<>>
      PROVE  (\E j \in 1..Len(U) : U[j].ends) => Head(U).ends \/ \E j \in 1..Len(Tail(U)) : Tail(U)[j].ends
  <2>1. Len(U) \in Nat \ {0} /\ Head(U) = U[1] /\ Len(Tail(U)) = Len(U) - 1
        /\ \A j \in 1..(Len(U) - 1) : Tail(U)[j] = U[j + 1]
    BY <1>b, HeadTailProperties, EmptySeq, LenProperties
  <2>2. ASSUME NEW j \in 1..Len(U), U[j].ends, j # 1 PROVE \E i \in 1..Len(Tail(U)) : Tail(U)[i].ends
    <3>1. j - 1 \in 1..(Len(U) - 1) /\ (j - 1) + 1 = j
      BY <2>1, <2>2
    <3> QED
      BY <2>1, <2>2, <3>1
  <2> QED
    BY <2>1, <2>2
<1>1. W # <<>> => Told(ended \/ Head(W).ends, Tail(W), V, m)
  BY <1>b DEF Told
<1>2. ASSUME NEW w \in Links, V # <<>>, Head(V).ends => w.ends PROVE Told(ended, Append(W, w), Tail(V), m)
  BY <1>2, <1>a, <1>b DEF Told
<1>3. ASSUME NEW w \in Links PROVE Told(ended, Append(W, w), V, m)
  BY <1>a DEF Told
<1>4. V # <<>> /\ ~Head(V).ends => Told(ended, W, Tail(V), m)
  BY <1>b DEF Told
<1>5. ASSUME NEW v \in Links, NEW n, Grows(m, n), IsCount(n), n.over /\ ~m.over => v.ends PROVE Told(ended, W, Append(V, v), n)
  BY <1>5, <1>a DEF Told, Grows, IsCount
<1> QED
  BY <1>1, <1>2, <1>3, <1>4, <1>5

\* Whether there is an end in a sequence that has grown or was consumed.
LEMMA FinFacts ==
  ASSUME NEW ended \in BOOLEAN, NEW W \in Seq(Links)
  PROVE  /\ \A w \in Links : Fin(ended, Append(W, w)) = (Fin(ended, W) \/ w.ends)
         /\ W # <<>> => Fin(ended \/ Head(W).ends, Tail(W)) = Fin(ended, W)
<1>1. ASSUME NEW w \in Links PROVE Fin(ended, Append(W, w)) = (Fin(ended, W) \/ w.ends)
  <2>1. Len(W) \in Nat /\ Len(Append(W, w)) = Len(W) + 1 /\ Append(W, w)[Len(W) + 1] = w
        /\ \A j \in 1..Len(W) : Append(W, w)[j] = W[j]
    BY AppendProperties, LenProperties
  <2>2. \A j : j \in 1..Len(Append(W, w)) <=> j \in 1..Len(W) \/ j = Len(W) + 1
    BY <2>1
  <2>3. (\E j \in 1..Len(Append(W, w)) : Append(W, w)[j].ends) <=> (\E j \in 1..Len(W) : W[j].ends) \/ w.ends
    BY <2>1, <2>2
  <2>4. w.ends \in BOOLEAN
    BY DEF Links
  <2> QED
    BY <2>3, <2>4 DEF Fin
<1>2. ASSUME W # <<>> PROVE Fin(ended \/ Head(W).ends, Tail(W)) = Fin(ended, W)
  <2>1. Len(W) \in Nat \ {0} /\ Head(W) = W[1] /\ Len(Tail(W)) = Len(W) - 1
        /\ \A j \in 1..(Len(W) - 1) : Tail(W)[j] = W[j + 1]
    BY <1>2, HeadTailProperties, EmptySeq, LenProperties
  <2>2. ASSUME NEW j \in 1..Len(W), W[j].ends PROVE Head(W).ends \/ \E i \in 1..Len(Tail(W)) : Tail(W)[i].ends
    <3>1. j = 1 \/ (j - 1 \in 1..(Len(W) - 1) /\ (j - 1) + 1 = j)
      BY <2>1
    <3> QED
      BY <2>1, <2>2, <3>1
  <2>3. ASSUME NEW i \in 1..Len(Tail(W)), Tail(W)[i].ends PROVE \E j \in 1..Len(W) : W[j].ends
    <3>1. i + 1 \in 1..Len(W)
      BY <2>1
    <3> QED
      BY <2>1, <2>3, <3>1
  <2>4. Head(W).ends => \E j \in 1..Len(W) : W[j].ends
    BY <2>1
  <2> QED
    BY <2>2, <2>3, <2>4 DEF Fin
<1> QED
  BY <1>1, <1>2

\* An end is behind, whatever is taken or put out.
LEMMA OnceFacts ==
  ASSUME NEW fin \in BOOLEAN, NEW V \in Seq(Links), NEW m, IsCount(m), Once(fin, V, m)
  PROVE  /\ V # <<>> => Once(fin \/ Head(V).ends, Tail(V), m)
         /\ V # <<>> /\ fin => Silent(Head(V), m)
         /\ \A v \in Links : \A n :
              /\ Grows(m, n) /\ IsCount(n) /\ (v.ends => n.over)
              /\ m.over => v.text = <<>> /\ (v.ends => n.again)
              => Once(fin, Append(V, v), n)
<1>0. Len(V) \in Nat
  OBVIOUS
<1>a. /\ fin => m.over
      /\ \A k \in 1..Len(V) : V[k].ends => m.over
      /\ fin => \A k \in 1..Len(V) : Silent(V[k], m)
      /\ \A k \in 1..Len(V) : (\E j \in 1..(k - 1) : V[j].ends) => Silent(V[k], m)
  <2>1. fin => m.over
    BY Zenon DEF Once
  <2>2. ASSUME NEW k \in 1..Len(V)
        PROVE  /\ V[k].ends => m.over
               /\ fin => Silent(V[k], m)
               /\ (\E j \in 1..(k - 1) : V[j].ends) => Silent(V[k], m)
    BY Zenon DEF Once
  <2> QED
    BY <2>1, <2>2
<1>b. ASSUME NEW k \in 1..Len(V) PROVE V[k].ends \in BOOLEAN
  <2>1. V[k] \in Links
    OBVIOUS
  <2> QED
    BY <2>1 DEF Links
<1>1. ASSUME V # <<>> PROVE Once(fin \/ Head(V).ends, Tail(V), m) /\ (fin => Silent(Head(V), m))
  <2>1. Len(V) \in Nat \ {0} /\ Head(V) = V[1] /\ Len(Tail(V)) = Len(V) - 1 /\ 1 \in 1..Len(V)
        /\ \A j \in 1..(Len(V) - 1) : Tail(V)[j] = V[j + 1]
    BY <1>1, HeadTailProperties, EmptySeq, LenProperties
  <2>2. fin => Silent(Head(V), m)
    BY <1>a, <2>1
  <2>3. fin \/ Head(V).ends => m.over
    BY <1>a, <2>1
  <2>4. ASSUME NEW k \in 1..Len(Tail(V))
        PROVE  /\ Tail(V)[k].ends => m.over
               /\ (fin \/ Head(V).ends) \/ (\E j \in 1..(k - 1) : Tail(V)[j].ends) => Silent(Tail(V)[k], m)
    <3>1. k + 1 \in 1..Len(V) /\ Tail(V)[k] = V[k + 1] /\ (k + 1) - 1 = k /\ 1 \in 1..k
      BY <2>1
    <3>2. /\ V[k + 1].ends => m.over
          /\ fin \/ (\E j \in 1..k : V[j].ends) => Silent(V[k + 1], m)
      BY <1>a, <3>1
    <3>3. ASSUME NEW j \in 1..(k - 1), Tail(V)[j].ends PROVE \E i \in 1..k : V[i].ends
      <4>1. j + 1 \in 1..k /\ Tail(V)[j] = V[j + 1]
        BY <2>1
      <4> QED
        BY <3>3, <4>1
    <3> QED
      BY <2>1, <3>1, <3>2, <3>3
  <2> QED
    BY <2>2, <2>3, <2>4 DEF Once
<1>2. ASSUME NEW v \in Links, NEW n, Grows(m, n), IsCount(n), v.ends => n.over,
             m.over => v.text = <<>> /\ (v.ends => n.again)
      PROVE  Once(fin, Append(V, v), n)
  <2>1. Len(Append(V, v)) = Len(V) + 1 /\ Append(V, v)[Len(V) + 1] = v
        /\ \A j \in 1..Len(V) : Append(V, v)[j] = V[j]
    BY AppendProperties
  <2>2. fin => n.over
    BY <1>2, <1>a DEF Grows
  <2>3. ASSUME NEW k \in 1..Len(V)
        PROVE  /\ V[k].ends => n.over
               /\ fin \/ (\E j \in 1..(k - 1) : Append(V, v)[j].ends) => Silent(V[k], n)
    <3>1. \A j \in 1..(k - 1) : Append(V, v)[j] = V[j]
      BY <1>0, <2>1
    <3> QED
      BY <1>2, <1>a, <3>1, Zenon DEF Grows, Silent
  <2>4. fin \/ (\E j \in 1..Len(V) : Append(V, v)[j].ends) => Silent(v, n)
    <3>1. fin \/ (\E j \in 1..Len(V) : Append(V, v)[j].ends) => m.over
      BY <1>a, <2>1, Zenon
    <3> QED
      BY <1>2, <3>1 DEF Silent
  <2>5. ASSUME NEW k \in 1..Len(Append(V, v))
        PROVE  /\ Append(V, v)[k].ends => n.over
               /\ fin \/ (\E j \in 1..(k - 1) : Append(V, v)[j].ends) => Silent(Append(V, v)[k], n)
    <3>1. CASE k \in 1..Len(V)
      BY <2>1, <2>3, <3>1
    <3>2. CASE k = Len(V) + 1
      <4>1. k - 1 = Len(V)
        BY <1>0, <3>2
      <4> QED
        BY <1>2, <2>1, <2>4, <3>2, <4>1
    <3> QED
      BY <1>0, <2>1, <3>1, <3>2
  <2> QED
    BY <2>2, <2>5 DEF Once
<1> QED
  BY <1>1, <1>2

\* An item without a text, as FlowPad, with the ends.
LEMMA FlowsPad ==
  ASSUME NEW c \in Calls, NEW g \in Nat, NEW pre, NEW text, NEW ended \in BOOLEAN, NEW W \in Seq(Links),
         NEW h, NEW V \in Seq(Links), NEW m, IsCount(m), FlowsOf(c, g, pre, text, ended, W, h, V, m)
  PROVE  FlowsOf(c, g, pre, text, ended, Append(W, NoLink), h, V, m)
<1>1. NoLink \in Links /\ NoLink.ends = FALSE
  BY DEF NoLink, Links, Texts
<1>2. PICK U : U = Append(W, NoLink)
  OBVIOUS
<1>3. Fin(ended, U) = Fin(ended, W)
  <2>1. Fin(ended, U) = (Fin(ended, W) \/ NoLink.ends)
    BY <1>1, <1>2, FinFacts
  <2> QED
    BY <1>1, <2>1 DEF Fin
<1>4. PICK d : d = Due(ended, W, h) /\ d = Due(ended, U, h)
  BY <1>3 DEF Due
<1>5. ~m.again => Flow(c, g, pre, text, ended, U, d, V, m)
  <2>1. ~m.again => Flow(c, g, pre, text, ended, W, d, V, m)
    BY <1>4 DEF FlowsOf
  <2> QED
    BY <1>2, <2>1, FlowPad
<1>6. Told(ended, U, V, m)
  BY <1>1, <1>2, ToldFacts DEF FlowsOf
<1>7. FlowsOf(c, g, pre, text, ended, U, h, V, m)
  BY <1>3, <1>4, <1>5, <1>6 DEF FlowsOf
<1> QED
  BY <1>2, <1>7

\* The oldest text on its way goes to the stream, as FlowTake, with the ends: what the
\* text streamer still has at the end it gives; it gives nothing behind the end.
LEMMA FlowsTake ==
  ASSUME NEW c \in Calls, NEW g \in Nat, NEW pre, NEW text, NEW ended \in BOOLEAN, NEW W \in Seq(Links),
         NEW h \in Texts, NEW V \in Seq(Links), V # <<>>, NEW m, IsCount(m),
         FlowsOf(c, g, pre, text, ended, W, h, V, m),
         NEW w \in Links, NEW k \in Texts, w.ends = Head(V).ends,
         IF w.ends THEN w.text = h \o Head(V).text ELSE w.text \o k = h \o Head(V).text,
         Head(V).text = <<>> /\ ~w.ends => w.text = <<>>
  PROVE  FlowsOf(c, g, pre, text, ended, Append(W, w), k, Tail(V), m)
<1>1. PICK U : U = Append(W, w)
  OBVIOUS
<1>2. PICK fin \in BOOLEAN : fin = Fin(ended, W)
  BY DEF Fin
<1>3. w.ends \in BOOLEAN /\ w.text \in Texts /\ Head(V) \in Links /\ Tail(V) \in Seq(Links) /\ <<>> \in Texts
  <2>1. Head(V) \in Links /\ Tail(V) \in Seq(Links)
    BY HeadTailProperties
  <2> QED
    BY <2>1 DEF Links, Texts
<1>4. Fin(ended, U) = (fin \/ w.ends)
  BY <1>1, <1>2, FinFacts
<1>5. Once(Fin(ended, U), Tail(V), m) /\ (fin => Silent(Head(V), m))
  <2>1. Once(fin, V, m)
    BY <1>2 DEF FlowsOf
  <2>2. Once(fin \/ Head(V).ends, Tail(V), m) /\ (fin => Silent(Head(V), m))
    BY <2>1, OnceFacts
  <2> QED
    BY <1>4, <2>2
<1>6. Told(ended, U, Tail(V), m)
  BY <1>1, ToldFacts DEF FlowsOf
<1>7. ASSUME ~m.again PROVE Flow(c, g, pre, text, ended, U, Due(ended, U, k), Tail(V), m)
  <2>1. PICK d : d = Due(ended, W, h)
    OBVIOUS
  <2>2. PICK e : e = Due(ended, U, k)
    OBVIOUS
  <2>3. Flow(c, g, pre, text, ended, W, d, V, m)
    BY <1>7, <2>1 DEF FlowsOf
  <2>4. d \in Texts /\ e \in Texts
    BY <1>3, <2>1, <2>2 DEF Due
  <2>5. w.text \o e = d \o Head(V).text /\ (w.ends => e = <<>>)
    <3>1. CASE fin
      <4>1. Head(V).text = <<>> /\ ~w.ends
        BY <1>5, <1>7, <3>1 DEF Silent
      <4>2. d = <<>> /\ e = <<>> /\ w.text = <<>>
        BY <1>2, <1>4, <2>1, <2>2, <3>1, <4>1 DEF Due
      <4> QED
        BY <4>1, <4>2
    <3>2. CASE ~fin /\ w.ends
      <4>1. d = h /\ e = <<>> /\ w.text = h \o Head(V).text
        BY <1>2, <1>4, <2>1, <2>2, <3>2 DEF Due
      <4>2. w.text \o <<>> = w.text
        BY <1>3, ConcatEmptySeq DEF Texts
      <4> QED
        BY <4>1, <4>2
    <3>3. CASE ~fin /\ ~w.ends
      BY <1>2, <1>4, <2>1, <2>2, <3>3 DEF Due
    <3> QED
      BY <1>3, <3>1, <3>2, <3>3
  <2>6. Flow(c, g, pre, text, ended, Append(W, w), e, Tail(V), m)
    BY <2>3, <2>4, <2>5, FlowTake
  <2> QED
    BY <1>1, <2>2, <2>6
<1>8. FlowsOf(c, g, pre, text, ended, U, k, Tail(V), m)
  BY <1>5, <1>6, <1>7 DEF FlowsOf
<1> QED
  BY <1>1, <1>8

\* The consumer takes the first text of its stream, as FlowConsume, with the ends.
LEMMA FlowsConsume ==
  ASSUME NEW c \in Calls, NEW g \in Nat, NEW pre \in Texts, NEW text, NEW ended \in BOOLEAN,
         NEW W \in Seq(Links), W # <<>>, NEW h, NEW V \in Seq(Links), NEW m, IsCount(m),
         FlowsOf(c, g, pre, text, ended, W, h, V, m)
  PROVE  /\ FlowsOf(c, g, pre, text \o Head(W).text, ended \/ Head(W).ends, Tail(W), h, V, m)
         /\ ended /\ ~m.again => Head(W).text = <<>>
<1>1. PICK T, q : T = Tail(W) /\ q = (ended \/ Head(W).ends)
  OBVIOUS
<1>2. Head(W) \in Links /\ T \in Seq(Links)
  BY <1>1, HeadTailProperties
<1>3. q \in BOOLEAN /\ Head(W).text \in Texts
  BY <1>1, <1>2 DEF Links
<1>4. Fin(q, T) = Fin(ended, W)
  BY <1>1, FinFacts
<1>5. PICK d : d = Due(ended, W, h) /\ d = Due(q, T, h)
  BY <1>4 DEF Due
<1>6. ~m.again => /\ Flow(c, g, pre, text \o Head(W).text, q, T, d, V, m)
                  /\ ended => Head(W).text = <<>>
  <2>1. ~m.again => Flow(c, g, pre, text, ended, W, d, V, m)
    BY <1>5 DEF FlowsOf
  <2> QED
    BY <1>1, <2>1, FlowConsume
<1>7. text \o Head(W).text \in Texts
  <2>1. text \in Seq(Toks) /\ Head(W).text \in Seq(Toks)
    BY <1>3 DEF FlowsOf, Texts
  <2> QED
    BY <2>1, ConcatProperties DEF Texts
<1>8. Told(q, T, V, m)
  BY <1>1, ToldFacts DEF FlowsOf
<1>9. FlowsOf(c, g, pre, text \o Head(W).text, q, T, h, V, m)
  BY <1>4, <1>5, <1>6, <1>7, <1>8 DEF FlowsOf
<1> QED
  BY <1>1, <1>6, <1>9

----------------------------------------------------------------------------
(* Calls that do not take part in a step                                   *)

\* Types of what is passed on.
LEMMA LinkTypes ==
  ASSUME Types, Named, NEW c \in Calls, NEW g \in Gens(c)
  PROVE  /\ g \in Nat /\ IsCount(made[c][g]) /\ held[c][g] \in Texts /\ Prefix(c) \in Texts
         /\ ComingLinks(c, g) \in Seq(Links) /\ Len(ComingLinks(c, g)) = Len(Coming)
         /\ \A j \in 1..Len(Coming) : ComingLinks(c, g)[j] = OutLink(c, Coming[j], g)
         /\ Shape(c) => StreamLinks(c, g) \in Seq(Links)
         /\ Len(stream[c]) \in Nat => Len(StreamLinks(c, g)) = Len(stream[c])
         /\ \A j \in 1..Len(stream[c]) : StreamLinks(c, g)[j] = ItemLink(stream[c][j], g)
         /\ stream[c] \in Seq(Items) /\ Len(stream[c]) \in Nat
<1>0. NoLink \in Links
  BY DEF NoLink, Links, Texts
<1>1. g \in Nat /\ req[c].n \in Nat
  BY ScenarioFacts DEF Types, Gens
<1>2. IsCount(made[c][g])
  <2>1. made[c][g] \in [tokens : 0..req[c].max_tokens, over : BOOLEAN, again : BOOLEAN] /\ req[c].max_tokens \in Nat
    BY ScenarioFacts DEF Types, MadeTypes
  <2> QED
    BY <2>1 DEF IsCount
<1>3. held[c][g] \in Texts /\ Prefix(c) \in Texts
  <2>1. held[c] \in [Gens(c) -> Texts]
    BY DEF Types, HeldTypes
  <2>2. <<EchoToken>> \in Texts /\ <<>> \in Texts
    BY DEF Texts, Toks
  <2> QED
    BY <2>1, <2>2 DEF Prefix
<1>4. ASSUME NEW j \in 1..Len(Coming) PROVE OutLink(c, Coming[j], g) \in Links
  <2>1. Coming[j] \in Batches /\ (Coming[j].call = c => DOMAIN Coming[j].outs = Gens(c))
    BY ComingTypes DEF Named
  <2>2. CASE Coming[j].call = c
    <3>1. Coming[j].outs[g] \in Outs
      BY <2>1, <2>2 DEF Batches
    <3>2. Coming[j].outs[g].text \in Texts /\ (Coming[j].outs[g].reason # NoReason) \in BOOLEAN
      BY <3>1 DEF Outs
    <3> QED
      BY <2>2, <3>2 DEF OutLink, Links
  <2>3. CASE Coming[j].call # c
    BY <1>0, <2>3 DEF OutLink
  <2> QED
    BY <2>2, <2>3
<1>5. ComingLinks(c, g) \in Seq(Links) /\ Len(ComingLinks(c, g)) = Len(Coming)
  <2>1. ComingLinks(c, g) \in [1..Len(Coming) -> Links] /\ Len(Coming) \in Nat
    BY <1>4, ComingTypes DEF ComingLinks, OutLinks
  <2> QED
    BY <2>1, FunctionIsSeq
<1>6. stream[c] \in Seq(Items) /\ Len(stream[c]) \in Nat
  BY DEF Types, StreamTypes
<1>7. ASSUME Shape(c) PROVE StreamLinks(c, g) \in Seq(Links)
  <2>1. ASSUME NEW j \in 1..Len(stream[c]) PROVE ItemLink(stream[c][j], g) \in Links
    <3>1. stream[c][j] \in Items
      BY <1>6
    <3>2. CASE IsChunk(stream[c][j])
      <4>1. Len(stream[c][j].chunk.outputs) = req[c].n /\ stream[c][j].chunk.outputs \in Seq(Outs)
        BY <1>7, <3>1, <3>2 DEF Shape, ItemRight, Items, Chunks
      <4>2. stream[c][j].chunk.outputs[g] \in Outs
        BY <4>1 DEF Gens
      <4>3. stream[c][j].chunk.outputs[g].text \in Texts
            /\ (stream[c][j].chunk.outputs[g].reason # NoReason) \in BOOLEAN
        BY <4>2 DEF Outs
      <4> QED
        BY <3>2, <4>3 DEF ItemLink, Links
    <3>3. CASE ~IsChunk(stream[c][j])
      BY <1>0, <3>3 DEF ItemLink
    <3> QED
      BY <3>2, <3>3
  <2>2. StreamLinks(c, g) \in [1..Len(stream[c]) -> Links]
    BY <2>1 DEF StreamLinks, ItemLinks
  <2> QED
    BY <1>6, <2>2, FunctionIsSeq
<1>8. Len(StreamLinks(c, g)) = Len(stream[c])
  <2>1. StreamLinks(c, g) \in [1..Len(stream[c]) -> {ItemLink(stream[c][j], g) : j \in 1..Len(stream[c])}]
    BY DEF StreamLinks, ItemLinks
  <2> QED
    BY <1>6, <2>1, FunctionIsSeq
<1>9. \A j \in 1..Len(stream[c]) : StreamLinks(c, g)[j] = ItemLink(stream[c][j], g)
  BY DEF StreamLinks, ItemLinks
<1>10. \A j \in 1..Len(Coming) : ComingLinks(c, g)[j] = OutLink(c, Coming[j], g)
  BY DEF ComingLinks, OutLinks
<1> QED
  BY <1>1, <1>2, <1>3, <1>5, <1>6, <1>7, <1>8, <1>9, <1>10

\* The call itself is left alone.
Idle(c) ==
  /\ UNCHANGED <<kind, id, req>>
  /\ pc'[c] = pc[c] /\ stream'[c] = stream[c] /\ held'[c] = held[c]
  /\ reasons'[c] = reasons[c] /\ answer'[c] = answer[c]

\* A call to which nothing happens keeps its flow of tokens.
LEMMA RunningSame ==
  ASSUME NEW c \in Calls, Running(c), Idle(c), made'[c] = made[c], Coming' = Coming
  PROVE  Running(c)'
<1>1. Gens(c)' = Gens(c) /\ Prefix(c)' = Prefix(c)
  BY DEF Idle, Gens, Prefix
<1>2. ASSUME NEW g \in Gens(c) PROVE Flows(c, g)' /\ ReasonsRight(c, g)'
  <2>1. StreamLinks(c, g)' = StreamLinks(c, g)
    BY DEF Idle, StreamLinks, ItemLinks
  <2>2. ComingLinks(c, g)' = ComingLinks(c, g)
    BY DEF ComingLinks, OutLinks
  <2>3. Flows(c, g) /\ ReasonsRight(c, g)
    BY DEF Running
  <2>4. Flows(c, g)'
    BY <1>1, <2>1, <2>2, <2>3 DEF Flows, Idle
  <2> QED
    BY <2>3, <2>4 DEF ReasonsRight, Idle
<1>3. Shape(c)'
  BY DEF Running, Shape, ItemRight, StopsNow, UsageDue, Idle
<1>4. AllOver(c)'
  BY <1>1 DEF Running, AllOver, HasStop, EndsFor, Idle
<1> QED
  BY <1>1, <1>2, <1>3, <1>4 DEF Running

\* What was made for a call grows while the engine has to do with it.
MadeGrows(c) ==
  \/ made'[c] = made[c]
  \/ Present(c) /\ \A g \in Gens(c) : Grows(made[c][g], made'[c][g])

\* A call that a step leaves aside keeps its part of the invariant.
LEMMA AsideKeeps ==
  ASSUME Types, Named, InOrder, NEW c \in Calls, CallRight(c), Idle(c), MadeGrows(c), Types',
         Quiet' \subseteq Quiet, Present(c)' => Present(c),
         c \in Quiet' /\ pc[c] = "run" => Running(c)'
  PROVE  CallRight(c)'
<1>1. Gens(c)' = Gens(c) /\ Prefix(c)' = Prefix(c) /\ c \in Calls
  BY DEF Idle, Gens, Prefix
<1>2. AnswerShape(c)'
  BY <1>1 DEF CallRight, AnswerShape, Idle
<1>3. ~Present(c) => made'[c] = made[c]
  BY DEF MadeGrows
<1>4. Early(c)'
  <2>1. pc[c] \in {"idle", "echo", "unused"} => made'[c] = made[c]
    <3>1. Present(c) => pc[c] \in {"run", "closing", "failed", "closed", "done"}
      BY DEF InOrder, Unbegun, Begun
    <3> QED
      BY <1>3, <3>1
  <2>2. pc[c] \in {"idle", "echo", "unused"} => Untouched(c)'
    BY <1>1, <2>1 DEF CallRight, Early, Untouched, Idle
  <2>3. Opening(c) => Opening(c)'
    BY <1>1 DEF Opening, Idle
  <2> QED
    BY <2>2, <2>3 DEF CallRight, Early, Idle
<1>5. ASSUME c \in Quiet' PROVE After(c)'
  <2>1. After(c)
    BY <1>5 DEF CallRight
  <2>2. ASSUME Partial(c) PROVE Partial(c)'
    <3>1. ASSUME NEW g \in Gens(c), ~made'[c][g].again
          PROVE  \E k \in 0..made'[c][g].tokens : answer'[c].texts[g] = Prefix(c)' \o Seg(c, g, 0, k)
      <4>0. ~made[c][g].again
        BY <3>1 DEF MadeGrows, Grows
      <4>1. PICK k \in 0..made[c][g].tokens : answer[c].texts[g] = Prefix(c) \o Seg(c, g, 0, k)
        BY <2>2, <4>0 DEF Partial
      <4>2. IsCount(made[c][g])
        BY LinkTypes
      <4>3. IsCount(made'[c][g])
        <5>1. made'[c][g] \in [tokens : 0..req[c].max_tokens, over : BOOLEAN, again : BOOLEAN] /\ req[c].max_tokens \in Nat
          BY <1>1, ScenarioFacts DEF Types, MadeTypes, Idle
        <5> QED
          BY <5>1 DEF IsCount
      <4>4. made[c][g].tokens <= made'[c][g].tokens
        BY <4>2, <4>3 DEF MadeGrows, Grows, IsCount
      <4>5. k \in 0..made'[c][g].tokens
        BY <4>2, <4>3, <4>4 DEF IsCount
      <4> QED
        BY <1>1, <4>1, <4>5 DEF Idle
    <3> QED
      BY <1>1, <3>1 DEF Partial
  <2>3. ASSUME CompleteAnswer(c), ~Present(c) PROVE CompleteAnswer(c)' /\ ~Present(c)'
    <3>1. made'[c] = made[c]
      BY <1>3, <2>3
    <3>2. \A g \in Gens(c) : TextUpTo(c, g, made[c][g].tokens)' = TextUpTo(c, g, made[c][g].tokens)
      BY <3>1 DEF TextUpTo, Tokens, Idle
    <3>3. answer'[c] = answer[c] /\ UNCHANGED req
      BY DEF Idle
    <3>4. CompleteAnswer(c)'
      BY <1>1, <2>3, <3>1, <3>2, <3>3 DEF CompleteAnswer
    <3> QED
      BY <2>3, <3>4
  <2> QED
    BY <2>1, <2>2, <2>3 DEF After, Idle
<1>6. c \in Quiet' /\ pc'[c] = "run" => Running(c)'
  BY DEF Idle
<1> QED
  BY <1>2, <1>4, <1>5, <1>6 DEF CallRight

----------------------------------------------------------------------------
(* The engine                                                              *)

\* The output has the tokens that were made, and the ends.
OutputRight(e, b, g) ==
  /\ Grows(made[e][g], made'[e][g])
  /\ b.outs[g].text = Seg(e, g, made[e][g].tokens, made'[e][g].tokens)
  /\ b.outs[g].reason # NoReason => made'[e][g].over
  /\ made'[e][g].over /\ ~made[e][g].over => b.outs[g].reason # NoReason
  /\ made[e][g].over /\ b.outs[g].reason # NoReason => made'[e][g].again

OutputsRight(e, b) ==
  /\ \A d \in Calls \ {e} : made'[d] = made[d]
  /\ \A g \in Gens(e) : OutputRight(e, b, g)
  /\ b.final => \A g \in Gens(e) : made'[e][g].over

\* The output of an abort ends every generation and has no tokens.
LEMMA AbortTexts ==
  ASSUME Types, NEW c \in Calls, made' = Abandon(c)
  PROVE  OutputsRight(c, AbortOutput(c))
<1> DEFINE m == [g \in Gens(c) |-> [tokens |-> made[c][g].tokens, over |-> TRUE,
                                    again |-> made[c][g].again \/ made[c][g].over]]
<1>1. made' = [made EXCEPT ![c] = m]
  BY DEF Abandon, Types, MadeTypes
<1>2. made = [d \in Calls |-> made[d]]
  BY DEF Types, MadeTypes
<1> HIDE DEF m
<1>3. \A d \in Calls : made'[d] = IF d = c THEN m ELSE made[d]
  BY <1>1, <1>2
<1>4. ASSUME NEW g \in Gens(c) PROVE OutputRight(c, AbortOutput(c), g) /\ made'[c][g].over
  <2>1. made[c][g] \in [tokens : 0..req[c].max_tokens, over : BOOLEAN, again : BOOLEAN] /\ req[c].max_tokens \in Nat /\ g \in Nat
    BY ScenarioFacts DEF Types, MadeTypes, Gens
  <2>2. made'[c][g] = [tokens |-> made[c][g].tokens, over |-> TRUE,
                       again |-> made[c][g].again \/ made[c][g].over]
    BY <1>3 DEF m
  <2>3. /\ made'[c][g].tokens = made[c][g].tokens /\ made'[c][g].over = TRUE /\ made[c][g].tokens \in Nat
        /\ made'[c][g].again = (made[c][g].again \/ made[c][g].over)
    BY <2>1, <2>2
  <2>4. AbortOutput(c).outs[g].text = <<>> /\ AbortOutput(c).outs[g].reason = "abort"
    BY DEF AbortOutput, Output
  <2>5. Seg(c, g, made[c][g].tokens, made'[c][g].tokens) = <<>>
    BY <2>3, SegEmpty
  <2>6. Grows(made[c][g], made'[c][g])
    BY <2>1, <2>3 DEF Grows
  <2>7. made[c][g].over => made'[c][g].again
    BY <2>3
  <2> QED
    BY <2>3, <2>4, <2>5, <2>6, <2>7 DEF OutputRight, NoReason
<1> QED
  BY <1>3, <1>4 DEF OutputsRight

\* The output of an engine step has the tokens it made, and the ends.
LEMMA StepTexts ==
  ASSUME Types, NEW c \in Calls, NEW move, NEW final, StepMoves(c, move, final)
  PROVE  OutputsRight(c, StepOutput(c, move, final))
<1> DEFINE m == [g \in Gens(c) |-> Advance(made[c][g], move[g])]
<1>1. made' = [made EXCEPT ![c] = m]
  BY DEF StepMoves
<1>2. made = [d \in Calls |-> made[d]]
  BY DEF Types, MadeTypes
<1> HIDE DEF m
<1>3. \A d \in Calls : made'[d] = IF d = c THEN m ELSE made[d]
  BY <1>1, <1>2
<1>4. ASSUME NEW g \in Gens(c) PROVE OutputRight(c, StepOutput(c, move, final), g)
  <2>1. made[c][g] \in [tokens : 0..req[c].max_tokens, over : BOOLEAN, again : BOOLEAN] /\ req[c].max_tokens \in Nat /\ g \in Nat
    BY ScenarioFacts DEF Types, MadeTypes, Gens
  <2>2. made'[c][g] = Advance(made[c][g], move[g])
    BY <1>3 DEF m
  <2>3. move[g] \in Moves(c, g) /\ move[g] \in {"nothing", "token", "last", "stop"}
    BY DEF StepMoves
  <2>4. made[c][g].tokens \in Nat /\ made[c][g].over \in BOOLEAN /\ made'[c][g].again = made[c][g].again
    BY <2>1, <2>2 DEF Advance
  <2>5. made[c][g].over => move[g] = "nothing"
    BY <2>3 DEF Moves
  <2>6. made'[c][g].tokens = IF move[g] \in {"token", "last"} THEN made[c][g].tokens + 1 ELSE made[c][g].tokens
    BY <2>2 DEF Advance
  <2>7. made'[c][g].over = (made[c][g].over \/ move[g] \in {"last", "stop"})
    BY <2>2 DEF Advance
  <2>8. StepOutput(c, move, final).outs[g].text
          = IF move[g] \in {"token", "last"} THEN <<Token(c, g, made[c][g].tokens + 1)>> ELSE <<>>
    BY DEF StepOutput, Output
  <2>9. StepOutput(c, move, final).outs[g].reason = IF move[g] \in {"last", "stop"} THEN "stop" ELSE NoReason
    BY DEF StepOutput, Output
  <2>10. Grows(made[c][g], made'[c][g])
    BY <2>4, <2>5, <2>6, <2>7 DEF Grows
  <2>11. StepOutput(c, move, final).outs[g].text = Seg(c, g, made[c][g].tokens, made'[c][g].tokens)
    <3>1. CASE move[g] \in {"token", "last"}
      <4>1. PICK k \in Nat : k = made[c][g].tokens
        BY <2>4
      <4>2. Seg(c, g, k, k + 1) = <<Token(c, g, k + 1)>>
        BY <2>1, <4>1, SegOne
      <4> QED
        BY <2>6, <2>8, <3>1, <4>1, <4>2
    <3>2. CASE move[g] \notin {"token", "last"}
      BY <2>4, <2>6, <2>8, <3>2, SegEmpty
    <3> QED
      BY <3>1, <3>2
  <2>12. "stop" # NoReason
    BY DEF NoReason
  <2> QED
    BY <2>5, <2>7, <2>9, <2>10, <2>11, <2>12 DEF OutputRight
<1>5. StepOutput(c, move, final).final => \A g \in Gens(c) : made'[c][g].over
  BY DEF StepOutput, StepMoves
<1> QED
  BY <1>3, <1>4, <1>5 DEF OutputsRight

\* What a step of the engine says.
LEMMA EngineSays ==
  ASSUME Types, Named, Engine
  PROVE  \/ UNCHANGED <<made, outputs>>
         \/ \E e \in Calls, b \in Batches : Emission(e, b) /\ OutputsRight(e, b)
<1>2. UNCHANGED <<kind, id, req>>
  BY DEF Engine, callVars
<1>a. ASSUME NEW i \in Ids, engine[i] # None, engine' = [engine EXCEPT ![i] = None],
             outputs' = Append(outputs, AbortOutput(engine[i])), made' = Abandon(engine[i])
      PROVE  \E e \in Calls, b \in Batches : Emission(e, b) /\ OutputsRight(e, b)
  <2>1. engine[i] \in Calls /\ AbortOutput(engine[i]) \in Batches /\ Emission(engine[i], AbortOutput(engine[i]))
    BY <1>2, <1>a, AbortEmits
  <2>2. OutputsRight(engine[i], AbortOutput(engine[i]))
    BY <1>a, <2>1, AbortTexts
  <2> QED
    BY <2>1, <2>2
<1>3. CASE RunAdd
  BY <1>3 DEF RunAdd
<1>4. CASE RunAbort
  <2> DEFINE i == Head(instrs).id
  <2>1. i \in Ids
    <3>1. Head(instrs) \in Instrs
      BY <1>4 DEF RunAbort, Types, InstrTypes
    <3> QED
      BY <3>1 DEF Instrs
  <2>2. CASE engine[i] = None
    BY <1>4, <2>2 DEF RunAbort
  <2>3. CASE engine[i] # None
    <3>1. id[engine[i]] = i
      BY <2>1, <2>3 DEF Named
    <3>2. /\ engine' = [engine EXCEPT ![i] = None]
          /\ outputs' = Append(outputs, AbortOutput(engine[i]))
          /\ made' = Abandon(engine[i])
      BY <1>4, <2>3, <3>1 DEF RunAbort
    <3> HIDE DEF i
    <3> QED
      BY <1>a, <2>1, <2>3, <3>2
  <2> QED
    BY <2>2, <2>3
<1>5. CASE RunReset
  <2>1. CASE \A i \in Ids : engine[i] = None
    BY <1>5, <2>1 DEF RunReset
  <2>2. CASE ~\A i \in Ids : engine[i] = None
    <3>1. PICK i \in Ids : /\ engine[i] # None
                           /\ engine' = [engine EXCEPT ![i] = None]
                           /\ outputs' = Append(outputs, AbortOutput(engine[i]))
                           /\ made' = Abandon(engine[i])
      BY <1>5, <2>2 DEF RunReset
    <3> QED
      BY <1>a, <3>1
  <2> QED
    BY <2>1, <2>2
<1>6. ASSUME NEW i \in Ids, EngineStep(i) PROVE \E e \in Calls, b \in Batches : Emission(e, b) /\ OutputsRight(e, b)
  <2>1. engine[i] \in Calls
    BY <1>2, <1>6, StepEmits
  <2>2. PICK move, final : /\ StepMoves(engine[i], move, final)
                           /\ Emission(engine[i], StepOutput(engine[i], move, final))
                           /\ StepOutput(engine[i], move, final) \in Batches
    BY <1>2, <1>6, StepEmits
  <2>3. OutputsRight(engine[i], StepOutput(engine[i], move, final))
    BY <2>1, <2>2, StepTexts
  <2> QED
    BY <2>1, <2>2, <2>3
<1> QED
  BY <1>3, <1>4, <1>5, <1>6 DEF Engine

\* The engine gets no new call by its own steps.
LEMMA EnginePresent ==
  ASSUME Types, Named, InOrder, Engine
  PROVE  \A c \in Calls : Present(c)' => Present(c)
<1>1. UNCHANGED <<kind, id, req, pc, stream, streamers, disturbed, syncQueue>> /\ EngineDoes
  BY EngineCases DEF callVars
<1>3. CASE RunAdd
  BY <1>1, <1>3, AddKeeps
<1>4. CASE /\ UNCHANGED <<engine, outputs, made>>
           /\ Pops("reset") \/ (Pops("abort") /\ engine[Head(instrs).id] = None)
  <2>1. Shortens /\ Coming' = Coming
    BY <1>1, <1>4 DEF Shortens, Coming
  <2> QED
    BY <1>1, <1>4, <2>1, PopKeeps
<1>5. ASSUME NEW e \in Calls, NEW b \in Batches, Emission(e, b),
             UNCHANGED instrs \/ (Pops("abort") /\ b.final /\ Head(instrs).id = id[e])
      PROVE  \A c \in Calls : Present(c)' => Present(c)
  <2>1. Shortens
    <3>1. b.final => engine'[id[e]] = None
      <4>1. id[e] \in Ids
        BY ScenarioFacts DEF Types
      <4> QED
        BY <1>5, <4>1 DEF Emission, Types, EngineTypes
    <3> QED
      BY <1>5, <3>1 DEF Shortens
  <2> QED
    BY <1>1, <1>5, <2>1, EmissionKeeps
<1> QED
  BY <1>1, <1>3, <1>4, <1>5 DEF EngineDoes

\* The links of a longer or shorter sequence.
LEMMA OutLinksFacts ==
  ASSUME NEW c, NEW g, NEW S, NEW C \in Seq(S), NEW L, NEW b \in S, OutLinks(c, g, C) \in Seq(L),
         OutLink(c, b, g) \in L
  PROVE  /\ OutLinks(c, g, Append(C, b)) = Append(OutLinks(c, g, C), OutLink(c, b, g))
         /\ C # <<>> => /\ OutLinks(c, g, C) # <<>> /\ Head(OutLinks(c, g, C)) = OutLink(c, Head(C), g)
                        /\ OutLinks(c, g, Tail(C)) = Tail(OutLinks(c, g, C))
<1> DEFINE K == OutLinks(c, g, C)
<1>1. Len(C) \in Nat /\ DOMAIN K = 1..Len(C) /\ \A j \in 1..Len(C) : K[j] = OutLink(c, C[j], g)
  BY LenProperties DEF OutLinks
<1>2. Len(K) = Len(C)
  <2>1. Len(K) \in Nat /\ 1..Len(K) = 1..Len(C)
    BY <1>1, LenProperties
  <2> QED
    BY <1>1, <2>1
<1>3. OutLinks(c, g, Append(C, b)) = Append(K, OutLink(c, b, g))
  <2>1. Len(Append(C, b)) = Len(C) + 1 /\ Append(C, b)[Len(C) + 1] = b /\ \A j \in 1..Len(C) : Append(C, b)[j] = C[j]
    BY AppendProperties
  <2> DEFINE k == OutLink(c, b, g)
             M == OutLinks(c, g, Append(C, b))
  <2> HIDE DEF K, k
  <2>2. Append(K, k) \in Seq(L) /\ Len(Append(K, k)) = Len(C) + 1 /\ Append(K, k)[Len(C) + 1] = k
        /\ \A j \in 1..Len(C) : Append(K, k)[j] = K[j]
    BY <1>1, <1>2, AppendProperties DEF K, k
  <2>3. DOMAIN M = 1..(Len(C) + 1) /\ \A j \in 1..(Len(C) + 1) : M[j] = OutLink(c, Append(C, b)[j], g)
    BY <2>1 DEF OutLinks
  <2>4. ASSUME NEW j \in 1..(Len(C) + 1) PROVE M[j] = Append(K, k)[j] /\ M[j] \in L
    <3>1. CASE j = Len(C) + 1
      BY <2>1, <2>2, <2>3, <3>1 DEF k
    <3>2. CASE j # Len(C) + 1
      <4>1. j \in 1..Len(C)
        BY <1>1, <3>2
      <4>2. M[j] = OutLink(c, C[j], g) /\ K[j] = OutLink(c, C[j], g) /\ Append(K, k)[j] = K[j]
        BY <1>1, <2>1, <2>2, <2>3, <4>1
      <4>3. K[j] \in L
        BY <1>1, <1>2, <4>1 DEF K
      <4> QED
        BY <4>2, <4>3
    <3> QED
      BY <3>1, <3>2
  <2>5. M \in [1..(Len(C) + 1) -> L]
    BY <2>3, <2>4 DEF OutLinks
  <2>6. M \in Seq(L) /\ Len(M) = Len(C) + 1
    BY <1>1, <2>5, FunctionIsSeq
  <2> HIDE DEF M
  <2>7. M = Append(K, k)
    BY <2>2, <2>4, <2>6, SeqEqual
  <2> QED
    BY <2>7 DEF M, k
<1>4. ASSUME C # <<>> PROVE /\ K # <<>> /\ Head(K) = OutLink(c, Head(C), g)
                            /\ OutLinks(c, g, Tail(C)) = Tail(K)
  <2>1. Len(C) \in Nat \ {0} /\ Head(C) = C[1] /\ Len(Tail(C)) = Len(C) - 1
        /\ \A j \in 1..(Len(C) - 1) : Tail(C)[j] = C[j + 1]
    BY <1>4, HeadTailProperties, EmptySeq, LenProperties
  <2> DEFINE M == OutLinks(c, g, Tail(C))
  <2> HIDE DEF K
  <2>2. K # <<>> /\ K \in Seq(L)
    BY <1>2, <2>1 DEF K
  <2>3. Head(K) = K[1] /\ Tail(K) \in Seq(L) /\ Len(Tail(K)) = Len(C) - 1
        /\ \A j \in 1..(Len(C) - 1) : Tail(K)[j] = K[j + 1]
    BY <1>2, <2>2, HeadTailProperties
  <2>4. DOMAIN M = 1..(Len(C) - 1) /\ \A j \in 1..(Len(C) - 1) : M[j] = OutLink(c, Tail(C)[j], g)
    BY <2>1 DEF OutLinks
  <2>5. ASSUME NEW j \in 1..(Len(C) - 1) PROVE M[j] = Tail(K)[j] /\ M[j] \in L
    <3>1. j + 1 \in 1..Len(C)
      BY <2>1
    <3>2. K[j + 1] \in L
      BY <1>2, <2>2, <3>1
    <3> QED
      BY <1>1, <2>1, <2>3, <2>4, <3>1, <3>2
  <2>6. M \in [1..(Len(C) - 1) -> L] /\ Len(C) - 1 \in Nat
    BY <2>1, <2>4, <2>5 DEF OutLinks
  <2>7. M \in Seq(L) /\ Len(M) = Len(C) - 1
    BY <2>6, FunctionIsSeq
  <2> HIDE DEF M
  <2>8. M = Tail(K)
    BY <2>3, <2>5, <2>7, SeqEqual
  <2>9. Head(K) = OutLink(c, Head(C), g)
    BY <1>1, <2>1, <2>3
  <2> QED
    BY <2>2, <2>8, <2>9 DEF M
<1> QED
  BY <1>3, <1>4

\* The links of a stream that grows or is consumed.
LEMMA ItemLinksFacts ==
  ASSUME NEW g, NEW S, NEW C \in Seq(S), NEW L, NEW b \in S, ItemLinks(g, C) \in Seq(L),
         ItemLink(b, g) \in L
  PROVE  /\ ItemLinks(g, Append(C, b)) = Append(ItemLinks(g, C), ItemLink(b, g))
         /\ C # <<>> => /\ ItemLinks(g, C) # <<>> /\ Head(ItemLinks(g, C)) = ItemLink(Head(C), g)
                        /\ ItemLinks(g, Tail(C)) = Tail(ItemLinks(g, C))
<1> DEFINE K == ItemLinks(g, C)
<1>1. Len(C) \in Nat /\ DOMAIN K = 1..Len(C) /\ \A j \in 1..Len(C) : K[j] = ItemLink(C[j], g)
  BY LenProperties DEF ItemLinks
<1>2. Len(K) = Len(C)
  <2>1. Len(K) \in Nat /\ 1..Len(K) = 1..Len(C)
    BY <1>1, LenProperties
  <2> QED
    BY <1>1, <2>1
<1>3. ItemLinks(g, Append(C, b)) = Append(K, ItemLink(b, g))
  <2>1. Len(Append(C, b)) = Len(C) + 1 /\ Append(C, b)[Len(C) + 1] = b /\ \A j \in 1..Len(C) : Append(C, b)[j] = C[j]
    BY AppendProperties
  <2> DEFINE k == ItemLink(b, g)
             M == ItemLinks(g, Append(C, b))
  <2> HIDE DEF K, k
  <2>2. Append(K, k) \in Seq(L) /\ Len(Append(K, k)) = Len(C) + 1 /\ Append(K, k)[Len(C) + 1] = k
        /\ \A j \in 1..Len(C) : Append(K, k)[j] = K[j]
    BY <1>1, <1>2, AppendProperties DEF K, k
  <2>3. DOMAIN M = 1..(Len(C) + 1) /\ \A j \in 1..(Len(C) + 1) : M[j] = ItemLink(Append(C, b)[j], g)
    BY <2>1 DEF ItemLinks
  <2>4. ASSUME NEW j \in 1..(Len(C) + 1) PROVE M[j] = Append(K, k)[j] /\ M[j] \in L
    <3>1. CASE j = Len(C) + 1
      BY <2>1, <2>2, <2>3, <3>1 DEF k
    <3>2. CASE j # Len(C) + 1
      <4>1. j \in 1..Len(C)
        BY <1>1, <3>2
      <4>2. M[j] = ItemLink(C[j], g) /\ K[j] = ItemLink(C[j], g) /\ Append(K, k)[j] = K[j]
        BY <1>1, <2>1, <2>2, <2>3, <4>1
      <4>3. K[j] \in L
        BY <1>1, <1>2, <4>1 DEF K
      <4> QED
        BY <4>2, <4>3
    <3> QED
      BY <3>1, <3>2
  <2>5. M \in [1..(Len(C) + 1) -> L]
    BY <2>3, <2>4 DEF ItemLinks
  <2>6. M \in Seq(L) /\ Len(M) = Len(C) + 1
    BY <1>1, <2>5, FunctionIsSeq
  <2> HIDE DEF M
  <2>7. M = Append(K, k)
    BY <2>2, <2>4, <2>6, SeqEqual
  <2> QED
    BY <2>7 DEF M, k
<1>4. ASSUME C # <<>> PROVE /\ K # <<>> /\ Head(K) = ItemLink(Head(C), g)
                            /\ ItemLinks(g, Tail(C)) = Tail(K)
  <2>1. Len(C) \in Nat \ {0} /\ Head(C) = C[1] /\ Len(Tail(C)) = Len(C) - 1
        /\ \A j \in 1..(Len(C) - 1) : Tail(C)[j] = C[j + 1]
    BY <1>4, HeadTailProperties, EmptySeq, LenProperties
  <2> DEFINE M == ItemLinks(g, Tail(C))
  <2> HIDE DEF K
  <2>2. K # <<>> /\ K \in Seq(L)
    BY <1>2, <2>1 DEF K
  <2>3. Head(K) = K[1] /\ Tail(K) \in Seq(L) /\ Len(Tail(K)) = Len(C) - 1
        /\ \A j \in 1..(Len(C) - 1) : Tail(K)[j] = K[j + 1]
    BY <1>2, <2>2, HeadTailProperties
  <2>4. DOMAIN M = 1..(Len(C) - 1) /\ \A j \in 1..(Len(C) - 1) : M[j] = ItemLink(Tail(C)[j], g)
    BY <2>1 DEF ItemLinks
  <2>5. ASSUME NEW j \in 1..(Len(C) - 1) PROVE M[j] = Tail(K)[j] /\ M[j] \in L
    <3>1. j + 1 \in 1..Len(C)
      BY <2>1
    <3>2. K[j + 1] \in L
      BY <1>2, <2>2, <3>1
    <3> QED
      BY <1>1, <2>1, <2>3, <2>4, <3>1, <3>2
  <2>6. M \in [1..(Len(C) - 1) -> L] /\ Len(C) - 1 \in Nat
    BY <2>1, <2>4, <2>5 DEF ItemLinks
  <2>7. M \in Seq(L) /\ Len(M) = Len(C) - 1
    BY <2>6, FunctionIsSeq
  <2> HIDE DEF M
  <2>8. M = Tail(K)
    BY <2>3, <2>5, <2>7, SeqEqual
  <2>9. Head(K) = ItemLink(Head(C), g)
    BY <1>1, <2>1, <2>3
  <2> QED
    BY <2>2, <2>8, <2>9 DEF M
<1> QED
  BY <1>3, <1>4

\* The link of a batch is a text and a flag.
LEMMA OutLinkTypes ==
  ASSUME Types, NEW c \in Calls, NEW e \in Calls, NEW g \in Gens(c), NEW b, EmittedFor(e, b)
  PROVE  OutLink(c, b, g) \in Links
<1>0. NoLink \in Links
  BY DEF NoLink, Links, Texts
<1>1. CASE b.call = c
  <2>1. b.outs[g] \in Outs
    BY <1>1 DEF EmittedFor
  <2>2. b.outs[g].text \in Texts /\ (b.outs[g].reason # NoReason) \in BOOLEAN
    BY <2>1 DEF Outs
  <2> QED
    BY <1>1, <2>2 DEF OutLink, Links
<1>2. CASE b.call # c
  BY <1>0, <1>2 DEF OutLink
<1> QED
  BY <1>1, <1>2

\* The engine puts something out, for this call or for another.
LEMMA RunningEmit ==
  ASSUME Types, Named, NEW c \in Calls, Running(c), Idle(c), UNCHANGED syncQueue,
         NEW e \in Calls, NEW b \in Batches, Emission(e, b), OutputsRight(e, b), MadeTypes'
  PROVE  Running(c)'
<1>1. Gens(c)' = Gens(c) /\ Prefix(c)' = Prefix(c) /\ UNCHANGED req
  BY DEF Idle, Gens, Prefix
<1>2. Coming' = Append(Coming, b) /\ Coming \in Seq(Batches)
  <2>1. syncQueue \o Append(outputs, b) = Append(syncQueue \o outputs, b)
    BY DEF Types, QueueTypes
  <2> QED
    BY <2>1, ComingTypes DEF Emission, Coming
<1>3. EmittedFor(e, b) /\ b.call = e
  BY DEF Emission, EmittedFor
<1>4. Shape(c)'
  BY DEF Running, Shape, ItemRight, StopsNow, UsageDue, Idle
<1>5. ASSUME NEW g \in Gens(c) PROVE Flows(c, g)' /\ ReasonsRight(c, g)'
  <2> DEFINE W == StreamLinks(c, g)
             V == ComingLinks(c, g)
             v == OutLink(c, b, g)
             ended == reasons[c][g] # NoReason
  <2>1. StreamLinks(c, g)' = W
    BY DEF Idle, StreamLinks, ItemLinks
  <2>2. /\ g \in Nat /\ IsCount(made[c][g]) /\ W \in Seq(Links) /\ V \in Seq(Links) /\ v \in Links
        /\ V = OutLinks(c, g, Coming)
    BY <1>3, LinkTypes, OutLinkTypes DEF Running, ComingLinks
  <2>3. ComingLinks(c, g)' = Append(V, v)
    <3>1. OutLinks(c, g, Append(Coming, b)) = Append(OutLinks(c, g, Coming), v)
      BY <1>2, <2>2, OutLinksFacts
    <3> QED
      BY <1>2, <2>2, <3>1 DEF ComingLinks
  <2>4. IsCount(made'[c][g])
    <3>1. made'[c][g] \in [tokens : 0..req[c].max_tokens, over : BOOLEAN, again : BOOLEAN] /\ req[c].max_tokens \in Nat
      BY <1>1, ScenarioFacts DEF Types, MadeTypes
    <3> QED
      BY <3>1 DEF IsCount
  <2>5. /\ Grows(made[c][g], made'[c][g]) /\ v.text = Seg(c, g, made[c][g].tokens, made'[c][g].tokens)
        /\ v.ends => made'[c][g].over
        /\ made'[c][g].over /\ ~made[c][g].over => v.ends
        /\ made[c][g].over /\ v.ends => made'[c][g].again
    <3>1. CASE c = e
      <4>1. v = [text |-> b.outs[g].text, ends |-> b.outs[g].reason # NoReason] /\ OutputRight(c, b, g)
        BY <1>3, <3>1 DEF OutLink, OutputsRight
      <4>2. v.text = b.outs[g].text /\ v.ends = (b.outs[g].reason # NoReason)
        BY <4>1
      <4> QED
        BY <4>1, <4>2 DEF OutputRight
    <3>2. CASE c # e
      <4>1. v = NoLink /\ made'[c] = made[c]
        BY <1>3, <3>2 DEF OutLink, OutputsRight
      <4>2. v.text = <<>> /\ v.ends = FALSE
        BY <4>1 DEF NoLink
      <4> QED
        BY <2>2, <4>1, <4>2, SegEmpty DEF Grows, IsCount
    <3> QED
      BY <3>1, <3>2
  <2>6. Flows(c, g) /\ ReasonsRight(c, g) /\ ended \in BOOLEAN
    BY DEF Running
  <2> HIDE DEF W, V, v, ended
  <2>7. FlowsOf(c, g, Prefix(c), answer[c].texts[g], ended, W, held[c][g], V, made[c][g])
    BY <2>6 DEF Flows, W, V, ended
  <2>8. FlowsOf(c, g, Prefix(c), answer[c].texts[g], ended, W, held[c][g], Append(V, v), made'[c][g])
    <3> DEFINE h == Due(ended, W, held[c][g])
    <3>1. ASSUME ~made'[c][g].again
          PROVE  Flow(c, g, Prefix(c), answer[c].texts[g], ended, W, h, Append(V, v), made'[c][g])
      <4>1. ~made[c][g].again
        BY <2>5, <3>1 DEF Grows
      <4>2. Flow(c, g, Prefix(c), answer[c].texts[g], ended, W, h, V, made[c][g])
        BY <2>7, <4>1 DEF FlowsOf
      <4> HIDE DEF h
      <4> QED
        BY <2>2, <2>4, <2>5, <2>6, <4>2, FlowEmit
    <3>2. Told(ended, W, Append(V, v), made'[c][g])
      BY <2>2, <2>4, <2>5, <2>6, <2>7, ToldFacts DEF FlowsOf
    <3>3. made[c][g].over => v.text = <<>>
      BY <2>2, <2>5, SegEmpty DEF Grows, IsCount
    <3>4. Once(Fin(ended, W), Append(V, v), made'[c][g])
      <4>1. PICK fin \in BOOLEAN : fin = Fin(ended, W)
        BY <2>6 DEF Fin
      <4> QED
        BY <2>2, <2>4, <2>5, <2>7, <3>3, <4>1, OnceFacts DEF FlowsOf
    <3> QED
      BY <2>7, <3>1, <3>2, <3>4 DEF FlowsOf
  <2>10. /\ reasons'[c] = reasons[c] /\ answer'[c] = answer[c] /\ held'[c] = held[c]
    BY DEF Idle
  <2>11. Flows(c, g)'
    BY <1>1, <2>1, <2>3, <2>8, <2>10 DEF Flows, ended
  <2>12. ReasonsRight(c, g)'
    BY <1>1, <2>6, <2>10 DEF ReasonsRight
  <2> QED
    BY <2>11, <2>12
<1>6. AllOver(c)'
  <2>1. /\ Len(Coming) \in Nat /\ DOMAIN Coming = 1..Len(Coming) /\ DOMAIN Coming' = 1..(Len(Coming) + 1)
        /\ \A p \in DOMAIN Coming : Coming'[p] = Coming[p]
        /\ Coming'[Len(Coming) + 1] = b
    BY <1>2, ComingTypes
  <2>2. EndsFor(c)' => EndsFor(c) \/ (c = e /\ b.final)
    BY <1>3, <2>1 DEF EndsFor
  <2>3. HasStop(c)' => HasStop(c)
    BY DEF HasStop, Idle
  <2>4. ASSUME \A g \in Gens(c) : made[c][g].over PROVE \A g \in Gens(c) : made'[c][g].over
    <3>1. CASE c = e
      BY <2>4, <3>1 DEF OutputsRight, OutputRight, Grows
    <3>2. CASE c # e
      BY <2>4, <3>2 DEF OutputsRight
    <3> QED
      BY <3>1, <3>2
  <2>5. c = e /\ b.final => \A g \in Gens(c) : made'[c][g].over
    BY DEF OutputsRight
  <2> QED
    BY <1>1, <2>2, <2>3, <2>4, <2>5 DEF Running, AllOver
<1> QED
  BY <1>1, <1>4, <1>5, <1>6 DEF Running

\* A step of the engine keeps the invariant of texts.
LEMMA EngineTextsKept ==
  ASSUME TextInv, Engine
  PROVE  TextInv'
<1>0. Types /\ Named /\ InOrder /\ ServingInv
  BY DEF TextInv, ServingInv
<1>1. ServingInv' /\ Types'
  BY <1>0, EngineKeeps DEF ServingInv
<1>2. UNCHANGED <<kind, id, req, pc, stream, held, reasons, answer, disturbed, syncQueue>>
  BY DEF Engine, callVars
<1>3. \A c \in Calls : (Present(c)' => Present(c)) /\ Idle(c) /\ CallRight(c)
  BY <1>0, <1>2, EnginePresent DEF Idle, TextInv
<1>4. Quiet' \subseteq Quiet
  BY <1>2 DEF Quiet
<1>5. CASE UNCHANGED <<made, outputs>>
  <2>1. ASSUME NEW c \in Calls PROVE CallRight(c)'
    <3>1. Coming' = Coming
      BY <1>2, <1>5 DEF Coming
    <3>2. c \in Quiet' /\ pc[c] = "run" => Running(c)'
      BY <1>3, <1>4, <1>5, <3>1, RunningSame DEF CallRight
    <3> QED
      BY <1>0, <1>1, <1>3, <1>4, <1>5, <3>2, AsideKeeps DEF MadeGrows
  <2> QED
    BY <1>1, <2>1 DEF TextInv
<1>6. ASSUME NEW e \in Calls, NEW b \in Batches, Emission(e, b), OutputsRight(e, b) PROVE TextInv'
  <2>1. ASSUME NEW c \in Calls PROVE CallRight(c)'
    <3>1. MadeTypes'
      BY <1>6 DEF Emission
    <3>2. c \in Quiet' /\ pc[c] = "run" => Running(c)'
      BY <1>0, <1>2, <1>3, <1>4, <1>6, <3>1, RunningEmit DEF CallRight
    <3>3. MadeGrows(c)
      <4>1. CASE c = e
        <5>1. Present(c) /\ \A g \in Gens(c) : Grows(made[c][g], made'[c][g])
          BY <1>6, <4>1 DEF Emission, Present, OutputsRight, OutputRight
        <5> QED
          BY <5>1 DEF MadeGrows
      <4>2. CASE c # e
        BY <1>6, <4>2 DEF OutputsRight, MadeGrows
      <4> QED
        BY <4>1, <4>2
    <3> QED
      BY <1>0, <1>1, <1>3, <1>4, <3>2, <3>3, AsideKeeps
  <2> QED
    BY <1>1, <2>1 DEF TextInv
<1> QED
  BY <1>0, <1>5, <1>6, EngineSays

----------------------------------------------------------------------------
(* Handing out                                                             *)

\* The oldest output leaves.
LEMMA ComingTail ==
  ASSUME Types, Named, NEW c \in Calls, NEW g \in Gens(c), Coming # <<>>, Coming' = Tail(Coming)
  PROVE  /\ ComingLinks(c, g) # <<>> /\ Head(ComingLinks(c, g)) = OutLink(c, Head(Coming), g)
         /\ ComingLinks(c, g)' = Tail(ComingLinks(c, g))
         /\ OutLink(c, Head(Coming), g) \in Links
<1>1. Coming \in Seq(Batches) /\ Len(Coming) \in Nat
  BY ComingTypes
<1>2. 1 \in 1..Len(Coming) /\ Head(Coming) = Coming[1] /\ Head(Coming) \in Batches
  BY <1>1, EmptySeq, HeadTailProperties, LenProperties
<1>3. ComingLinks(c, g) \in Seq(Links) /\ ComingLinks(c, g)[1] = OutLink(c, Head(Coming), g)
      /\ Len(ComingLinks(c, g)) = Len(Coming)
  BY <1>2, LinkTypes
<1>4. OutLink(c, Head(Coming), g) \in Links
  BY <1>2, <1>3
<1>5. OutLinks(c, g, Coming) \in Seq(Links)
  BY <1>3 DEF ComingLinks
<1>6. /\ OutLinks(c, g, Coming) # <<>> /\ Head(OutLinks(c, g, Coming)) = OutLink(c, Head(Coming), g)
      /\ OutLinks(c, g, Tail(Coming)) = Tail(OutLinks(c, g, Coming))
  BY <1>1, <1>2, <1>4, <1>5, OutLinksFacts
<1> QED
  BY <1>4, <1>6 DEF ComingLinks

\* An end among the rest of the batches was among all.
LEMMA EndsForTail ==
  ASSUME Types, NEW c \in Calls, Coming # <<>>, Coming' = Tail(Coming), EndsFor(c)'
  PROVE  EndsFor(c)
<1>1. PICK p \in DOMAIN Coming' : Coming'[p].call = c /\ Coming'[p].final
  BY DEF EndsFor
<1>2. /\ Coming \in Seq(Batches) /\ DOMAIN Coming = 1..Len(Coming) /\ Len(Coming) \in Nat
      /\ Tail(Coming) \in Seq(Batches) /\ Len(Tail(Coming)) = Len(Coming) - 1
      /\ \A i \in 1..Len(Tail(Coming)) : Tail(Coming)[i] = Coming[i + 1]
  BY ComingTypes, HeadTailProperties
<1>3. p \in 1..(Len(Coming) - 1) /\ Coming'[p] = Coming[p + 1]
  BY <1>2
<1>4. p + 1 \in DOMAIN Coming /\ Coming[p + 1].call = c /\ Coming[p + 1].final
  BY <1>1, <1>2, <1>3
<1> QED
  BY <1>4 DEF EndsFor

\* An output for another call is taken or dropped.
LEMMA RunningSkip ==
  ASSUME Types, Named, NEW c \in Calls, Running(c), Idle(c), made'[c] = made[c],
         Coming # <<>>, Coming' = Tail(Coming), Head(Coming).call # c
  PROVE  Running(c)'
<1>1. Gens(c)' = Gens(c) /\ Prefix(c)' = Prefix(c) /\ UNCHANGED req
  BY DEF Idle, Gens, Prefix
<1>2. Shape(c)'
  <2>1. Shape(c) /\ stream'[c] = stream[c] /\ answer'[c] = answer[c]
    BY DEF Running, Idle
  <2> QED
    BY <1>1, <2>1 DEF Shape, ItemRight, StopsNow, UsageDue
<1>3. ASSUME NEW g \in Gens(c) PROVE Flows(c, g)' /\ ReasonsRight(c, g)'
  <2> DEFINE W == StreamLinks(c, g)
             V == ComingLinks(c, g)
             ended == reasons[c][g] # NoReason
  <2>1. StreamLinks(c, g)' = W
    BY DEF Idle, StreamLinks, ItemLinks
  <2>2. /\ g \in Nat /\ IsCount(made[c][g]) /\ W \in Seq(Links) /\ V \in Seq(Links)
    BY LinkTypes DEF Running
  <2>3. V # <<>> /\ Head(V) = NoLink /\ ComingLinks(c, g)' = Tail(V)
    BY ComingTail DEF OutLink
  <2>4. ~Head(V).ends
    BY <2>3 DEF NoLink
  <2>5. Flows(c, g) /\ ReasonsRight(c, g) /\ ended \in BOOLEAN
    BY DEF Running
  <2> HIDE DEF W, V, ended
  <2>6. FlowsOf(c, g, Prefix(c), answer[c].texts[g], ended, W, held[c][g], V, made[c][g])
    BY <2>5 DEF Flows, W, V, ended
  <2>7. FlowsOf(c, g, Prefix(c), answer[c].texts[g], ended, W, held[c][g], Tail(V), made[c][g])
    <3> DEFINE h == Due(ended, W, held[c][g])
    <3>1. ASSUME ~made[c][g].again
          PROVE  Flow(c, g, Prefix(c), answer[c].texts[g], ended, W, h, Tail(V), made[c][g])
      <4>1. Flow(c, g, Prefix(c), answer[c].texts[g], ended, W, h, V, made[c][g])
        BY <2>6, <3>1 DEF FlowsOf
      <4> HIDE DEF h
      <4> QED
        BY <2>2, <2>3, <4>1, FlowSkip
    <3>2. Told(ended, W, Tail(V), made[c][g])
      BY <2>2, <2>3, <2>4, <2>5, <2>6, ToldFacts DEF FlowsOf
    <3>3. Once(Fin(ended, W), Tail(V), made[c][g])
      <4>1. PICK fin \in BOOLEAN : fin = Fin(ended, W)
        BY <2>5 DEF Fin
      <4>2. Once(fin \/ Head(V).ends, Tail(V), made[c][g])
        BY <2>2, <2>3, <2>6, <4>1, OnceFacts DEF FlowsOf
      <4> QED
        BY <2>4, <4>1, <4>2
    <3> QED
      BY <2>6, <3>1, <3>2, <3>3 DEF FlowsOf
  <2>9. /\ reasons'[c] = reasons[c] /\ answer'[c] = answer[c] /\ held'[c] = held[c]
    BY DEF Idle
  <2>10. Flows(c, g)'
    BY <1>1, <2>1, <2>3, <2>7, <2>9 DEF Flows, ended
  <2>11. ReasonsRight(c, g)'
    BY <1>1, <2>5, <2>9 DEF ReasonsRight
  <2> QED
    BY <2>10, <2>11
<1>4. AllOver(c)'
  <2>1. EndsFor(c)' => EndsFor(c)
    BY EndsForTail
  <2>2. HasStop(c)' => HasStop(c)
    BY DEF HasStop, Idle
  <2> QED
    BY <1>1, <2>1, <2>2 DEF Running, AllOver
<1> QED
  BY <1>1, <1>2, <1>3, <1>4 DEF Running

\* What a text streamer emits and what it keeps are what it had and got.
LEMMA StreamerSplits ==
  ASSUME Types, NEW c \in Calls, NEW b \in Batches, DOMAIN b.outs = Gens(c), NEW keep \in Keeps(c, b.outs),
         NEW g \in Gens(c)
  PROVE  /\ Zipped(c, b.outs) = Gens(c)
         /\ Emitted(c, b.outs, g, keep[g]) \in Texts /\ Kept(c, b.outs, g, keep[g]) \in Texts
         /\ IF b.outs[g].reason # NoReason
            THEN Emitted(c, b.outs, g, keep[g]) = held[c][g] \o b.outs[g].text
            ELSE Emitted(c, b.outs, g, keep[g]) \o Kept(c, b.outs, g, keep[g]) = held[c][g] \o b.outs[g].text
         /\ b.outs[g].text = <<>> /\ b.outs[g].reason = NoReason => Emitted(c, b.outs, g, keep[g]) = <<>>
<1> DEFINE outs == b.outs
           P == Pending(c, outs, g)
           E == Emitted(c, outs, g, keep[g])
           K == Kept(c, outs, g, keep[g])
<1>1. outs \in Seq(Outs) /\ req[c].n \in Nat \ {0} /\ Len(outs) = req[c].n
  <2>1. outs \in Seq(Outs) /\ req[c].n \in Nat \ {0}
    BY ScenarioFacts DEF Types, Batches
  <2>2. 1..Len(outs) = 1..req[c].n /\ Len(outs) \in Nat
    BY <2>1 DEF Gens
  <2>3. Len(outs) \in 1..Len(outs) \/ Len(outs) = 0
    BY <2>2
  <2>4. req[c].n \in 1..req[c].n
    BY <2>1
  <2> HIDE DEF outs
  <2>5. Len(outs) <= req[c].n /\ req[c].n <= Len(outs)
    BY <2>1, <2>2, <2>3, <2>4
  <2> QED
    BY <2>1, <2>2, <2>5
<1>2. Zipped(c, outs) = Gens(c)
  BY <1>1 DEF Zipped, SmallerOf, Gens
<1>3. outs[g] \in Outs /\ held[c][g] \in Texts
  BY <1>1 DEF Types, HeldTypes
<1>4. outs[g].text \in Texts
  BY <1>3 DEF Outs
<1>5. P \in Texts /\ Len(P) \in Nat
  <2>1. held[c][g] \in Seq(Toks) /\ outs[g].text \in Seq(Toks) /\ P = held[c][g] \o outs[g].text
    BY <1>3, <1>4 DEF Pending, Texts
  <2> HIDE DEF P, outs
  <2> QED
    BY <2>1, ConcatProperties, LenProperties DEF Texts
<1>6. keep[g] \in Nat /\ keep[g] <= Len(P)
  BY <1>2, FrontendAssumption DEF Keeps
<1>7. outs[g].text = <<>> => keep[g] = Len(P)
  <2>1. outs[g].text = <<>> => keep[g] = Len(held[c][g])
    BY <1>2 DEF Keeps
  <2>2. held[c][g] \o <<>> = held[c][g]
    BY <1>3, ConcatEmptySeq DEF Texts
  <2>3. P = held[c][g] \o outs[g].text
    BY DEF Pending
  <2> HIDE DEF P, outs
  <2> QED
    BY <2>1, <2>2, <2>3
<1>8. /\ E = IF outs[g].reason # NoReason THEN P ELSE SubSeq(P, 1, Len(P) - keep[g])
      /\ K = SubSeq(P, Len(P) - keep[g] + 1, Len(P))
      /\ P = held[c][g] \o outs[g].text
  BY DEF Emitted, Kept, Pending
<1> HIDE DEF P, E, K
<1>9. PICK n \in 0..Len(P) : n = Len(P) - keep[g]
  BY <1>5, <1>6
<1>10. SubSeq(P, 1, n) \in Texts /\ (n = 0 => SubSeq(P, 1, n) = <<>>)
  <2>1. \A i \in 1..n : P[i] \in Toks
    BY <1>5 DEF Texts
  <2>2. 1 \in Int /\ n \in Int
    OBVIOUS
  <2>3. SubSeq(P, 1, n) \in Seq(Toks)
    BY <2>1, <2>2, SubSeqProperties
  <2>4. n = 0 => SubSeq(P, 1, n) = <<>>
    BY <2>2, SubSeqEmpty
  <2> QED
    BY <2>3, <2>4 DEF Texts
<1>11. SubSeq(P, n + 1, Len(P)) \in Texts
  <2>1. \A i \in (n + 1)..Len(P) : P[i] \in Toks
    BY <1>5 DEF Texts
  <2>2. n + 1 \in Int /\ Len(P) \in Int
    BY <1>5
  <2> QED
    BY <2>1, <2>2, SubSeqProperties DEF Texts
<1>12. SubSeq(P, 1, n) \o SubSeq(P, n + 1, Len(P)) = P
  <2>1. P \in Seq(Toks)
    BY <1>5 DEF Texts
  <2>2. 1 \in 1..(Len(P) + 1) /\ n \in (1 - 1)..Len(P) /\ Len(P) \in n..Len(P)
    BY <1>5
  <2>3. SubSeq(P, 1, n) \o SubSeq(P, n + 1, Len(P)) = SubSeq(P, 1, Len(P))
    BY <2>1, <2>2, ConcatAdjacentSubSeq
  <2> QED
    BY <2>1, <2>3, SubSeqFull
<1>13. outs[g].text = <<>> => n = 0
  BY <1>5, <1>7, <1>9
<1> QED
  BY <1>2, <1>5, <1>8, <1>9, <1>10, <1>11, <1>12, <1>13 DEF E, K

\* Call c gets the chunk x for the batch b, and its end when b is the last.
Grown(s, x, final) ==
  IF final THEN Append(Append(Append(s, x), ChunkItem(FinalChunk)), StopItem) ELSE Append(s, x)

HandedText(c, b, x, g) ==
  /\ held'[c][g] \in Texts /\ ItemLink(x, g) \in Links
  /\ ItemLink(x, g).ends = (b.outs[g].reason # NoReason)
  /\ IF b.outs[g].reason # NoReason THEN ItemLink(x, g).text = held[c][g] \o b.outs[g].text
     ELSE ItemLink(x, g).text \o held'[c][g] = held[c][g] \o b.outs[g].text
  /\ b.outs[g].text = <<>> /\ b.outs[g].reason = NoReason => ItemLink(x, g).text = <<>>

Handed(c, b, x) ==
  /\ IsChunk(x) /\ Len(x.chunk.outputs) = req[c].n
  /\ stream'[c] = Grown(stream[c], x, b.final)
  /\ \A g \in Gens(c) : HandedText(c, b, x, g)

\* Concatenating two elements appends them one after the other.
LEMMA TwoAppended ==
  ASSUME NEW S, NEW t \in Seq(S), NEW b \in S, NEW d \in S
  PROVE  t \o <<b, d>> = Append(Append(t, b), d)
<1> DEFINE u == Append(t, b)
           w == Append(u, d)
           z == <<b, d>>
<1>1. /\ u \in Seq(S) /\ Len(u) = Len(t) + 1 /\ u[Len(t) + 1] = b /\ \A i \in 1..Len(t) : u[i] = t[i]
  BY AppendProperties
<1>2. /\ w \in Seq(S) /\ Len(w) = Len(u) + 1 /\ w[Len(u) + 1] = d /\ \A i \in 1..Len(u) : w[i] = u[i]
  <2> HIDE DEF u
  <2> QED
    BY <1>1, AppendProperties
<1>3. z \in Seq(S) /\ Len(z) = 2 /\ z[1] = b /\ z[2] = d
  OBVIOUS
<1> HIDE DEF u, w, z
<1>4. /\ t \o z \in Seq(S) /\ Len(t \o z) = Len(t) + 2 /\ Len(t) \in Nat
      /\ \A i \in 1..(Len(t) + 2) : (t \o z)[i] = IF i <= Len(t) THEN t[i] ELSE z[i - Len(t)]
  <2>1. /\ t \o z \in Seq(S) /\ Len(t \o z) = Len(t) + Len(z) /\ Len(t) \in Nat
        /\ \A i \in 1..(Len(t) + Len(z)) : (t \o z)[i] = IF i <= Len(t) THEN t[i] ELSE z[i - Len(t)]
    BY <1>3, ConcatProperties, LenProperties
  <2> QED
    BY <1>3, <2>1
<1>5. ASSUME NEW j \in 1..(Len(t) + 2) PROVE (t \o z)[j] = w[j]
  <2>1. j \in 1..Len(t) \/ j = Len(t) + 1 \/ j = Len(t) + 2
    BY <1>4
  <2>2. (t \o z)[j] = IF j <= Len(t) THEN t[j] ELSE z[j - Len(t)]
    BY <1>4
  <2>3. CASE j \in 1..Len(t)
    BY <1>1, <1>2, <1>4, <2>2, <2>3
  <2>4. CASE j = Len(t) + 1
    BY <1>1, <1>2, <1>3, <1>4, <2>2, <2>4
  <2>5. CASE j = Len(t) + 2
    BY <1>1, <1>2, <1>3, <1>4, <2>2, <2>5
  <2> QED
    BY <2>1, <2>3, <2>4, <2>5
<1>6. t \o z = w
  BY <1>1, <1>2, <1>4, <1>5, SeqEqual
<1> QED
  BY <1>6 DEF u, w, z

\* Concatenating three elements appends them one after the other.
LEMMA ThreeAppended ==
  ASSUME NEW S, NEW s \in Seq(S), NEW a \in S, NEW b \in S, NEW d \in S
  PROVE  s \o (<<a>> \o <<b, d>>) = Append(Append(Append(s, a), b), d)
<1>1. PICK z, y, t : z = <<b, d>> /\ y = <<a>> /\ t = Append(s, a)
  OBVIOUS
<1>2. z \in Seq(S) /\ y \in Seq(S) /\ t \in Seq(S)
  BY <1>1
<1>3. s \o (y \o z) = (s \o y) \o z
  BY <1>1, <1>2, ConcatAssociative
<1>5. s \o y = t
  BY <1>1, AppendIsConcat
<1>6. t \o <<b, d>> = Append(Append(t, b), d)
  BY <1>2, TwoAppended
<1> QED
  BY <1>1, <1>3, <1>5, <1>6, Zenon

\* Taking a batch puts one chunk for it into the stream.
LEMMA TakesHands ==
  ASSUME Types, NEW c \in Calls, NEW b \in Batches, DOMAIN b.outs = Gens(c), Takes(c, b)
  PROVE  \E x \in Items : Handed(c, b, x)
<1>1. PICK keep \in Keeps(c, b.outs) :
        /\ stream' = [stream EXCEPT ![c] = stream[c] \o ItemsOf(Detokenized(c, b.outs, keep), b.final)]
        /\ held' = NewHeld(c, b.outs, keep)
  BY DEF Takes
<1>2. PICK chunk : chunk = Detokenized(c, b.outs, keep)
  OBVIOUS
<1>3. chunk \in Chunks /\ held'[c] \in [Gens(c) -> Texts]
  BY <1>1, <1>2, TextFacts
<1>4. PICK x : x = ChunkItem(chunk)
  OBVIOUS
<1>5. x \in Items /\ ChunkItem(FinalChunk) \in Items /\ StopItem \in Items
  BY <1>3, <1>4 DEF ChunkItem, StopItem, Item, Items, FinalChunk, Chunks
<1>6. \A g \in Gens(c) : held'[c][g] = Kept(c, b.outs, g, keep[g])
  <2>1. held' = [held EXCEPT ![c] = [g \in Gens(c) |->
                   IF g \in Zipped(c, b.outs) THEN Kept(c, b.outs, g, keep[g]) ELSE held[c][g]]]
    BY <1>1 DEF NewHeld, Types, HeldTypes
  <2>2. \A g \in Gens(c) : held'[c][g] = IF g \in Zipped(c, b.outs) THEN Kept(c, b.outs, g, keep[g]) ELSE held[c][g]
    BY <2>1 DEF Types, HeldTypes
  <2> QED
    BY <2>2, StreamerSplits
<1>7. IsChunk(x) /\ x.chunk = chunk /\ chunk.outputs =
        [g \in Zipped(c, b.outs) |-> Output(Emitted(c, b.outs, g, keep[g]), b.outs[g].reason)]
  BY <1>2, <1>4 DEF IsChunk, ChunkItem, Item, Detokenized, Chunk
<1>8. Zipped(c, b.outs) = Gens(c)
  <2>1. 1 \in Gens(c)
    BY ScenarioFacts DEF Gens, Types
  <2> QED
    BY <2>1, StreamerSplits
<1>9. Len(x.chunk.outputs) = req[c].n
  <2>1. chunk.outputs \in [1..req[c].n -> {chunk.outputs[g] : g \in Gens(c)}] /\ req[c].n \in Nat
    BY <1>7, <1>8, ScenarioFacts DEF Gens, Types
  <2> QED
    BY <1>7, <2>1, FunctionIsSeq
<1>10. stream'[c] = Grown(stream[c], x, b.final)
  <2>1. stream'[c] = stream[c] \o ItemsOf(chunk, b.final) /\ stream[c] \in Seq(Items)
    BY <1>1, <1>2 DEF Types, StreamTypes
  <2>2. CASE b.final
    <3>1. ItemsOf(chunk, b.final) = <<x>> \o <<ChunkItem(FinalChunk), StopItem>>
      BY <1>4, <2>2 DEF ItemsOf
    <3>2. stream[c] \o (<<x>> \o <<ChunkItem(FinalChunk), StopItem>>)
            = Append(Append(Append(stream[c], x), ChunkItem(FinalChunk)), StopItem)
      <4>1. PICK f, e \in Items : f = ChunkItem(FinalChunk) /\ e = StopItem
        BY <1>5
      <4>2. stream[c] \o (<<x>> \o <<f, e>>) = Append(Append(Append(stream[c], x), f), e)
        BY <1>5, <2>1, <4>1, ThreeAppended, SMTT(30)
      <4> QED
        BY <4>1, <4>2
    <3> QED
      BY <2>1, <2>2, <3>1, <3>2 DEF Grown
  <2>3. CASE ~b.final
    <3>1. ItemsOf(chunk, b.final) = <<x>>
      BY <1>4, <2>3 DEF ItemsOf
    <3> QED
      BY <1>5, <2>1, <2>3, <3>1 DEF Grown
  <2> QED
    BY <2>2, <2>3
<1>11. ASSUME NEW g \in Gens(c) PROVE HandedText(c, b, x, g)
  <2>1. ItemLink(x, g) = [text |-> Emitted(c, b.outs, g, keep[g]), ends |-> b.outs[g].reason # NoReason]
    <3>1. x.chunk.outputs[g] = Output(Emitted(c, b.outs, g, keep[g]), b.outs[g].reason)
      BY <1>7, <1>8
    <3>2. x.chunk.outputs[g].text = Emitted(c, b.outs, g, keep[g]) /\ x.chunk.outputs[g].reason = b.outs[g].reason
      BY <3>1 DEF Output
    <3> QED
      BY <1>7, <3>2 DEF ItemLink
  <2>2. ItemLink(x, g).text = Emitted(c, b.outs, g, keep[g]) /\ ItemLink(x, g).ends = (b.outs[g].reason # NoReason)
    BY <2>1
  <2>3. /\ Emitted(c, b.outs, g, keep[g]) \in Texts /\ Kept(c, b.outs, g, keep[g]) \in Texts
        /\ IF b.outs[g].reason # NoReason
           THEN Emitted(c, b.outs, g, keep[g]) = held[c][g] \o b.outs[g].text
           ELSE Emitted(c, b.outs, g, keep[g]) \o Kept(c, b.outs, g, keep[g]) = held[c][g] \o b.outs[g].text
        /\ b.outs[g].text = <<>> /\ b.outs[g].reason = NoReason => Emitted(c, b.outs, g, keep[g]) = <<>>
    BY StreamerSplits
  <2>4. ItemLink(x, g) \in Links
    BY <2>1, <2>3 DEF Links
  <2> QED
    BY <1>6, <2>2, <2>3, <2>4 DEF HandedText
<1> QED
  BY <1>5, <1>7, <1>9, <1>10, <1>11 DEF Handed

\* The links of a stream that has got a chunk, and perhaps its end.
LEMMA GrownLinks ==
  ASSUME NEW g, NEW s \in Seq(Items), ItemLinks(g, s) \in Seq(Links), NEW x \in Items, ItemLink(x, g) \in Links
  PROVE  /\ ItemLinks(g, Grown(s, x, FALSE)) = Append(ItemLinks(g, s), ItemLink(x, g))
         /\ ItemLinks(g, Grown(s, x, TRUE)) = Append(Append(Append(ItemLinks(g, s), ItemLink(x, g)), NoLink), NoLink)
<1>1. PICK f, e \in Items : f = ChunkItem(FinalChunk) /\ e = StopItem
  <2>1. ChunkItem(FinalChunk) \in Items /\ StopItem \in Items
    BY DEF ChunkItem, StopItem, Item, Items, FinalChunk, Chunks
  <2> QED
    BY <2>1
<1>2. ItemLink(f, g) = NoLink /\ ItemLink(e, g) = NoLink /\ NoLink \in Links
  BY <1>1 DEF ItemLink, IsChunk, ChunkItem, StopItem, Item, FinalChunk, NoLink, Links, Texts
<1>3. ItemLinks(g, Append(s, x)) = Append(ItemLinks(g, s), ItemLink(x, g))
  BY ItemLinksFacts
<1>t. PICK t : t = Append(s, x)
  OBVIOUS
<1>4. t \in Seq(Items) /\ ItemLinks(g, t) \in Seq(Links)
  BY <1>3, <1>t
<1>5. ItemLinks(g, Append(t, f)) = Append(ItemLinks(g, t), ItemLink(f, g))
  <2>1. ItemLink(f, g) \in Links
    BY <1>2
  <2> QED
    BY <1>1, <1>4, <2>1, ItemLinksFacts
<1>u. PICK u : u = Append(t, f)
  OBVIOUS
<1>6. u \in Seq(Items) /\ ItemLinks(g, u) \in Seq(Links)
  <2>1. ItemLinks(g, Append(t, f)) \in Seq(Links)
    BY <1>2, <1>4, <1>5
  <2> QED
    BY <1>1, <1>4, <1>u, <2>1
<1>7. ItemLinks(g, Append(u, e)) = Append(ItemLinks(g, u), ItemLink(e, g))
  <2>1. ItemLink(e, g) \in Links
    BY <1>2
  <2> QED
    BY <1>1, <1>6, <2>1, ItemLinksFacts
<1>8. /\ Grown(s, x, FALSE) = t /\ Grown(s, x, TRUE) = Append(u, e)
  BY <1>1, <1>t, <1>u DEF Grown
<1> QED
  BY <1>2, <1>3, <1>t, <1>5, <1>u, <1>7, <1>8

\* The places of a stream that has grown.
LEMMA GrownPlaces ==
  ASSUME NEW s \in Seq(Items), NEW x \in Items, NEW final
  PROVE  /\ Len(s) \in Nat
         /\ Len(Grown(s, x, final)) = IF final THEN Len(s) + 3 ELSE Len(s) + 1
         /\ \A j \in 1..Len(s) : Grown(s, x, final)[j] = s[j]
         /\ Grown(s, x, final)[Len(s) + 1] = x
         /\ final => /\ Grown(s, x, final)[Len(s) + 2] = ChunkItem(FinalChunk)
                     /\ Grown(s, x, final)[Len(s) + 3] = StopItem
<1>0. Len(s) \in Nat
  OBVIOUS
<1>1. PICK f, e \in Items : f = ChunkItem(FinalChunk) /\ e = StopItem
  <2>1. ChunkItem(FinalChunk) \in Items /\ StopItem \in Items
    BY DEF ChunkItem, StopItem, Item, Items, FinalChunk, Chunks
  <2> QED
    BY <2>1
<1>2. PICK t : t = Append(s, x)
  OBVIOUS
<1>3. /\ t \in Seq(Items) /\ Len(t) = Len(s) + 1 /\ t[Len(s) + 1] = x /\ \A i \in 1..Len(s) : t[i] = s[i]
  BY <1>2, AppendProperties
<1>4. PICK u : u = Append(t, f)
  OBVIOUS
<1>5. /\ u \in Seq(Items) /\ Len(u) = Len(t) + 1 /\ u[Len(t) + 1] = f /\ \A i \in 1..Len(t) : u[i] = t[i]
  BY <1>3, <1>4, AppendProperties
<1>6. PICK w : w = Append(u, e)
  OBVIOUS
<1>7. /\ w \in Seq(Items) /\ Len(w) = Len(u) + 1 /\ w[Len(u) + 1] = e /\ \A i \in 1..Len(u) : w[i] = u[i]
  BY <1>5, <1>6, AppendProperties
<1>8. CASE final
  <2>1. Grown(s, x, final) = w
    BY <1>1, <1>2, <1>4, <1>6, <1>8 DEF Grown
  <2>2. Len(w) = Len(s) + 3 /\ w[Len(s) + 2] = f /\ w[Len(s) + 3] = e /\ w[Len(s) + 1] = x
    BY <1>0, <1>3, <1>5, <1>7
  <2>3. \A j \in 1..Len(s) : w[j] = s[j]
    BY <1>0, <1>3, <1>5, <1>7
  <2> QED
    BY <1>0, <1>1, <1>8, <2>1, <2>2, <2>3
<1>9. CASE ~final
  <2>1. Grown(s, x, final) = t
    BY <1>2, <1>9 DEF Grown
  <2> QED
    BY <1>0, <1>3, <1>9, <2>1
<1> QED
  BY <1>8, <1>9

\* A stream that has not ended gets one chunk more, and perhaps its end.
LEMMA ShapeTake ==
  ASSUME Types, NEW c \in Calls, UNCHANGED <<req, answer>>, Shape(c), ~HasStop(c),
         NEW x \in Items, IsChunk(x), Len(x.chunk.outputs) = req[c].n, NEW final, stream'[c] = Grown(stream[c], x, final)
  PROVE  Shape(c)' /\ (HasStop(c)' => final)
<1> DEFINE l == Len(stream[c])
<1>1. stream[c] \in Seq(Items)
  BY DEF Types, StreamTypes
<1>2. /\ l \in Nat /\ Len(stream'[c]) = IF final THEN l + 3 ELSE l + 1
      /\ \A j \in 1..l : stream'[c][j] = stream[c][j]
      /\ stream'[c][l + 1] = x
      /\ final => stream'[c][l + 2] = ChunkItem(FinalChunk) /\ stream'[c][l + 3] = StopItem
  BY <1>1, GrownPlaces
<1>3. ASSUME NEW j \in 1..l
      PROVE  /\ stream[c][j].kind # "stop" /\ ~(stream[c][j].kind = "chunk" /\ stream[c][j].chunk.final)
             /\ IsChunk(stream[c][j]) => Len(stream[c][j].chunk.outputs) = req[c].n
  <2>1. DOMAIN stream[c] = 1..l
    BY <1>1
  <2>2. \A k \in 1..l : stream[c][k].kind # "stop"
    BY <2>1 DEF HasStop
  <2>3. ItemRight(c, j)
    BY DEF Shape
  <2>4. CASE stream[c][j].kind = "chunk" /\ stream[c][j].chunk.final
    <3>1. j + 1 = l /\ stream[c][j + 1].kind = "stop"
      BY <2>3, <2>4 DEF ItemRight
    <3>2. j + 1 \in 1..l
      BY <1>2, <3>1
    <3> QED
      BY <2>2, <3>1, <3>2
  <2> QED
    BY <2>2, <2>3, <2>4 DEF ItemRight
<1>4. x.kind = "chunk" /\ ~x.chunk.final
  BY DEF IsChunk
<1>5. final => /\ stream'[c][l + 2].kind = "chunk" /\ stream'[c][l + 2].chunk.final
               /\ stream'[c][l + 3].kind = "stop"
  <2>1. /\ ChunkItem(FinalChunk).kind = "chunk" /\ ChunkItem(FinalChunk).chunk.final
        /\ StopItem.kind = "stop"
    BY DEF ChunkItem, StopItem, Item, FinalChunk
  <2> QED
    BY <1>2, <2>1
<1> HIDE DEF l
<1>6. ASSUME NEW j \in 1..Len(stream'[c]) PROVE ItemRight(c, j)'
  <2>1. j \in 1..l \/ j = l + 1 \/ (final /\ j = l + 2) \/ (final /\ j = l + 3)
    BY <1>2
  <2>2. CASE j \in 1..l
    BY <1>2, <1>3, <2>2 DEF ItemRight, IsChunk
  <2>3. CASE j = l + 1
    BY <1>2, <1>4, <2>3 DEF ItemRight, IsChunk
  <2>4. CASE final /\ j = l + 2
    <3>1. j + 1 = l + 3 /\ Len(stream'[c]) = l + 3
      BY <1>2, <2>4
    <3> QED
      BY <1>5, <2>4, <3>1 DEF ItemRight, IsChunk
  <2>5. CASE final /\ j = l + 3
    <3>1. j - 1 = l + 2 /\ Len(stream'[c]) = l + 3
      BY <1>2, <2>5
    <3> QED
      BY <1>5, <2>5, <3>1 DEF ItemRight, IsChunk
  <2> QED
    BY <2>1, <2>2, <2>3, <2>4, <2>5
<1>7. ~StopsNow(c) /\ ~StopsNow(c)'
  <2>1. l = 0 \/ 1 \in 1..l
    BY <1>2
  <2>2. CASE l = 0
    <3>1. stream[c] = <<>>
      BY <1>1, <2>2, EmptySeq DEF l
    <3>2. stream'[c][1] = x
      BY <1>2, <2>2
    <3> QED
      BY <1>4, <3>1, <3>2 DEF StopsNow
  <2>3. CASE 1 \in 1..l
    BY <1>2, <1>3, <2>3 DEF StopsNow
  <2> QED
    BY <2>1, <2>2, <2>3
<1>8. Shape(c)'
  <2>1. answer'[c].usage = 0
    BY <1>7 DEF Shape
  <2> QED
    BY <1>6, <1>7, <2>1 DEF Shape
<1>9. HasStop(c)' => final
  <2>1. ASSUME ~final, NEW j \in DOMAIN stream'[c] PROVE stream'[c][j].kind # "stop"
    <3>1. DOMAIN stream'[c] = 1..Len(stream'[c])
      <4>1. Grown(stream[c], x, final) \in Seq(Items)
        BY <1>1, <2>1 DEF Grown
      <4> QED
        BY <4>1
    <3>2. j \in 1..l \/ j = l + 1
      BY <1>2, <2>1, <3>1
    <3> QED
      BY <1>2, <1>3, <1>4, <3>2
  <2> QED
    BY <2>1 DEF HasStop
<1> QED
  BY <1>8, <1>9

\* A call takes an output that was made for it.
LEMMA RunningTake ==
  ASSUME Types, Named, NEW c \in Calls, Running(c), ~HasStop(c),
         UNCHANGED <<kind, id, req, reasons, answer, made>>,
         Coming # <<>>, Coming' = Tail(Coming), Head(Coming).call = c, Takes(c, Head(Coming))
  PROVE  Running(c)'
<1>1. Gens(c)' = Gens(c) /\ Prefix(c)' = Prefix(c)
  BY DEF Gens, Prefix
<1>2. PICK b \in Batches : b = Head(Coming) /\ b = Coming[1] /\ 1 \in DOMAIN Coming
  BY ComingTypes, EmptySeq, HeadTailProperties, LenProperties
<1>3. DOMAIN b.outs = Gens(c) /\ b.call = c
  BY <1>2 DEF Named
<1>4. PICK x \in Items : Handed(c, b, x)
  BY <1>2, <1>3, TakesHands
<1>5. Shape(c)' /\ (HasStop(c)' => b.final)
  BY <1>4, ShapeTake DEF Running, Handed
<1>6. AllOver(c)'
  <2>1. EndsFor(c)' => EndsFor(c)
    BY EndsForTail
  <2>2. b.final => EndsFor(c)
    BY <1>2, <1>3 DEF EndsFor
  <2> QED
    BY <1>1, <1>5, <2>1, <2>2 DEF Running, AllOver
<1>7. ASSUME NEW g \in Gens(c) PROVE Flows(c, g)' /\ ReasonsRight(c, g)'
  <2> DEFINE W == StreamLinks(c, g)
             V == ComingLinks(c, g)
             m == made[c][g]
             ended == reasons[c][g] # NoReason
             text == answer[c].texts[g]
             h == held[c][g]
  <2>1. PICK w : w = ItemLink(x, g)
    OBVIOUS
  <2>k. PICK k : k = held'[c][g]
    OBVIOUS
  <2>2. /\ g \in Nat /\ IsCount(m) /\ W \in Seq(Links) /\ V \in Seq(Links) /\ h \in Texts
        /\ stream[c] \in Seq(Items)
    BY LinkTypes DEF Running
  <2>3. V # <<>> /\ Head(V) = OutLink(c, b, g) /\ ComingLinks(c, g)' = Tail(V)
    BY <1>2, ComingTail
  <2>4. Head(V).text = b.outs[g].text /\ Head(V).ends = (b.outs[g].reason # NoReason)
    BY <1>3, <2>3 DEF OutLink
  <2>5. /\ w \in Links /\ k \in Texts /\ w.ends = Head(V).ends
        /\ IF w.ends THEN w.text = h \o Head(V).text ELSE w.text \o k = h \o Head(V).text
        /\ Head(V).text = <<>> /\ ~w.ends => w.text = <<>>
    BY <1>4, <2>1, <2>k, <2>4 DEF Handed, HandedText
  <2>6. Flows(c, g) /\ ReasonsRight(c, g) /\ ended \in BOOLEAN
    BY DEF Running
  <2>7. StreamLinks(c, g)' = IF b.final THEN Append(Append(Append(W, w), NoLink), NoLink) ELSE Append(W, w)
    <3>1. stream'[c] = Grown(stream[c], x, b.final) /\ b.final \in BOOLEAN
      BY <1>2, <1>4 DEF Handed, Batches
    <3>2. /\ ItemLinks(g, Grown(stream[c], x, FALSE)) = Append(W, w)
          /\ ItemLinks(g, Grown(stream[c], x, TRUE)) = Append(Append(Append(W, w), NoLink), NoLink)
      BY <2>1, <2>2, <2>5, GrownLinks DEF StreamLinks
    <3>3. StreamLinks(c, g)' = ItemLinks(g, Grown(stream[c], x, b.final))
      BY <3>1 DEF StreamLinks
    <3> HIDE DEF W
    <3>4. CASE b.final = TRUE
      BY <3>2, <3>3, <3>4
    <3>5. CASE b.final = FALSE
      BY <3>2, <3>3, <3>5
    <3> QED
      BY <3>1, <3>4, <3>5
  <2>8. FlowsOf(c, g, Prefix(c), text, ended, W, h, V, m)
    BY <2>6 DEF Flows
  <2> HIDE DEF W, V, ended, m, text, h
  <2>9. PICK T : T = Tail(V) /\ T \in Seq(Links)
    BY <2>2, <2>3, HeadTailProperties
  <2>u. PICK U : U = Append(W, w)
    OBVIOUS
  <2>10. U = Append(W, w) /\ U \in Seq(Links)
    BY <2>2, <2>5, <2>u
  <2>11. FlowsOf(c, g, Prefix(c), text, ended, U, k, T, m)
    BY <2>2, <2>3, <2>5, <2>6, <2>8, <2>9, <2>10, FlowsTake
  <2>12. NoLink \in Links
    BY DEF NoLink, Links, Texts
  <2>v. PICK U1 : U1 = Append(U, NoLink)
    OBVIOUS
  <2>13. U1 = Append(U, NoLink) /\ U1 \in Seq(Links)
    BY <2>10, <2>12, <2>v
  <2>14. FlowsOf(c, g, Prefix(c), text, ended, U1, k, T, m)
    BY <2>2, <2>6, <2>9, <2>10, <2>11, <2>13, FlowsPad
  <2>15. FlowsOf(c, g, Prefix(c), text, ended, Append(U1, NoLink), k, T, m)
    BY <2>2, <2>6, <2>9, <2>13, <2>14, FlowsPad
  <2>19. FlowsOf(c, g, Prefix(c), text, ended, StreamLinks(c, g)', k, T, m)
    <3>1. CASE b.final
      <4>1. StreamLinks(c, g)' = Append(U1, NoLink)
        BY <2>7, <2>10, <2>13, <3>1
      <4> QED
        BY <2>15, <4>1
    <3>2. CASE ~b.final
      <4>1. StreamLinks(c, g)' = U
        BY <2>7, <2>10, <3>2
      <4> QED
        BY <2>11, <4>1
    <3> QED
      BY <3>1, <3>2
  <2>20. Flows(c, g)'
    BY <1>1, <2>k, <2>3, <2>9, <2>19 DEF Flows, ended, m, text
  <2>21. ReasonsRight(c, g)'
    BY <2>6 DEF ReasonsRight
  <2> QED
    BY <2>20, <2>21
<1> QED
  BY <1>1, <1>5, <1>6, <1>7 DEF Running

\* The oldest batch names its call, which the engine knows.
LEMMA OldestFacts ==
  ASSUME ServingInv, Coming # <<>>
  PROVE  /\ Head(Coming).call \in Calls /\ Head(Coming) \in Batches /\ Present(Head(Coming).call)
         /\ Head(Coming).id = id[Head(Coming).call]
<1>1. Types /\ Named
  BY DEF ServingInv
<1>2. 1 \in DOMAIN Coming /\ Head(Coming) = Coming[1]
  BY <1>1, ComingTypes, EmptySeq, LenProperties
<1>3. Coming[1] \in Batches /\ Coming[1].call \in Calls /\ Coming[1].id = id[Coming[1].call]
  BY <1>1, <1>2, ComingTypes DEF Named
<1> QED
  BY <1>2, <1>3 DEF Present, Emits

\* A quiet call that runs takes only what was made for it.
LEMMA TakerIsOwner ==
  ASSUME ServingInv, Coming # <<>>, NEW c \in Calls,
         \/ kind = "async" /\ streamers[Head(Coming).id] = c
         \/ kind = "sync" /\ pc[c] = "run"
  PROVE  /\ pc[c] \in {"run", "closing"}
         /\ c \in Quiet /\ pc[c] = "run" => Head(Coming).call = c /\ ~HasStop(c)
<1>1. PICK b \in Batches : b = Head(Coming)
  BY OldestFacts
<1>2. b.call \in Calls /\ Present(b.call) /\ b.id = id[b.call] /\ b.id \in Ids
  BY <1>1, OldestFacts DEF Batches
<1>3. Types /\ TableOwned /\ EndsSuffice /\ QuietAlone /\ EndComes /\ None \notin Calls
  BY FrontendAssumption DEF ServingInv
<1>4. pc[c] \in {"run", "closing"} /\ (kind = "async" => id[c] = b.id)
  <2>1. CASE kind = "async" /\ streamers[b.id] = c
    BY <1>2, <1>3, <2>1 DEF TableOwned
  <2>2. CASE kind = "sync" /\ pc[c] = "run"
    BY <2>2
  <2> QED
    BY <1>1, <2>1, <2>2
<1>5. b.call \in Group(c) /\ c \in Group(c)
  BY <1>2, <1>4 DEF Group
<1>6. ASSUME c \in Quiet, pc[c] = "run" PROVE b.call = c /\ ~HasStop(c)
  <2>1. pc[c] \in Begun
    BY <1>6 DEF Begun
  <2>2. /\ \A d, e \in Group(c) : Present(d) /\ Present(e) => d = e
        /\ HasStop(c) => \A d \in Group(c) : ~Present(d)
    BY <1>3, <1>6, <2>1, OnlyOne
  <2>3. ~HasStop(c)
    BY <1>2, <1>5, <2>2
  <2>4. Owed(c)
    BY <1>3, <1>6, <2>1, <2>3 DEF EndComes, Waiting
  <2>5. Present(c)
    BY <2>4 DEF Owed, Present, EndsFor, Emits
  <2> QED
    BY <1>2, <1>5, <2>2, <2>3, <2>5
<1> QED
  BY <1>1, <1>4, <1>6

\* What was made for a quiet call that runs is not taken by another.
LEMMA OwnerTakes ==
  ASSUME ServingInv, Coming # <<>>, NEW c \in Quiet, pc[c] = "run", Head(Coming).call = c
  PROVE  /\ kind = "async" => streamers[Head(Coming).id] = c
         /\ kind = "sync" => \A d \in Calls : pc[d] = "run" => d = c
<1>1. c \in Calls /\ Present(c) /\ Head(Coming).id = id[c] /\ c \in Group(c) /\ pc[c] \in Begun
  BY OldestFacts DEF Group, Begun
<1>2. Types /\ EndsSuffice /\ QuietAlone /\ EndComes
  BY DEF ServingInv
<1>3. ~HasStop(c)
  <2>1. HasStop(c) => \A d \in Group(c) : ~Present(d)
    BY <1>1, <1>2, OnlyOne
  <2> QED
    BY <1>1, <2>1
<1>4. Listened(c)
  BY <1>1, <1>2, <1>3 DEF EndComes, Waiting
<1>5. ASSUME kind = "sync", NEW d \in Calls, pc[d] = "run" PROVE d = c
  <2>1. d \in Group(c) /\ pc[d] \in Begun
    BY <1>5 DEF Group, Begun
  <2> QED
    BY <1>1, <1>2, <2>1 DEF QuietAlone
<1> QED
  BY <1>1, <1>4, <1>5 DEF Listened

\* A call's texts while it takes something.
LEMMA TakerKeeps ==
  ASSUME NEW c \in Calls, CallRight(c), UNCHANGED <<kind, id, req, pc, reasons, answer, made, disturbed>>,
         pc[c] \in {"run", "closing"}, c \in Quiet /\ pc[c] = "run" => Running(c)'
  PROVE  CallRight(c)'
<1>1. Gens(c)' = Gens(c) /\ Prefix(c)' = Prefix(c) /\ Quiet' = Quiet
  BY DEF Gens, Prefix, Quiet
<1>2. AnswerShape(c)'
  BY <1>1 DEF CallRight, AnswerShape
<1>3. Early(c)'
  BY DEF Early
<1>4. c \in Quiet => After(c)'
  BY <1>1 DEF CallRight, After, Partial
<1> QED
  BY <1>1, <1>2, <1>3, <1>4 DEF CallRight

\* Handing out the oldest batch keeps the invariant of texts.
LEMMA HandsOutTextsKept ==
  ASSUME TextInv, QueueTypes', HandsOut
  PROVE  TextInv'
<1>0. Types /\ Named /\ InOrder /\ ServingInv
  BY DEF TextInv, ServingInv
<1>1. ServingInv' /\ Types'
  BY <1>0, HandsOutKeeps DEF ServingInv
<1>2. /\ UNCHANGED <<kind, id, req, pc, reasons, answer, instrs, engine, made, disturbed>>
      /\ Coming # <<>> /\ Coming' = Tail(Coming)
  BY DEF HandsOut
<1>3. PICK b \in Batches : b = Head(Coming)
  BY <1>0, <1>2, OldestFacts
<1>4. \A c \in Calls : (Present(c)' => Present(c)) /\ CallRight(c)
  BY <1>0, <1>2, TailComing DEF TextInv
<1>5. Quiet' = Quiet
  BY <1>2 DEF Quiet
<1>6. ASSUME NEW d \in Calls, stream'[d] = stream[d], held'[d] = held[d],
             d \in Quiet /\ pc[d] = "run" => b.call # d
      PROVE  CallRight(d)'
  <2>1. Idle(d)
    BY <1>2, <1>6 DEF Idle
  <2>2. d \in Quiet /\ pc[d] = "run" => Running(d)'
    BY <1>0, <1>2, <1>3, <1>4, <1>6, <2>1, RunningSkip DEF CallRight
  <2> QED
    BY <1>0, <1>1, <1>2, <1>4, <1>5, <2>1, <2>2, AsideKeeps DEF MadeGrows
<1>7. ASSUME NEW c \in Calls, Takes(c, b),
             \/ kind = "async" /\ streamers[b.id] = c
             \/ kind = "sync" /\ pc[c] = "run"
      PROVE  TextInv'
  <2>1. ASSUME NEW d \in Calls \ {c} PROVE CallRight(d)'
    <3>1. stream'[d] = stream[d]
      BY <1>0, <1>7, TakesItems
    <3>2. held'[d] = held[d]
      <4>1. PICK keep \in Keeps(c, b.outs) : held' = NewHeld(c, b.outs, keep)
        BY <1>7 DEF Takes
      <4>2. NewHeld(c, b.outs, keep) = [held EXCEPT ![c] = NewHeld(c, b.outs, keep)[c]]
        BY <1>0, TextFacts
      <4>3. held = [e \in Calls |-> held[e]]
        BY <1>0 DEF Types, HeldTypes
      <4> HIDE DEF NewHeld
      <4> QED
        BY <4>1, <4>2, <4>3
    <3>3. d \in Quiet /\ pc[d] = "run" => b.call # d
      BY <1>0, <1>2, <1>3, <1>7, OwnerTakes
    <3> QED
      BY <1>6, <3>1, <3>2, <3>3
  <2>2. CallRight(c)'
    <3>1. /\ pc[c] \in {"run", "closing"}
          /\ c \in Quiet /\ pc[c] = "run" => b.call = c /\ ~HasStop(c)
      BY <1>0, <1>2, <1>3, <1>7, TakerIsOwner
    <3>2. c \in Quiet /\ pc[c] = "run" => Running(c)'
      BY <1>0, <1>2, <1>3, <1>4, <1>7, <3>1, RunningTake DEF CallRight
    <3> QED
      BY <1>2, <1>4, <3>1, <3>2, TakerKeeps
  <2> QED
    BY <1>1, <2>1, <2>2 DEF TextInv
<1>8. ASSUME kind = "async", streamers[b.id] = None, UNCHANGED <<stream, held>> PROVE TextInv'
  <2>1. ASSUME NEW d \in Calls PROVE CallRight(d)'
    <3>1. d \in Quiet /\ pc[d] = "run" => b.call # d
      BY <1>0, <1>2, <1>3, <1>8, OwnerTakes, FrontendAssumption
    <3> QED
      BY <1>6, <1>8, <3>1
  <2> QED
    BY <1>1, <2>1 DEF TextInv
<1> QED
  BY <1>3, <1>7, <1>8 DEF HandsOut

\* Forwarding a batch to the common queue keeps the invariant of texts.
LEMMA ForwardsTextsKept ==
  ASSUME TextInv, QueueTypes', Forwards
  PROVE  TextInv'
<1>0. Types /\ Named /\ InOrder /\ ServingInv
  BY DEF TextInv, ServingInv
<1>1. Types'
  BY <1>0, ForwardsTypes
<1>2. /\ UNCHANGED <<kind, id, req, pc, stream, held, reasons, answer, streamers, instrs, engine, made, disturbed>>
      /\ Coming' = Coming
  BY DEF Forwards, callVars
<1>3. ServingInv'
  BY <1>0, <1>1, <1>2, ForwardsKeeps
<1>4. ASSUME NEW c \in Calls PROVE CallRight(c)'
  <2>1. Idle(c) /\ CallRight(c) /\ Quiet' = Quiet /\ (Present(c)' => Present(c))
    BY <1>2 DEF Idle, TextInv, Quiet, Present, Queued, AddOf, Emits
  <2>2. c \in Quiet' /\ pc[c] = "run" => Running(c)'
    BY <1>2, <2>1, RunningSame DEF CallRight
  <2> QED
    BY <1>0, <1>1, <1>2, <2>1, <2>2, AsideKeeps DEF MadeGrows
<1> QED
  BY <1>3, <1>4 DEF TextInv

----------------------------------------------------------------------------
(* Consuming                                                               *)

\* A response adds at most one usage.
LEMMA AccumulateUsage ==
  ASSUME NEW a, NEW r
  PROVE  Accumulate(a, r).usage = a.usage + (IF r.usage THEN 1 ELSE 0)
BY DEF Accumulate

\* What a chunk adds to the answer.
ChunkAdded(c, g, outs, a, n) ==
  /\ a.texts[g] = answer[c].texts[g] \o outs[g].text
  /\ a.reasons[g] = n[g]
  /\ (n[g] # NoReason) = (reasons[c][g] # NoReason \/ outs[g].reason # NoReason)
  /\ n[g] = "tool_calls" => req[c].tools

\* A chunk adds its text and its finish reason to the answer.
LEMMA ChunkAdds ==
  ASSUME Types, NEW c \in Calls, AnswerShape(c), NEW g \in Gens(c), NEW outs, outs[g] \in Outs,
         answer[c].texts[g] \in Texts, ReasonsRight(c, g)
  PROVE  ChunkAdded(c, g, outs, Accumulate(answer[c], ChunkResponse(req[c], reasons[c], outs)),
                    NewReasons(req[c], reasons[c], outs))
<1>0. PICK a, n : /\ a = Accumulate(answer[c], ChunkResponse(req[c], reasons[c], outs))
                  /\ n = NewReasons(req[c], reasons[c], outs)
  OBVIOUS
<1>1. PICK r : r = ChunkResponse(req[c], reasons[c], outs)
  OBVIOUS
<1>2. /\ r.choices = [i \in {j \in 1..req[c].n : Yields(reasons[c], outs, j)} |-> [text |-> outs[i].text, reason |-> n[i]]]
  BY <1>0, <1>1 DEF ChunkResponse, NoResponse
<1>3. /\ g \in DOMAIN r.choices <=> Yields(reasons[c], outs, g)
      /\ g \in DOMAIN r.choices => r.choices[g].text = outs[g].text /\ r.choices[g].reason = n[g]
  BY <1>2 DEF Gens
<1>4. g \in DOMAIN answer[c].texts /\ g \in DOMAIN answer[c].reasons /\ DOMAIN reasons[c] = Gens(c)
  BY DEF AnswerShape, Types, AnswerTypes
<1>5. /\ a.texts[g] = answer[c].texts[g] \o (IF g \in DOMAIN r.choices THEN r.choices[g].text ELSE <<>>)
      /\ a.reasons[g] = IF answer[c].reasons[g] # NoReason \/ g \notin DOMAIN r.choices
                        THEN answer[c].reasons[g] ELSE r.choices[g].reason
  BY <1>0, <1>1, <1>4, Zenon DEF Accumulate
<1>6. n[g] = IF ReasonUpdated(reasons[c], outs, g) THEN ReportedReason(req[c], outs[g].reason) ELSE reasons[c][g]
  BY <1>0, <1>4 DEF NewReasons
<1>7. a.texts[g] = answer[c].texts[g] \o outs[g].text
  BY <1>3, <1>5 DEF Yields
<1>8. outs[g].reason \in {NoReason, "stop", "abort"}
  BY DEF Outs
<1>9. /\ (n[g] # NoReason) = (reasons[c][g] # NoReason \/ outs[g].reason # NoReason)
      /\ n[g] = "tool_calls" => req[c].tools
  BY <1>6, <1>8 DEF ReasonUpdated, ReportedReason, ReasonsRight, NoReason
<1>10. a.reasons[g] = n[g]
  BY <1>3, <1>5, <1>6 DEF ReasonsRight, Yields, ReasonUpdated
<1>11. ChunkAdded(c, g, outs, a, n)
  BY <1>7, <1>9, <1>10 DEF ChunkAdded
<1> QED
  BY <1>0, <1>11

\* The link of a chunk is a text and a flag.
LEMMA ItemLinkTypes ==
  ASSUME NEW x, NEW g, IsChunk(x), x.chunk.outputs[g] \in Outs
  PROVE  ItemLink(x, g) \in Links
<1>1. x.chunk.outputs[g].text \in Texts /\ (x.chunk.outputs[g].reason # NoReason) \in BOOLEAN
  BY DEF Outs
<1> QED
  BY <1>1 DEF Links, ItemLink

\* The final chunk adds the usage that is due, and nothing else.
LEMMA FinalAdds ==
  ASSUME NEW c \in Calls, AnswerShape(c), answer[c].usage = 0,
         NEW a, a = Accumulate(answer[c], FinalResponse(req[c]))
  PROVE  /\ a.usage = UsageDue(c)
         /\ \A g \in Gens(c) : answer[c].texts[g] \in Texts => a.texts[g] = answer[c].texts[g]
         /\ \A g \in Gens(c) : a.reasons[g] = answer[c].reasons[g]
<1>1. PICK r : r = FinalResponse(req[c])
  OBVIOUS
<1>2. DOMAIN r.choices = {} /\ r.usage = (~req[c].stream \/ req[c].include_usage)
  BY <1>1 DEF FinalResponse, NoResponse
<1>3. Gens(c) = DOMAIN answer[c].texts /\ Gens(c) = DOMAIN answer[c].reasons
  BY DEF AnswerShape
<1>4. /\ a.usage = answer[c].usage + (IF r.usage THEN 1 ELSE 0)
      /\ \A i \in Gens(c) : a.texts[i] = answer[c].texts[i] \o <<>> /\ a.reasons[i] = answer[c].reasons[i]
  BY <1>1, <1>2, <1>3 DEF Accumulate
<1>5. a.usage = UsageDue(c)
  <2>1. a.usage = IF r.usage THEN 1 ELSE 0
    BY <1>4
  <2> QED
    BY <1>2, <2>1 DEF UsageDue
<1>6. ASSUME NEW g \in Gens(c), answer[c].texts[g] \in Texts PROVE a.texts[g] = answer[c].texts[g]
  BY <1>4, <1>6, ConcatEmptySeq DEF Texts
<1> QED
  BY <1>4, <1>5, <1>6

\* The places of a stream whose first item is taken.
LEMMA ShapeTail ==
  ASSUME Types, NEW c \in Calls, Shape(c), stream[c] # <<>>, UNCHANGED req, stream'[c] = Tail(stream[c])
  PROVE  /\ \A j \in 1..Len(stream'[c]) : ItemRight(c, j)'
         /\ HasStop(c)' => HasStop(c)
         /\ IsChunk(Head(stream[c])) => ~StopsNow(c)'
         /\ Head(stream[c]).kind = "chunk" /\ Head(stream[c]).chunk.final => StopsNow(c)'
         /\ Head(stream[c]).kind = "chunk" => answer[c].usage = 0
         /\ Head(stream[c]).kind = "stop" => answer[c].usage = UsageDue(c) /\ Len(stream[c]) = 1 /\ HasStop(c)
         /\ IsChunk(Head(stream[c])) => Len(Head(stream[c]).chunk.outputs) = req[c].n
<1> DEFINE l == Len(stream[c])
<1>1. stream[c] \in Seq(Items) /\ l \in Nat \ {0} /\ Head(stream[c]) = stream[c][1] /\ 1 \in 1..l
      /\ DOMAIN stream[c] = 1..l
  BY EmptySeq DEF Types, StreamTypes
<1>2. /\ stream'[c] \in Seq(Items) /\ Len(stream'[c]) = l - 1 /\ DOMAIN stream'[c] = 1..(l - 1)
      /\ \A j \in 1..(l - 1) : stream'[c][j] = stream[c][j + 1]
  BY <1>1, HeadTailProperties
<1> HIDE DEF l
<1>3. \A j \in 1..l : ItemRight(c, j)
  BY DEF Shape, l
<1>4. ASSUME NEW j \in 1..(l - 1) PROVE ItemRight(c, j)'
  <2>1. j + 1 \in 1..l /\ stream'[c][j] = stream[c][j + 1]
    BY <1>1, <1>2
  <2>2. ItemRight(c, j + 1)
    BY <1>3, <2>1
  <2> DEFINE x == stream'[c][j]
  <2>3. x = stream[c][j + 1]
    BY <2>1
  <2>4. IsChunk(x) => Len(x.chunk.outputs) = req'[c].n
    BY <2>2, <2>3 DEF ItemRight
  <2>5. x.kind = "stop" => j = Len(stream'[c])
    BY <1>1, <1>2, <2>2, <2>3 DEF ItemRight, l
  <2>6. x.kind = "chunk" /\ x.chunk.final => j + 1 = Len(stream'[c]) /\ stream'[c][j + 1].kind = "stop"
    <3>1. SUFFICES ASSUME x.kind = "chunk", x.chunk.final
                   PROVE  j + 1 = Len(stream'[c]) /\ stream'[c][j + 1].kind = "stop"
      OBVIOUS
    <3>2. (j + 1) + 1 = l /\ stream[c][(j + 1) + 1].kind = "stop"
      BY <2>2, <2>3, <3>1 DEF ItemRight, l
    <3>3. j + 1 = l - 1 /\ j + 1 \in 1..(l - 1)
      BY <1>1, <3>2
    <3> QED
      BY <1>2, <3>2, <3>3
  <2>7. x.kind = "stop" /\ j # 1 => stream'[c][j - 1].kind = "chunk" /\ stream'[c][j - 1].chunk.final
    <3>1. SUFFICES ASSUME x.kind = "stop", j # 1
                   PROVE  stream'[c][j - 1].kind = "chunk" /\ stream'[c][j - 1].chunk.final
      OBVIOUS
    <3>2. (j + 1) - 1 = j /\ j + 1 # 1 /\ j - 1 \in 1..(l - 1) /\ (j - 1) + 1 = j
      BY <1>1, <3>1
    <3>3. stream[c][j].kind = "chunk" /\ stream[c][j].chunk.final
      BY <2>2, <2>3, <3>1, <3>2 DEF ItemRight
    <3>4. stream'[c][j - 1] = stream[c][j]
      BY <1>2, <3>2
    <3> QED
      BY <3>3, <3>4
  <2> HIDE DEF x
  <2> QED
    BY <2>4, <2>5, <2>6, <2>7 DEF ItemRight, x
<1>5. HasStop(c)' => HasStop(c)
  <2>1. ASSUME NEW j \in DOMAIN stream'[c], stream'[c][j].kind = "stop" PROVE HasStop(c)
    <3>1. j + 1 \in DOMAIN stream[c] /\ stream[c][j + 1].kind = "stop"
      BY <1>1, <1>2, <2>1
    <3> QED
      BY <3>1 DEF HasStop
  <2> QED
    BY <2>1 DEF HasStop
<1>6. ASSUME IsChunk(Head(stream[c])) PROVE ~StopsNow(c)' /\ Len(Head(stream[c]).chunk.outputs) = req[c].n
  <2>1. Len(Head(stream[c]).chunk.outputs) = req[c].n
    BY <1>1, <1>3, <1>6 DEF ItemRight
  <2>2. ASSUME StopsNow(c)' PROVE FALSE
    <3>1. Len(stream'[c]) # 0 /\ stream'[c][1].kind = "stop"
      <4>1. stream'[c] # <<>> /\ stream'[c][1].kind = "stop"
        BY <2>2 DEF StopsNow
      <4> QED
        BY <1>2, <4>1, EmptySeq
    <3>2. 1 \in 1..(l - 1) /\ 1 + 1 = 2 /\ 2 \in 1..l /\ 2 - 1 = 1
      <4>1. l \in Nat \ {0} /\ l - 1 # 0
        BY <1>1, <1>2, <3>1
      <4> QED
        BY <4>1
    <3>3. stream[c][2].kind = "stop"
      BY <1>2, <3>1, <3>2
    <3>4. stream[c][1].kind = "chunk" /\ stream[c][1].chunk.final
      BY <1>3, <3>2, <3>3 DEF ItemRight
    <3> QED
      BY <1>1, <1>6, <3>4 DEF IsChunk
  <2> QED
    BY <2>1, <2>2
<1>7. ASSUME Head(stream[c]).kind = "chunk", Head(stream[c]).chunk.final PROVE StopsNow(c)'
  <2>1. 1 + 1 = l /\ stream[c][1 + 1].kind = "stop"
    BY <1>1, <1>3, <1>7 DEF ItemRight, l
  <2>2. 1 \in 1..(l - 1) /\ l - 1 = 1
    BY <1>1, <2>1
  <2>3. stream'[c] # <<>> /\ stream'[c][1].kind = "stop"
    BY <1>2, <2>1, <2>2
  <2> QED
    BY <2>3 DEF StopsNow
<1>8. Head(stream[c]).kind = "chunk" => answer[c].usage = 0
  BY <1>1 DEF Shape, StopsNow
<1>9. Head(stream[c]).kind = "stop" => answer[c].usage = UsageDue(c) /\ Len(stream[c]) = 1 /\ HasStop(c)
  BY <1>1, <1>3 DEF Shape, StopsNow, ItemRight, HasStop, l
<1> QED
  BY <1>2, <1>4, <1>5, <1>6, <1>7, <1>8, <1>9

\* A chunk with texts is consumed.
LEMMA RunningChunk ==
  ASSUME Types, Named, NEW c \in Calls, Running(c), AnswerShape(c), stream[c] # <<>>,
         UNCHANGED <<kind, id, req, held, made>>, Coming' = Coming, stream'[c] = Tail(stream[c]),
         IsChunk(Head(stream[c])), NEW outs, outs = Head(stream[c]).chunk.outputs,
         reasons'[c] = NewReasons(req[c], reasons[c], outs),
         answer'[c] = Accumulate(answer[c], ChunkResponse(req[c], reasons[c], outs))
  PROVE  Running(c)' /\ \A g \in Gens(c) : reasons[c][g] # NoReason /\ ~made[c][g].again => answer'[c].texts[g] = answer[c].texts[g]
<1>1. Gens(c)' = Gens(c) /\ Prefix(c)' = Prefix(c)
  BY DEF Gens, Prefix
<1>2. Shape(c)
  BY DEF Running
<1>3. /\ \A j \in 1..Len(stream'[c]) : ItemRight(c, j)'
      /\ HasStop(c)' => HasStop(c)
      /\ ~StopsNow(c)' /\ answer[c].usage = 0 /\ Len(outs) = req[c].n
  BY <1>2, ShapeTail DEF IsChunk
<1>4. AllOver(c)'
  <2>1. EndsFor(c)' = EndsFor(c)
    BY DEF EndsFor
  <2> QED
    BY <1>1, <1>3, <2>1 DEF Running, AllOver
<1>5. Shape(c)'
  <2>1. PICK r : r = ChunkResponse(req[c], reasons[c], outs)
    OBVIOUS
  <2>2. r.usage = FALSE
    BY <2>1 DEF ChunkResponse, NoResponse
  <2>3. answer'[c].usage = answer[c].usage + (IF r.usage THEN 1 ELSE 0)
    BY <2>1, AccumulateUsage
  <2>4. answer'[c].usage = 0
    BY <1>3, <2>2, <2>3
  <2> QED
    BY <1>3, <2>4 DEF Shape
<1>6. Head(stream[c]) \in Items /\ outs \in Seq(Outs) /\ stream[c] \in Seq(Items)
  <2>1. Head(stream[c]) \in Items /\ stream[c] \in Seq(Items)
    BY HeadTailProperties DEF Types, StreamTypes
  <2> QED
    BY <2>1 DEF Items, Chunks
<1>7. ASSUME NEW g \in Gens(c)
      PROVE  /\ Flows(c, g)' /\ ReasonsRight(c, g)'
             /\ reasons[c][g] # NoReason /\ ~made[c][g].again => answer'[c].texts[g] = answer[c].texts[g]
  <2> DEFINE W == StreamLinks(c, g)
             V == ComingLinks(c, g)
             m == made[c][g]
             ended == reasons[c][g] # NoReason
             text == answer[c].texts[g]
             h == held[c][g]
  <2>1. /\ g \in Nat /\ IsCount(m) /\ W \in Seq(Links) /\ V \in Seq(Links) /\ h \in Texts /\ Prefix(c) \in Texts
    BY <1>2, LinkTypes
  <2>2. outs[g] \in Outs
    BY <1>3, <1>6 DEF Gens
  <2>3. ItemLink(Head(stream[c]), g) = [text |-> outs[g].text, ends |-> outs[g].reason # NoReason]
    BY DEF ItemLink
  <2>4. ItemLink(Head(stream[c]), g) \in Links
    BY <2>2, ItemLinkTypes
  <2>5. W # <<>> /\ Head(W) = ItemLink(Head(stream[c]), g) /\ StreamLinks(c, g)' = Tail(W)
    <3>1. /\ ItemLinks(g, stream[c]) # <<>> /\ Head(ItemLinks(g, stream[c])) = ItemLink(Head(stream[c]), g)
          /\ ItemLinks(g, Tail(stream[c])) = Tail(ItemLinks(g, stream[c]))
      <4>1. ItemLinks(g, stream[c]) \in Seq(Links)
        BY <2>1 DEF StreamLinks
      <4> QED
        BY <1>6, <2>4, <4>1, ItemLinksFacts
    <3> QED
      BY <3>1 DEF StreamLinks
  <2>6. Flows(c, g) /\ ReasonsRight(c, g) /\ ended \in BOOLEAN
    BY DEF Running
  <2>7. FlowsOf(c, g, Prefix(c), text, ended, W, h, V, m)
    BY <2>6 DEF Flows
  <2>8. text \in Texts
    BY <2>7 DEF FlowsOf
  <2>9. ComingLinks(c, g)' = V
    BY DEF ComingLinks
  <2>10. Head(W).text = outs[g].text /\ Head(W).ends = (outs[g].reason # NoReason)
    BY <2>3, <2>5
  <2>11. /\ answer'[c].texts[g] = text \o outs[g].text
         /\ answer'[c].reasons[g] = reasons'[c][g]
         /\ (reasons'[c][g] # NoReason) = (reasons[c][g] # NoReason \/ outs[g].reason # NoReason)
         /\ reasons'[c][g] = "tool_calls" => req[c].tools
    <3>1. ChunkAdded(c, g, outs, Accumulate(answer[c], ChunkResponse(req[c], reasons[c], outs)),
                     NewReasons(req[c], reasons[c], outs))
      BY <2>2, <2>6, <2>8, ChunkAdds
    <3>2. ChunkAdded(c, g, outs, answer'[c], reasons'[c])
      BY <3>1
    <3> QED
      BY <3>2, Zenon DEF ChunkAdded
  <2> HIDE DEF W, V, m, text, h
  <2>12. (reasons'[c][g] # NoReason) = (ended \/ Head(W).ends)
    BY <2>10, <2>11, Zenon
  <2> HIDE DEF ended
  <2>13. /\ FlowsOf(c, g, Prefix(c), text \o Head(W).text, ended \/ Head(W).ends, Tail(W), h, V, m)
         /\ ended /\ ~m.again => Head(W).text = <<>>
    BY <2>1, <2>5, <2>6, <2>7, FlowsConsume
  <2>15. FlowsOf(c, g, Prefix(c), answer'[c].texts[g], reasons'[c][g] # NoReason, Tail(W), h, V, m)
    BY <2>10, <2>11, <2>12, <2>13, Zenon
  <2>16. Flows(c, g)'
    BY <1>1, <2>5, <2>9, <2>15 DEF Flows, m, h
  <2>17. ReasonsRight(c, g)'
    BY <2>11, Zenon DEF ReasonsRight
  <2>18. ended /\ ~m.again => answer'[c].texts[g] = text
    BY <2>8, <2>10, <2>11, <2>13, ConcatEmptySeq, Zenon DEF Texts
  <2> QED
    BY <2>16, <2>17, <2>18 DEF ended, text, m
<1> QED
  BY <1>1, <1>4, <1>5, <1>7 DEF Running

\* The final chunk is consumed.
LEMMA RunningFinal ==
  ASSUME Types, Named, NEW c \in Calls, Running(c), AnswerShape(c), stream[c] # <<>>,
         UNCHANGED <<kind, id, req, held, made>>, Coming' = Coming, stream'[c] = Tail(stream[c]),
         Head(stream[c]).kind = "chunk", Head(stream[c]).chunk.final,
         reasons'[c] = reasons[c], answer'[c] = Accumulate(answer[c], FinalResponse(req[c]))
  PROVE  Running(c)' /\ \A g \in Gens(c) : answer'[c].texts[g] = answer[c].texts[g]
<1>1. Gens(c)' = Gens(c) /\ Prefix(c)' = Prefix(c)
  BY DEF Gens, Prefix
<1>2. Shape(c)
  BY DEF Running
<1>3. /\ \A j \in 1..Len(stream'[c]) : ItemRight(c, j)'
      /\ HasStop(c)' => HasStop(c)
      /\ StopsNow(c)' /\ answer[c].usage = 0
  BY <1>2, ShapeTail
<1>4. AllOver(c)'
  <2>1. EndsFor(c)' = EndsFor(c)
    BY DEF EndsFor
  <2> QED
    BY <1>1, <1>3, <2>1 DEF Running, AllOver
<1>5. /\ answer'[c].usage = UsageDue(c)
      /\ \A g \in Gens(c) : answer[c].texts[g] \in Texts => answer'[c].texts[g] = answer[c].texts[g]
      /\ \A g \in Gens(c) : answer'[c].reasons[g] = answer[c].reasons[g]
  BY <1>3, FinalAdds
<1>6. Shape(c)'
  <2>1. UsageDue(c)' = UsageDue(c)
    BY DEF UsageDue
  <2> QED
    BY <1>3, <1>5, <2>1 DEF Shape
<1>7. Head(stream[c]) \in Items /\ stream[c] \in Seq(Items)
  BY HeadTailProperties DEF Types, StreamTypes
<1>8. ASSUME NEW g \in Gens(c)
      PROVE  Flows(c, g)' /\ ReasonsRight(c, g)' /\ answer'[c].texts[g] = answer[c].texts[g]
  <2> DEFINE W == StreamLinks(c, g)
             V == ComingLinks(c, g)
             m == made[c][g]
             ended == reasons[c][g] # NoReason
             text == answer[c].texts[g]
             h == held[c][g]
  <2>1. /\ g \in Nat /\ IsCount(m) /\ W \in Seq(Links) /\ V \in Seq(Links) /\ h \in Texts /\ Prefix(c) \in Texts
    BY <1>2, LinkTypes
  <2>3. ItemLink(Head(stream[c]), g) = NoLink
    BY DEF ItemLink, IsChunk
  <2>4. ItemLink(Head(stream[c]), g) \in Links
    <3>1. NoLink \in Links
      BY DEF Links, NoLink, Texts
    <3> QED
      BY <2>3, <3>1
  <2>5. W # <<>> /\ Head(W) = ItemLink(Head(stream[c]), g) /\ StreamLinks(c, g)' = Tail(W)
    <3>1. /\ ItemLinks(g, stream[c]) # <<>> /\ Head(ItemLinks(g, stream[c])) = ItemLink(Head(stream[c]), g)
          /\ ItemLinks(g, Tail(stream[c])) = Tail(ItemLinks(g, stream[c]))
      <4>1. ItemLinks(g, stream[c]) \in Seq(Links)
        BY <2>1 DEF StreamLinks
      <4> QED
        BY <1>7, <2>4, <4>1, ItemLinksFacts
    <3> QED
      BY <3>1 DEF StreamLinks
  <2>6. Flows(c, g) /\ ReasonsRight(c, g) /\ ended \in BOOLEAN
    BY DEF Running
  <2>7. FlowsOf(c, g, Prefix(c), text, ended, W, h, V, m)
    BY <2>6 DEF Flows
  <2>8. text \in Texts
    BY <2>7 DEF FlowsOf
  <2>9. ComingLinks(c, g)' = V
    BY DEF ComingLinks
  <2>10. Head(W).text = <<>> /\ Head(W).ends = FALSE
    BY <2>3, <2>5 DEF NoLink
  <2>11. answer'[c].texts[g] = text /\ answer'[c].reasons[g] = answer[c].reasons[g]
    BY <1>5, <2>8
  <2> HIDE DEF W, V, m, text, h, ended
  <2>12. text \o Head(W).text = text /\ (ended \/ Head(W).ends) = ended
    BY <2>6, <2>8, <2>10, ConcatEmptySeq DEF Texts
  <2>13. FlowsOf(c, g, Prefix(c), text \o Head(W).text, ended \/ Head(W).ends, Tail(W), h, V, m)
    BY <2>1, <2>5, <2>6, <2>7, FlowsConsume
  <2>15. FlowsOf(c, g, Prefix(c), text, ended, Tail(W), h, V, m)
    BY <2>12, <2>13
  <2>16. Flows(c, g)'
    BY <1>1, <2>5, <2>9, <2>11, <2>15 DEF Flows, m, h, ended
  <2>17. ReasonsRight(c, g)'
    BY <2>6, <2>11 DEF ReasonsRight
  <2> QED
    BY <2>11, <2>16, <2>17 DEF text
<1> QED
  BY <1>1, <1>4, <1>6, <1>8 DEF Running

\* All that was made has been told.
AllTold(c) ==
  /\ ~Present(c) /\ answer[c].usage = UsageDue(c)
  /\ \A g \in Gens(c) : /\ made[c][g].over /\ reasons[c][g] # NoReason /\ answer[c].reasons[g] = reasons[c][g]
                        /\ reasons[c][g] = "tool_calls" => req[c].tools
                        /\ ~made[c][g].again => answer[c].texts[g] = Prefix(c) \o Seg(c, g, 0, made[c][g].tokens)
                        /\ answer[c].texts[g] \in Texts

\* When the stop of a stream is reached, every generation is over and told.
LEMMA StopAtEnd ==
  ASSUME ServingInv, NEW c \in Quiet, pc[c] = "run", Running(c), stream[c] # <<>>, Head(stream[c]).kind = "stop"
  PROVE  AllTold(c)
<1>0. Types /\ Named /\ EndsSuffice /\ QuietAlone /\ c \in Calls /\ c \in Group(c) /\ pc[c] \in Begun
  BY DEF ServingInv, Quiet, Group, Begun
<1>1. Shape(c) /\ stream[c] \in Seq(Items)
  BY <1>0 DEF Running, Types, StreamTypes
<1>2. Head(stream[c]) = stream[c][1] /\ Len(stream[c]) \in Nat \ {0}
  BY <1>1, EmptySeq
<1>3. HasStop(c) /\ Len(stream[c]) = 1 /\ answer[c].usage = UsageDue(c)
  <2>1. 1 \in DOMAIN stream[c] /\ 1 \in 1..Len(stream[c]) /\ stream[c][1].kind = "stop"
    BY <1>1, <1>2
  <2>2. ItemRight(c, 1)
    BY <1>1, <2>1 DEF Shape
  <2>3. Len(stream[c]) = 1
    BY <2>1, <2>2 DEF ItemRight
  <2>4. answer[c].usage = UsageDue(c)
    BY <1>1, <2>1 DEF Shape, StopsNow
  <2> QED
    BY <2>1, <2>3, <2>4 DEF HasStop
<1>4. ~Present(c)
  BY <1>0, <1>3, OnlyOne
<1>5. ASSUME NEW g \in Gens(c)
      PROVE  /\ made[c][g].over /\ reasons[c][g] # NoReason /\ answer[c].reasons[g] = reasons[c][g]
             /\ reasons[c][g] = "tool_calls" => req[c].tools
             /\ ~made[c][g].again => answer[c].texts[g] = Prefix(c) \o Seg(c, g, 0, made[c][g].tokens)
             /\ answer[c].texts[g] \in Texts
  <2> DEFINE W == StreamLinks(c, g)
             V == ComingLinks(c, g)
             m == made[c][g]
             ended == reasons[c][g] # NoReason
  <2>1. /\ g \in Nat /\ IsCount(m) /\ Prefix(c) \in Texts /\ Len(V) = Len(Coming) /\ Len(W) = 1
        /\ \A j \in 1..Len(Coming) : V[j] = OutLink(c, Coming[j], g)
        /\ W[1] = ItemLink(stream[c][1], g)
    <3>1. 1 \in 1..Len(stream[c])
      BY <1>3
    <3> QED
      BY <1>0, <1>1, <1>2, <1>3, <3>1, LinkTypes
  <2>2. m.over
    BY <1>3 DEF Running, AllOver
  <2>3. ~W[1].ends
    <3>1. W[1] = NoLink
      BY <1>2, <2>1 DEF ItemLink, IsChunk
    <3> QED
      BY <3>1 DEF NoLink
  <2>4. ASSUME NEW j \in 1..Len(V) PROVE ~V[j].ends
    <3>1. j \in DOMAIN Coming /\ j \in 1..Len(Coming)
      BY <1>0, <2>1, ComingTypes
    <3>2. Coming[j].call # c
      BY <1>4, <3>1 DEF Present, Emits
    <3>3. V[j] = NoLink
      BY <2>1, <3>1, <3>2 DEF OutLink
    <3> QED
      BY <3>3 DEF NoLink
  <2>5. Flows(c, g) /\ ReasonsRight(c, g)
    BY DEF Running
  <2>6. Told(ended, W, V, m) /\ answer[c].texts[g] \in Texts
    BY <2>5 DEF Flows, FlowsOf
  <2>7. ended
    <3> HIDE DEF W, V, m, ended
    <3>1. \A j \in 1..Len(W) : j = 1
      BY <2>1
    <3> QED
      BY <2>2, <2>3, <2>4, <2>6, <3>1 DEF Told
  <2>8. ~m.again => answer[c].texts[g] = Prefix(c) \o Seg(c, g, 0, m.tokens)
    BY <2>5, <2>7 DEF Flows, FlowsOf, Flow
  <2> QED
    BY <2>2, <2>5, <2>6, <2>7, <2>8 DEF ReasonsRight
<1> QED
  BY <1>3, <1>4, <1>5 DEF AllTold

\* What the consumer has at the end, with the suffix.
LastAnswer(c) ==
  IF req[c].suffix THEN Accumulate(answer[c], SuffixResponse(req[c], reasons[c])) ELSE answer[c]

Suffix(c) == IF req[c].suffix THEN <<SuffixToken>> ELSE <<>>

\* The answer with the suffix has the generations of the request.
LEMMA LastShape ==
  ASSUME NEW c \in Calls, AnswerShape(c), NEW a, a = LastAnswer(c)
  PROVE  /\ a = [texts |-> a.texts, reasons |-> a.reasons, usage |-> a.usage]
         /\ DOMAIN a.texts = Gens(c) /\ DOMAIN a.reasons = Gens(c)
<1>1. CASE req[c].suffix
  <2>1. PICK r : r = SuffixResponse(req[c], reasons[c])
    OBVIOUS
  <2>2. PICK b : b = answer[c]
    OBVIOUS
  <2>3. a = Accumulate(b, r)
    BY <1>1, <2>1, <2>2 DEF LastAnswer
  <2>4. DOMAIN b.texts = Gens(c) /\ DOMAIN b.reasons = Gens(c)
    BY <2>2 DEF AnswerShape
  <2> QED
    BY <2>3, <2>4 DEF Accumulate
<1>2. CASE ~req[c].suffix
  BY <1>2 DEF LastAnswer, AnswerShape
<1> QED
  BY <1>1, <1>2

\* The suffix adds its text and nothing else.
LEMMA LastFacts ==
  ASSUME NEW c \in Calls, AnswerShape(c), AllTold(c), NEW a, a = LastAnswer(c)
  PROVE  /\ a.usage = UsageDue(c)
         /\ \A g \in Gens(c) : a.reasons[g] = reasons[c][g]
         /\ \A g \in Gens(c) : a.texts[g] = answer[c].texts[g] \o Suffix(c)
<1>1. CASE req[c].suffix
  <2>1. PICK r : r = SuffixResponse(req[c], reasons[c])
    OBVIOUS
  <2>2. PICK b : b = answer[c]
    OBVIOUS
  <2>3. a = Accumulate(b, r)
    BY <1>1, <2>1, <2>2 DEF LastAnswer
  <2>4. /\ DOMAIN b.texts = Gens(c) /\ DOMAIN b.reasons = Gens(c) /\ b.usage = UsageDue(c)
        /\ \A g \in Gens(c) : b.reasons[g] # NoReason /\ b.reasons[g] = reasons[c][g]
    BY <2>2 DEF AnswerShape, AllTold
  <2>5. r.usage = FALSE /\ DOMAIN r.choices = Gens(c) /\ \A g \in Gens(c) : r.choices[g].text = <<SuffixToken>>
    BY <2>1 DEF SuffixResponse, NoResponse, Gens
  <2>6. a.usage = b.usage + (IF r.usage THEN 1 ELSE 0)
    BY <2>3, AccumulateUsage
  <2>7. a.usage = UsageDue(c)
    <3>1. UsageDue(c) \in {0, 1}
      BY DEF UsageDue
    <3>2. a.usage = b.usage + 0
      BY <2>5, <2>6
    <3> QED
      BY <2>4, <3>1, <3>2
  <2>8. \A g \in Gens(c) : a.reasons[g] = reasons[c][g] /\ a.texts[g] = b.texts[g] \o <<SuffixToken>>
    <3>1. ASSUME NEW g \in Gens(c) PROVE a.reasons[g] = reasons[c][g] /\ a.texts[g] = b.texts[g] \o <<SuffixToken>>
      <4>1. g \in DOMAIN b.texts /\ g \in DOMAIN b.reasons /\ g \in DOMAIN r.choices
        BY <2>4, <2>5
      <4>2. /\ a.texts[g] = b.texts[g] \o r.choices[g].text
            /\ b.reasons[g] # NoReason => a.reasons[g] = b.reasons[g]
        <5>1. PICK t, u : /\ t = [i \in DOMAIN b.texts |->
                                    b.texts[i] \o (IF i \in DOMAIN r.choices THEN r.choices[i].text ELSE <<>>)]
                          /\ u = [i \in DOMAIN b.reasons |->
                                    IF b.reasons[i] # NoReason \/ i \notin DOMAIN r.choices
                                    THEN b.reasons[i] ELSE r.choices[i].reason]
          OBVIOUS
        <5>2. a = [texts |-> t, reasons |-> u, usage |-> b.usage + (IF r.usage THEN 1 ELSE 0)]
          BY <2>3, <5>1 DEF Accumulate
        <5>3. a.texts = t /\ a.reasons = u
          BY <5>2
        <5> HIDE <5>2
        <5>4. t[g] = b.texts[g] \o r.choices[g].text /\ (b.reasons[g] # NoReason => u[g] = b.reasons[g])
          BY <4>1, <5>1
        <5> QED
          BY <5>3, <5>4
      <4> QED
        BY <2>4, <2>5, <4>2
    <3> QED
      BY <3>1
  <2> QED
    BY <1>1, <2>2, <2>7, <2>8 DEF Suffix
<1>2. CASE ~req[c].suffix
  <2>1. a = answer[c] /\ Suffix(c) = <<>>
    BY <1>2 DEF LastAnswer, Suffix
  <2>2. \A g \in Gens(c) : answer[c].texts[g] \o <<>> = answer[c].texts[g]
    <3>1. ASSUME NEW g \in Gens(c) PROVE answer[c].texts[g] \o <<>> = answer[c].texts[g]
      <4>1. answer[c].texts[g] \in Seq(Toks)
        BY DEF AllTold, Texts
      <4> QED
        BY <4>1, ConcatEmptySeq
    <3> QED
      BY <3>1
  <2> QED
    BY <2>1, <2>2 DEF AllTold
<1> QED
  BY <1>1, <1>2

\* The checks at the end hold.
LEMMA LastChecks ==
  ASSUME Types, NEW c \in Calls, AnswerShape(c), AllTold(c), NEW a, a = LastAnswer(c)
  PROVE  /\ EndChecksHold(req[c], reasons[c], a)
         /\ ParseRaises(req[c], a) => req[c].tools
<1>1. DOMAIN reasons[c] = Gens(c) /\ DOMAIN a.reasons = Gens(c)
  BY LastShape DEF Types, AnswerTypes
<1>2. \A g \in Gens(c) : reasons[c][g] # NoReason /\ a.reasons[g] = reasons[c][g]
                         /\ (reasons[c][g] = "tool_calls" => req[c].tools)
  BY LastFacts DEF AllTold
<1>3. EndChecksHold(req[c], reasons[c], a)
  BY <1>1, <1>2 DEF EndChecksHold, AllEnded
<1> QED
  BY <1>1, <1>2, <1>3 DEF ParseRaises, CallsFunctions

\* The first k tokens are the segment from the start.
LEMMA TokensAreSeg ==
  ASSUME NEW c, NEW g, NEW k \in Nat
  PROVE  Tokens(c, g, k) = Seg(c, g, 0, k)
<1>1. 1..(k - 0) = 1..k /\ \A j \in 1..k : 0 + j = j
  OBVIOUS
<1> QED
  BY <1>1 DEF Tokens, Seg

\* The end of the stream is consumed.
StopStep(c, last) ==
  \/ /\ pc'[c] = "done"
     /\ \E parsed \in [Gens(c) -> BOOLEAN] :
          answer'[c] = [last EXCEPT !.reasons = FunctionReasons(req[c], last, parsed)]
  \/ /\ ~EndChecksHold(req[c], reasons[c], last) \/ ParseRaises(req[c], last)
     /\ pc'[c] = "failed" /\ answer'[c] = answer[c]

\* The end of a stream that has told everything completes the answer.
LEMMA StopRight ==
  ASSUME Types, Types', NEW c \in Calls, AnswerShape(c), UNCHANGED <<id, req, made, engine, instrs, syncQueue, outputs>>,
         StopStep(c, LastAnswer(c))
  PROVE  /\ AnswerShape(c)' /\ pc'[c] \in {"done", "failed"}
         /\ AllTold(c) => After(c)'
<1>0. Gens(c)' = Gens(c) /\ Prefix(c)' = Prefix(c)
  BY DEF Gens, Prefix
<1>1. PICK a : a = LastAnswer(c)
  OBVIOUS
<1>2. /\ a = [texts |-> a.texts, reasons |-> a.reasons, usage |-> a.usage]
      /\ DOMAIN a.texts = Gens(c) /\ DOMAIN a.reasons = Gens(c)
  BY <1>1, LastShape
<1>3. ~Present(c) => ~Present(c)'
  BY DEF Present, Queued, AddOf, Emits, Coming
<1>4. ASSUME pc'[c] = "done", NEW parsed \in [Gens(c) -> BOOLEAN],
             answer'[c] = [a EXCEPT !.reasons = FunctionReasons(req[c], a, parsed)]
      PROVE  AnswerShape(c)' /\ pc'[c] \in {"done", "failed"} /\ (AllTold(c) => After(c)')
  <2>1. PICK f : f = FunctionReasons(req[c], a, parsed)
    OBVIOUS
  <2>2. DOMAIN f = Gens(c) /\ ((\A g \in Gens(c) : a.reasons[g] # NoReason) => \A g \in Gens(c) : f[g] # NoReason)
    BY <1>2, <2>1 DEF FunctionReasons, NoReason
  <2>3. answer'[c] = [texts |-> a.texts, reasons |-> f, usage |-> a.usage]
    <3>1. answer'[c] = [a EXCEPT !.reasons = f]
      BY <1>4, <2>1
    <3> QED
      BY <1>2, <3>1
  <2>4. answer'[c].texts = a.texts /\ answer'[c].reasons = f /\ answer'[c].usage = a.usage
    BY <2>3
  <2>5. AnswerShape(c)'
    BY <1>0, <1>2, <2>2, <2>3, <2>4 DEF AnswerShape
  <2>6. ASSUME AllTold(c) PROVE After(c)'
    <3>1. /\ a.usage = UsageDue(c)
          /\ \A g \in Gens(c) : a.reasons[g] = reasons[c][g]
          /\ \A g \in Gens(c) : a.texts[g] = answer[c].texts[g] \o Suffix(c)
      BY <1>1, <2>6, LastFacts
    <3>2. \A g \in Gens(c) : f[g] # NoReason
      BY <2>2, <2>6, <3>1 DEF AllTold
    <3>3. ASSUME NEW g \in Gens(c), ~made[c][g].again PROVE a.texts[g] = TextUpTo(c, g, made[c][g].tokens)'
      <4>1. PICK k \in Nat : k = made[c][g].tokens
        BY DEF Types, MadeTypes
      <4>2. a.texts[g] = (Prefix(c) \o Tokens(c, g, k)) \o Suffix(c)
        <5>1. a.texts[g] = answer[c].texts[g] \o Suffix(c)
          BY <3>1
        <5>2. answer[c].texts[g] = Prefix(c) \o Seg(c, g, 0, k)
          BY <2>6, <3>3, <4>1 DEF AllTold
        <5>3. Tokens(c, g, k) = Seg(c, g, 0, k)
          BY <4>1, TokensAreSeg
        <5> QED
          BY <5>1, <5>2, <5>3, Zenon
      <4>3. TextUpTo(c, g, made[c][g].tokens)' = (Prefix(c) \o Tokens(c, g, k)) \o Suffix(c)
        <5>1. req'[c] = req[c] /\ made'[c][g].tokens = k
          BY <4>1
        <5>2. TextUpTo(c, g, made[c][g].tokens)'
                = ((IF req[c].echo THEN <<EchoToken>> ELSE <<>>) \o Tokens(c, g, k))
                    \o (IF pc'[c] = "done" /\ req[c].suffix THEN <<SuffixToken>> ELSE <<>>)
          BY <5>1 DEF TextUpTo
        <5> QED
          BY <1>4, <5>2 DEF Prefix, Suffix
      <4> QED
        BY <4>2, <4>3
    <3>4. CompleteAnswer(c)'
      <4>1. answer'[c].usage = IF ~req'[c].stream \/ req'[c].include_usage THEN 1 ELSE 0
        BY <2>4, <3>1 DEF UsageDue
      <4>2. ASSUME NEW g \in Gens(c)'
            PROVE  /\ made'[c][g].over /\ answer'[c].reasons[g] # NoReason
                   /\ ~made'[c][g].again => answer'[c].texts[g] = TextUpTo(c, g, made[c][g].tokens)'
        BY <1>0, <2>4, <2>6, <3>2, <3>3 DEF AllTold
      <4> QED
        BY <4>1, <4>2 DEF CompleteAnswer
    <3>5. ~Present(c)'
      BY <1>3, <2>6 DEF AllTold
    <3> QED
      BY <1>4, <3>4, <3>5 DEF After
  <2> QED
    BY <1>4, <2>5, <2>6
<1>5. ASSUME ~EndChecksHold(req[c], reasons[c], a) \/ ParseRaises(req[c], a),
             pc'[c] = "failed", answer'[c] = answer[c]
      PROVE  AnswerShape(c)' /\ pc'[c] \in {"done", "failed"} /\ (AllTold(c) => After(c)')
  <2>1. AnswerShape(c)'
    BY <1>0, <1>5 DEF AnswerShape
  <2>2. ASSUME AllTold(c) PROVE After(c)'
    <3>1. req[c].tools
      BY <1>1, <1>5, <2>2, LastChecks
    <3>2. ASSUME NEW g \in Gens(c), ~made'[c][g].again
          PROVE \E k \in 0..made'[c][g].tokens : answer'[c].texts[g] = Prefix(c)' \o Seg(c, g, 0, k)
      <4>1. made[c][g].tokens \in 0..made[c][g].tokens
        BY DEF Types, MadeTypes
      <4>2. answer'[c].texts[g] = Prefix(c)' \o Seg(c, g, 0, made[c][g].tokens)
        BY <1>0, <1>5, <2>2, <3>2 DEF AllTold
      <4> QED
        BY <4>1, <4>2
    <3>3. Partial(c)'
      BY <1>0, <3>2 DEF Partial
    <3> QED
      BY <1>5, <3>1, <3>3 DEF After
  <2> QED
    BY <1>5, <2>1, <2>2
<1> QED
  BY <1>1, <1>4, <1>5 DEF StopStep

\* What is told about a generation that has ended does not change.
EndStays(c) ==
  \A g \in Gens(c) : answer[c].reasons[g] # NoReason /\ ~made[c][g].again =>
                        answer'[c].texts[g] = answer[c].texts[g]

\* Consuming a chunk keeps the invariant, and adds nothing behind an end.
LEMMA ChunkRight ==
  ASSUME Types, Types', Named, NEW c \in Calls, CallRight(c), pc[c] = "run", stream[c] # <<>>,
         UNCHANGED <<kind, id, req, held, made, syncQueue, outputs, disturbed>>, stream'[c] = Tail(stream[c]),
         Head(stream[c]).kind = "chunk", ConsumeChunk(c, Head(stream[c]).chunk)
  PROVE  CallRight(c)' /\ (c \in Quiet => EndStays(c))
<1>0. /\ AnswerShape(c) /\ Gens(c)' = Gens(c) /\ Quiet' = Quiet /\ Coming' = Coming
      /\ c \in Quiet => Running(c) /\ After(c)
  BY DEF CallRight, Gens, Quiet, Coming
<1>1. PICK chunk : chunk = Head(stream[c]).chunk
  OBVIOUS
<1>2. answer = [d \in Calls |-> answer[d]] /\ reasons = [d \in Calls |-> reasons[d]] /\ pc \in [Calls -> {pc[d] : d \in Calls}]
  BY DEF Types, AnswerTypes, PcTypes
<1>3. ASSUME chunk.final, answer' = [answer EXCEPT ![c] = Accumulate(answer[c], FinalResponse(req[c]))],
             UNCHANGED <<pc, reasons>>
      PROVE  CallRight(c)' /\ (c \in Quiet => EndStays(c))
  <2>1. answer'[c] = Accumulate(answer[c], FinalResponse(req[c])) /\ reasons'[c] = reasons[c] /\ pc'[c] = "run"
    BY <1>2, <1>3
  <2>2. AnswerShape(c)'
    <3>1. PICK a, b, r : a = answer'[c] /\ b = answer[c] /\ r = FinalResponse(req[c])
      OBVIOUS
    <3>2. DOMAIN b.texts = Gens(c) /\ DOMAIN b.reasons = Gens(c) /\ a = Accumulate(b, r)
      BY <1>0, <2>1, <3>1 DEF AnswerShape
    <3>3. /\ a = [texts |-> a.texts, reasons |-> a.reasons, usage |-> a.usage]
          /\ DOMAIN a.texts = Gens(c) /\ DOMAIN a.reasons = Gens(c)
      BY <3>2 DEF Accumulate
    <3> QED
      BY <1>0, <3>1, <3>3 DEF AnswerShape
  <2>3. c \in Quiet => Running(c)' /\ EndStays(c)
    BY <1>0, <1>1, <1>3, <2>1, RunningFinal DEF EndStays
  <2> QED
    BY <1>0, <2>1, <2>2, <2>3 DEF CallRight, Early, After
<1>4. ASSUME ~chunk.final, Len(chunk.outputs) = req[c].n, UNCHANGED pc,
             reasons' = [reasons EXCEPT ![c] = NewReasons(req[c], reasons[c], chunk.outputs)],
             answer' = [answer EXCEPT ![c] = Accumulate(answer[c], ChunkResponse(req[c], reasons[c], chunk.outputs))]
      PROVE  CallRight(c)' /\ (c \in Quiet => EndStays(c))
  <2>1. /\ answer'[c] = Accumulate(answer[c], ChunkResponse(req[c], reasons[c], chunk.outputs))
        /\ reasons'[c] = NewReasons(req[c], reasons[c], chunk.outputs) /\ pc'[c] = "run"
    BY <1>2, <1>4
  <2>2. AnswerShape(c)'
    <3>1. PICK a, b, r : a = answer'[c] /\ b = answer[c] /\ r = ChunkResponse(req[c], reasons[c], chunk.outputs)
      OBVIOUS
    <3>2. DOMAIN b.texts = Gens(c) /\ DOMAIN b.reasons = Gens(c) /\ a = Accumulate(b, r)
      BY <1>0, <2>1, <3>1 DEF AnswerShape
    <3>3. /\ a = [texts |-> a.texts, reasons |-> a.reasons, usage |-> a.usage]
          /\ DOMAIN a.texts = Gens(c) /\ DOMAIN a.reasons = Gens(c)
      BY <3>2 DEF Accumulate
    <3> QED
      BY <1>0, <3>1, <3>3 DEF AnswerShape
  <2>3. c \in Quiet => Running(c)' /\ EndStays(c)
    <3>1. IsChunk(Head(stream[c]))
      BY <1>1, <1>4 DEF IsChunk
    <3>2. c \in Quiet => /\ Running(c)'
                         /\ \A g \in Gens(c) : reasons[c][g] # NoReason /\ ~made[c][g].again =>
                              answer'[c].texts[g] = answer[c].texts[g]
      BY <1>0, <1>1, <2>1, <3>1, RunningChunk
    <3>3. c \in Quiet => \A g \in Gens(c) : answer[c].reasons[g] = reasons[c][g]
      BY <1>0 DEF Running, ReasonsRight
    <3> QED
      BY <3>2, <3>3 DEF EndStays
  <2> QED
    BY <1>0, <2>1, <2>2, <2>3 DEF CallRight, Early, After
<1>5. ASSUME ~chunk.final, Len(chunk.outputs) # req[c].n, pc'[c] \in {"closing", "failed"}, UNCHANGED <<reasons, answer>>
      PROVE  CallRight(c)' /\ (c \in Quiet => EndStays(c))
  <2>1. c \notin Quiet
    <3>1. IsChunk(Head(stream[c]))
      BY <1>1, <1>5 DEF IsChunk
    <3>2. ASSUME c \in Quiet PROVE FALSE
      <4>1. Len(Head(stream[c]).chunk.outputs) = req[c].n
        BY <1>0, <3>1, <3>2, ShapeTail DEF Running
      <4> QED
        BY <1>1, <1>5, <4>1
    <3> QED
      BY <3>2
  <2>2. AnswerShape(c)'
    BY <1>0, <1>5 DEF AnswerShape
  <2> QED
    BY <1>0, <1>5, <2>1, <2>2 DEF CallRight, Early
<1>6. pc' = [pc EXCEPT ![c] = "closing"] => pc'[c] = "closing"
  BY <1>2
<1>7. pc' = [pc EXCEPT ![c] = "failed"] => pc'[c] = "failed"
  BY <1>2
<1>8. ConsumeChunk(c, chunk)
  BY <1>1
<1> QED
  BY <1>3, <1>4, <1>5, <1>6, <1>7, <1>8 DEF ConsumeChunk

\* Consuming the stop keeps the invariant of the call.
LEMMA StopKeeps ==
  ASSUME ServingInv, Types', NEW c \in Calls, CallRight(c), pc[c] = "run", stream[c] # <<>>,
         UNCHANGED <<kind, id, req, held, made, syncQueue, outputs, engine, disturbed>>,
         Head(stream[c]).kind = "stop", ConsumeStop(c)
  PROVE  CallRight(c)' /\ pc'[c] # "run"
<1>0. /\ AnswerShape(c) /\ Quiet' = Quiet /\ Types
      /\ c \in Quiet => Running(c)
  BY DEF CallRight, Quiet, ServingInv
<1>1. answer = [d \in Calls |-> answer[d]] /\ pc \in [Calls -> {pc[d] : d \in Calls}] /\ UNCHANGED instrs
  BY <1>0 DEF Types, AnswerTypes, PcTypes, ConsumeStop
<1>2. PICK last : last = LastAnswer(c)
  OBVIOUS
<1>3. \/ /\ \E parsed \in [Gens(c) -> BOOLEAN] :
              answer' = [answer EXCEPT ![c] = [last EXCEPT !.reasons = FunctionReasons(req[c], last, parsed)]]
         /\ pc' = [pc EXCEPT ![c] = "done"]
      \/ /\ ~EndChecksHold(req[c], reasons[c], last) \/ ParseRaises(req[c], last)
         /\ pc' = [pc EXCEPT ![c] = "failed"]
         /\ UNCHANGED answer
  BY <1>2 DEF ConsumeStop, LastAnswer
<1>4. StopStep(c, last)
  <2>1. CASE /\ \E parsed \in [Gens(c) -> BOOLEAN] :
                  answer' = [answer EXCEPT ![c] = [last EXCEPT !.reasons = FunctionReasons(req[c], last, parsed)]]
             /\ pc' = [pc EXCEPT ![c] = "done"]
    <3>1. PICK parsed \in [Gens(c) -> BOOLEAN] :
            answer' = [answer EXCEPT ![c] = [last EXCEPT !.reasons = FunctionReasons(req[c], last, parsed)]]
      BY <2>1
    <3>2. answer'[c] = [last EXCEPT !.reasons = FunctionReasons(req[c], last, parsed)] /\ pc'[c] = "done"
      BY <1>1, <2>1, <3>1
    <3> QED
      BY <3>2 DEF StopStep
  <2>2. CASE /\ ~EndChecksHold(req[c], reasons[c], last) \/ ParseRaises(req[c], last)
             /\ pc' = [pc EXCEPT ![c] = "failed"]
             /\ UNCHANGED answer
    BY <1>1, <2>2 DEF StopStep
  <2> QED
    BY <1>3, <2>1, <2>2
<1>5. AnswerShape(c)' /\ pc'[c] \in {"done", "failed"} /\ (AllTold(c) => After(c)')
  BY <1>0, <1>1, <1>2, <1>4, StopRight
<1>6. c \in Quiet => AllTold(c)
  BY <1>0, StopAtEnd
<1> QED
  BY <1>0, <1>5, <1>6 DEF CallRight, Early

\* Consuming keeps the invariant of the call that consumes.
LEMMA ConsumeSelf ==
  ASSUME TextInv, Types', NEW c \in Calls, Consume(c)
  PROVE  CallRight(c)' /\ (c \in Quiet /\ pc'[c] = "run" => EndStays(c))
<1>0. /\ Types /\ Named /\ InOrder /\ ServingInv /\ EndComes /\ CallRight(c)
      /\ UNCHANGED <<kind, id, req, held, syncQueue, engine, made, outputs, disturbed>>
      /\ pc[c] = "run" /\ stream[c] # <<>>
  BY DEF TextInv, ServingInv, Consume, ctrlVars
<1>1. stream'[c] = Tail(stream[c])
  BY <1>0 DEF Consume, Types, StreamTypes
<1>2. CASE Head(stream[c]).kind = "chunk" /\ ConsumeChunk(c, Head(stream[c]).chunk)
  BY <1>0, <1>1, <1>2, ChunkRight
<1>3. CASE Head(stream[c]).kind = "stop" /\ ConsumeStop(c)
  BY <1>0, <1>3, StopKeeps
<1>4. CASE Head(stream[c]).kind = "error" /\ ConsumeError(c)
  <2>1. c \notin Quiet
    <3>1. stream[c] \in Seq(Items)
      BY <1>0 DEF Types, StreamTypes
    <3>2. 1 \in DOMAIN stream[c] /\ stream[c][1].kind = "error"
      BY <1>0, <1>4, <3>1, EmptySeq
    <3> QED
      BY <1>0, <3>2 DEF EndComes
  <2>2. pc'[c] = "failed" /\ UNCHANGED answer
    BY <1>0, <1>4 DEF ConsumeError, Types, PcTypes
  <2>3. AnswerShape(c)'
    BY <1>0, <2>2 DEF CallRight, AnswerShape, Gens
  <2> QED
    BY <1>0, <2>1, <2>2, <2>3 DEF CallRight, Early, Quiet
<1> QED
  BY <1>2, <1>3, <1>4 DEF Consume

\* Nothing happens to a call.
LEMMA OthersKeep ==
  ASSUME Types, Named, InOrder, Types', NEW d \in Calls, CallRight(d), Idle(d), made'[d] = made[d],
         Quiet' \subseteq Quiet, d \in Quiet' /\ pc[d] = "run" => Coming' = Coming, Present(d)' => Present(d)
  PROVE  CallRight(d)'
<1>1. d \in Quiet' /\ pc[d] = "run" => Running(d)'
  BY RunningSame DEF CallRight
<1> QED
  BY <1>1, AsideKeeps DEF MadeGrows

\* An abort makes no call known to the engine.
LEMMA AbortPresent ==
  ASSUME Types, Named, UNCHANGED <<kind, id, req, engine>>, Coming' = Coming,
         UNCHANGED instrs \/ \E i \in Ids : DoAbort(i)
  PROVE  \A c \in Calls : Present(c)' => Present(c)
<1>1. CASE UNCHANGED instrs
  BY <1>1 DEF Present, Queued, AddOf, Emits
<1>2. CASE \E i \in Ids : DoAbort(i)
  <2>1. PICK i \in Ids : instrs' = WithAbort(i)
    BY <1>2 DEF DoAbort
  <2>2. PICK x \in Instrs : x.op # "add" /\ instrs' = Append(instrs, x)
    BY <2>1 DEF WithAbort, Instrs
  <2> QED
    BY <2>2, AppendInstr
<1> QED
  BY <1>1, <1>2

\* Consuming keeps the invariant of texts.
LEMMA ConsumeTextsKept ==
  ASSUME TextInv, NEW c \in Calls, Consume(c)
  PROVE  TextInv'
<1>0. Types /\ Named /\ InOrder /\ ServingInv
  BY DEF TextInv, ServingInv
<1>1. Consumes(c)
  BY <1>0, ConsumeCases
<1>2. ServingInv' /\ Types'
  BY <1>0, <1>1, ConsumesKeeps DEF ServingInv
<1>3. CallRight(c)'
  BY <1>2, ConsumeSelf
<1>4. ASSUME NEW d \in Calls \ {c} PROVE CallRight(d)'
  <2>1. /\ UNCHANGED <<kind, id, req, held, syncQueue, engine, made, outputs, disturbed>>
        /\ stream' = [stream EXCEPT ![c] = Tail(stream[c])] /\ Quiet' = Quiet /\ Coming' = Coming
    BY DEF Consume, Quiet, Coming
  <2>2. stream'[d] = stream[d]
    BY <1>0, <2>1 DEF Types, StreamTypes
  <2>3. pc'[d] = pc[d]
    BY <1>0, <1>1 DEF Consumes, Types, PcTypes
  <2>4. answer'[d] = answer[d] /\ reasons'[d] = reasons[d]
    <3>1. answer = [e \in Calls |-> answer[e]] /\ reasons = [e \in Calls |-> reasons[e]]
      BY <1>0 DEF Types, AnswerTypes
    <3>2. \/ UNCHANGED answer
          \/ \E a : answer' = [answer EXCEPT ![c] = a]
      BY DEF Consume, ConsumeChunk, ConsumeStop, ConsumeError
    <3>3. \/ UNCHANGED reasons
          \/ \E a : reasons' = [reasons EXCEPT ![c] = a]
      BY DEF Consume, ConsumeChunk, ConsumeStop, ConsumeError
    <3> QED
      BY <3>1, <3>2, <3>3
  <2>5. Idle(d) /\ CallRight(d)
    BY <2>1, <2>2, <2>3, <2>4 DEF Idle, TextInv
  <2>6. UNCHANGED instrs \/ \E i \in Ids : DoAbort(i)
    <3>1. id[c] \in Ids
      BY <1>0, ScenarioFacts DEF Types
    <3> QED
      BY <1>1, <3>1 DEF Consumes
  <2>7. Present(d)' => Present(d)
    BY <1>0, <2>1, <2>6, AbortPresent
  <2> QED
    BY <1>0, <1>2, <2>1, <2>5, <2>7, OthersKeep
<1> QED
  BY <1>2, <1>3, <1>4 DEF TextInv

----------------------------------------------------------------------------
(* Leaving and control                                                     *)

\* The consumer of a running call has the first tokens of each generation.
LEMMA RunningPartial ==
  ASSUME NEW c \in Calls, Running(c)
  PROVE  Partial(c)
BY DEF Running, Flows, FlowsOf, Flow, Partial

\* Leaving a call keeps the invariant of texts.
LEMMA LeftTextsKept ==
  ASSUME TextInv, NEW c \in Calls, Left(c)
  PROVE  TextInv'
<1>0. Types /\ Named /\ InOrder /\ ServingInv
  BY DEF TextInv, ServingInv
<1>1. ServingInv' /\ Types'
  BY <1>0, LeftKeeps DEF ServingInv
<1>2. /\ UNCHANGED <<kind, id, req, stream, held, reasons, answer, syncQueue, engine, made, outputs, disturbed>>
      /\ Quiet' = Quiet /\ Coming' = Coming /\ (UNCHANGED instrs \/ DoAbort(id[c]))
  BY DEF Left, Quiet, Coming
<1>3. \A d \in Calls : Present(d)' => Present(d)
  <2>1. id[c] \in Ids
    BY <1>0, ScenarioFacts DEF Types
  <2> QED
    BY <1>0, <1>2, <2>1, AbortPresent
<1>4. ASSUME NEW d \in Calls \ {c} PROVE CallRight(d)'
  <2>1. pc'[d] = pc[d]
    BY <1>0 DEF Left, Types, PcTypes
  <2>2. Idle(d) /\ CallRight(d)
    BY <1>2, <2>1 DEF Idle, TextInv
  <2> QED
    BY <1>0, <1>1, <1>2, <1>3, <2>2, OthersKeep
<1>5. CallRight(c)'
  <2>0. CallRight(c) /\ Gens(c)' = Gens(c) /\ Prefix(c)' = Prefix(c)
    BY <1>2 DEF TextInv, Gens, Prefix
  <2>1. \/ pc[c] \in {"run", "closing"} /\ pc'[c] \in {"closing", "closed"}
        \/ pc[c] = "echo" /\ pc'[c] = "unused"
    BY <1>0 DEF Left, Types, PcTypes
  <2>2. AnswerShape(c)'
    BY <1>2, <2>0 DEF CallRight, AnswerShape
  <2>3. CASE pc[c] \in {"run", "closing"} /\ pc'[c] \in {"closing", "closed"}
    <3>1. c \in Quiet => Partial(c)
      BY <2>0, <2>3, RunningPartial DEF CallRight, After
    <3>2. Partial(c) => Partial(c)'
      BY <1>2, <2>0 DEF Partial
    <3> QED
      BY <1>2, <2>2, <2>3, <3>1, <3>2 DEF CallRight, Early, After
  <2>4. CASE pc[c] = "echo" /\ pc'[c] = "unused"
    <3>1. Untouched(c) /\ Opening(c)
      BY <2>0, <2>4 DEF CallRight, Early
    <3>2. Untouched(c)' /\ Opening(c)'
      BY <1>2, <2>0, <3>1 DEF Untouched, Opening
    <3> QED
      BY <2>2, <2>4, <3>2 DEF CallRight, Early, After
  <2> QED
    BY <2>1, <2>3, <2>4
<1> QED
  BY <1>1, <1>4, <1>5 DEF TextInv

\* abort, reset and terminate keep the invariant of texts.
LEMMA ControlTextsKept ==
  ASSUME TextInv, (\E i \in Ids : Abort(i)) \/ Reset \/ Terminate
  PROVE  TextInv'
<1>0. Types /\ Named /\ InOrder /\ ServingInv
  BY DEF TextInv, ServingInv
<1>1. ServingInv' /\ Types'
  BY <1>0, ControlKeeps DEF ServingInv
<1>2. /\ UNCHANGED <<kind, id, req, pc, stream, held, reasons, answer, syncQueue, engine, made, outputs>>
      /\ disturbed \subseteq disturbed'
  BY DEF Abort, Reset, Terminate, callVars, engineVars
<1>3. Coming' = Coming /\ Quiet' \subseteq Quiet
  BY <1>2 DEF Coming, Quiet
<1>4. \A d \in Calls : Present(d)' => Present(d)
  <2>1. CASE \E i \in Ids : Abort(i)
    BY <1>0, <1>2, <1>3, <2>1, AbortPresent DEF Abort
  <2>2. CASE Reset
    <3>1. PICK x \in Instrs : x.op # "add" /\ instrs' = Append(instrs, x)
      <4>1. (CHOOSE i \in Ids : TRUE) \in Ids
        BY FrontendAssumption
      <4>2. PICK i \in Ids : i = CHOOSE j \in Ids : TRUE
        BY <4>1
      <4>3. instrs' = Append(instrs, [op |-> "reset", id |-> i, call |-> None])
        BY <2>2, <4>2 DEF Reset
      <4> QED
        BY <4>3 DEF Instrs
    <3> QED
      BY <1>0, <1>2, <1>3, <3>1, AppendInstr
  <2>3. CASE Terminate
    BY <1>0, <1>2, <1>3, <2>3, AbortPresent DEF Terminate, engineVars
  <2> QED
    BY <2>1, <2>2, <2>3
<1>5. ASSUME NEW d \in Calls PROVE CallRight(d)'
  <2>1. Idle(d) /\ CallRight(d) /\ made'[d] = made[d]
    BY <1>2 DEF Idle, TextInv
  <2> QED
    BY <1>0, <1>1, <1>3, <1>4, <2>1, OthersKeep
<1> QED
  BY <1>1, <1>5 DEF TextInv

\* The text streamers of a quiet call that runs are not given tokens after finish.
LEMMA PutHolds ==
  ASSUME TextInv, Coming # <<>>, NEW c \in Quiet, pc[c] = "run",
         \/ kind = "async" /\ streamers[Head(Coming).id] = c
         \/ kind = "sync"
  PROVE  ~PutRaises(c, Head(Coming).outs)
<1>0. Types /\ Named /\ ServingInv /\ EndComes /\ c \in Calls /\ Running(c)
  BY DEF TextInv, ServingInv, CallRight, Quiet
<1>1. Head(Coming).call = c /\ ~HasStop(c)
  BY <1>0, TakerIsOwner
<1>2. stream[c] \in Seq(Items) /\ DOMAIN stream[c] = 1..Len(stream[c]) /\ Len(stream[c]) \in Nat
  BY <1>0, LenProperties DEF Types, StreamTypes
<1>3. ASSUME NEW j \in DOMAIN stream[c] PROVE IsChunk(stream[c][j])
  <2>1. stream[c][j].kind \in {"chunk", "stop", "error"}
    <3>1. stream[c][j] \in Items
      BY <1>2
    <3> QED
      BY <3>1 DEF Items
  <2>2. stream[c][j].kind # "error" /\ stream[c][j].kind # "stop"
    BY <1>0, <1>1 DEF EndComes, HasStop
  <2>3. ASSUME stream[c][j].chunk.final PROVE FALSE
    <3>1. j + 1 = Len(stream[c]) /\ stream[c][j + 1].kind = "stop"
      BY <1>0, <1>2, <2>1, <2>2, <2>3 DEF Running, Shape, ItemRight
    <3>2. j + 1 \in DOMAIN stream[c]
      BY <1>2, <3>1
    <3> QED
      BY <1>1, <3>1, <3>2 DEF HasStop
  <2> QED
    BY <2>1, <2>2, <2>3 DEF IsChunk
<1>4. ASSUME NEW g \in Zipped(c, Head(Coming).outs), Finished(c, g) PROVE Head(Coming).outs[g].text = <<>>
  <2>1. g \in Gens(c)
    <3>1. Head(Coming).outs \in Seq(Outs) /\ req[c].n \in Nat
      BY <1>0, OldestFacts, ScenarioFacts DEF Types, Batches
    <3>2. Len(Head(Coming).outs) \in Nat
      BY <3>1, LenProperties
    <3> QED
      BY <3>1, <3>2 DEF Zipped, SmallerOf, Gens
  <2>2. /\ IsCount(made[c][g]) /\ ComingLinks(c, g) \in Seq(Links) /\ Len(ComingLinks(c, g)) = Len(Coming)
        /\ \A j \in 1..Len(Coming) : ComingLinks(c, g)[j] = OutLink(c, Coming[j], g)
        /\ Len(StreamLinks(c, g)) = Len(stream[c])
        /\ \A j \in 1..Len(stream[c]) : StreamLinks(c, g)[j] = ItemLink(stream[c][j], g)
    BY <1>0, <2>1, LinkTypes
  <2>3. PICK fin \in BOOLEAN : fin = Fin(reasons[c][g] # NoReason, StreamLinks(c, g))
    BY DEF Fin
  <2>4. fin
    <3>1. ASSUME NEW j \in DOMAIN stream[c], stream[c][j].chunk.outputs[g].reason # NoReason
          PROVE  j \in 1..Len(StreamLinks(c, g)) /\ StreamLinks(c, g)[j].ends
      <4>1. IsChunk(stream[c][j])
        BY <1>3
      <4>2. j \in 1..Len(stream[c]) /\ StreamLinks(c, g)[j] = ItemLink(stream[c][j], g)
        BY <1>2, <2>2
      <4>3. ItemLink(stream[c][j], g).ends
        BY <3>1, <4>1 DEF ItemLink
      <4> QED
        BY <2>2, <4>2, <4>3
    <3> QED
      BY <1>4, <2>3, <3>1 DEF Finished, Fin
  <2>5. Once(fin, ComingLinks(c, g), made[c][g])
    BY <1>0, <2>1, <2>3 DEF Running, Flows, FlowsOf
  <2>6. ComingLinks(c, g) # <<>> /\ Head(ComingLinks(c, g)) = OutLink(c, Head(Coming), g)
    <3>1. Coming \in Seq(Batches) /\ Len(Coming) \in Nat \ {0} /\ Head(Coming) = Coming[1]
      BY <1>0, ComingTypes, EmptySeq, LenProperties
    <3>2. ComingLinks(c, g) # <<>>
      BY <2>2, <3>1, EmptySeq
    <3>3. Head(ComingLinks(c, g)) = ComingLinks(c, g)[1]
      BY <2>2, <3>2
    <3> QED
      BY <2>2, <3>1, <3>2, <3>3
  <2>7. Silent(Head(ComingLinks(c, g)), made[c][g])
    BY <2>2, <2>4, <2>5, <2>6, OnceFacts
  <2> QED
    BY <1>1, <2>6, <2>7 DEF Silent, OutLink
<1> QED
  BY <1>4 DEF PutRaises

\* A text streamer that raises keeps the invariant of texts: no quiet call runs.
LEMMA RaisesTextsKept ==
  ASSUME TextInv, QueueTypes', NEW c \in Calls, Raises(c)
  PROVE  TextInv'
<1>0. Types /\ Named /\ InOrder /\ ServingInv /\ QuietAlone
  BY DEF TextInv, ServingInv
<1>1. ServingInv' /\ Types'
  BY <1>0, RaisesKeeps DEF ServingInv
<1> DEFINE x == [op |-> "abort", id |-> id[c], call |-> None]
<1>2. /\ UNCHANGED <<kind, id, req, stream, held, reasons, answer, engine, made, disturbed>> /\ kind = "sync"
      /\ Coming # <<>> /\ Coming' = Tail(Coming) /\ pc[c] = "run" /\ PutRaises(c, Head(Coming).outs)
      /\ pc' = [pc EXCEPT ![c] = "failed"] /\ instrs' = Append(instrs, x)
  BY DEF Raises, DoAbort, WithAbort
<1>3. x \in Instrs /\ x.op # "add"
  BY <1>0, ScenarioFacts DEF Instrs, Types
<1> HIDE DEF x
<1>4. \A d \in Calls : Present(d)' => Present(d)
  BY <1>0, <1>2, <1>3, TailComing
<1>5. pc'[c] = "failed" /\ \A d \in Calls \ {c} : pc'[d] = pc[d]
  BY <1>0, <1>2 DEF Types, PcTypes
<1>6. Quiet' = Quiet /\ c \notin Quiet
  BY <1>2, PutHolds DEF Quiet
<1>7. ASSUME NEW d \in Calls \ {c} PROVE CallRight(d)'
  <2>1. Idle(d) /\ CallRight(d) /\ made'[d] = made[d]
    BY <1>2, <1>5 DEF Idle, TextInv
  <2>2. ~(d \in Quiet /\ pc[d] = "run")
    BY <1>0, <1>2 DEF QuietAlone, Group, Begun
  <2> QED
    BY <1>0, <1>1, <1>4, <1>6, <2>1, <2>2, OthersKeep
<1>8. CallRight(c)'
  <2>1. AnswerShape(c)'
    BY <1>2 DEF TextInv, CallRight, AnswerShape, Gens
  <2>2. Early(c)'
    BY <1>5 DEF Early
  <2> QED
    BY <1>6, <2>1, <2>2 DEF CallRight
<1> QED
  BY <1>1, <1>7, <1>8 DEF TextInv

----------------------------------------------------------------------------
(* Starting                                                                *)

\* A call for which nothing has been made runs.
LEMMA FreshRuns ==
  ASSUME Types, NEW c \in Calls, UNCHANGED <<req, held, reasons, answer, made>>, Untouched(c), Opening(c),
         stream'[c] = <<>>, Coming' \in Seq(Batches), ~Emits(c)'
  PROVE  Running(c)'
<1>1. Gens(c)' = Gens(c) /\ Prefix(c)' = Prefix(c)
  BY DEF Gens, Prefix
<1>2. Len(Coming') \in Nat /\ DOMAIN Coming' = 1..Len(Coming')
  OBVIOUS
<1>3. \A j \in 1..Len(Coming') : Coming'[j].call # c
  BY <1>2 DEF Emits
<1>4. NoLink \in Links
  BY DEF NoLink, Links, Texts
<1>5. ASSUME NEW g \in Gens(c) PROVE Flows(c, g)' /\ ReasonsRight(c, g)'
  <2> DEFINE m == made[c][g]
  <2>1. PICK V : V = ComingLinks(c, g)'
    OBVIOUS
  <2>2. V = [j \in 1..Len(Coming') |-> NoLink]
    BY <1>3, <2>1 DEF ComingLinks, OutLinks, OutLink
  <2>3. V \in Seq(Links) /\ Len(V) = Len(Coming')
    <3>1. V \in [1..Len(Coming') -> Links]
      BY <1>4, <2>2
    <3> QED
      BY <1>2, <3>1, FunctionIsSeq
  <2>4. \A j \in 1..Len(V) : V[j] = NoLink
    BY <2>2, <2>3
  <2>5. StreamLinks(c, g)' = <<>>
    <3>1. Len(stream'[c]) = 0
      OBVIOUS
    <3>2. StreamLinks(c, g)' = [j \in 1..0 |-> ItemLink(stream'[c][j], g)]
      BY <3>1 DEF StreamLinks, ItemLinks
    <3>3. PICK W : W = StreamLinks(c, g)'
      OBVIOUS
    <3>4. W \in [1..0 -> Links]
      BY <3>2, <3>3
    <3>5. W \in Seq(Links) /\ Len(W) = 0
      BY <3>4, FunctionIsSeq
    <3>6. W = <<>>
      BY <3>5, EmptySeq
    <3> QED
      BY <3>3, <3>6
  <2>6. m.tokens = 0 /\ m.over = FALSE /\ m.again = FALSE /\ IsCount(m) /\ 0 \in 0..m.tokens
    <3>1. m = [tokens |-> 0, over |-> FALSE, again |-> FALSE]
      BY DEF Untouched
    <3>2. m.tokens = 0 /\ m.over = FALSE /\ m.again = FALSE
      BY <3>1
    <3>3. m.tokens \in Nat /\ 0 \in 0..m.tokens
      BY <3>2
    <3>4. m.over \in BOOLEAN /\ m.again \in BOOLEAN
      BY <3>2
    <3>5. IsCount(m)
      BY <3>3, <3>4 DEF IsCount
    <3> QED
      BY <3>2, <3>3, <3>5
  <2>7. /\ held'[c][g] = <<>> /\ reasons'[c][g] = NoReason /\ answer'[c].texts[g] = Prefix(c)
        /\ answer'[c].reasons[g] = NoReason /\ made'[c][g] = m
    BY DEF Untouched, Opening
  <2>8. Prefix(c) \in Seq(Toks)
    <3>1. <<EchoToken>> \in Seq(Toks) /\ <<>> \in Seq(Toks)
      BY DEF Toks
    <3> QED
      BY <3>1 DEF Prefix
  <2> HIDE DEF m
  <2>9. Prefix(c) = Prefix(c) \o Seg(c, g, 0, 0) /\ <<>> = Seg(c, g, 0, 0)
    BY <2>8, SegEmpty, ConcatEmptySeq
  <2>10. Chain(c, g, <<>>, 0, 0, m)
    <3>1. PICK W : W = <<>>
      OBVIOUS
    <3>4. W \in Seq(Links) /\ Len(W) = 0
      BY <3>1
    <3>2. \A j \in 1..Len(W) : W[j] = NoLink
      BY <3>4
    <3>3. Chain(c, g, W, 0, 0, m)
      BY <2>6, <3>4, <3>2, ChainFlat
    <3> QED
      BY <3>1, <3>3
  <2>11. Chain(c, g, V, 0, m.tokens, m)
    <3>1. Chain(c, g, V, 0, 0, m)
      BY <2>3, <2>4, <2>6, ChainFlat
    <3> QED
      BY <2>6, <3>1
  <2>12. Flow(c, g, Prefix(c), Prefix(c), FALSE, <<>>, <<>>, V, m)
    BY <2>6, <2>9, <2>10, <2>11 DEF Flow
  <2>13. Told(FALSE, <<>>, V, m)
    BY <2>6 DEF Told
  <2>14. (reasons'[c][g] # NoReason) = FALSE
    BY <2>7
  <2>15. Flows(c, g)'
    <3>1. Fin(FALSE, <<>>) = FALSE /\ Due(FALSE, <<>>, <<>>) = <<>>
      BY DEF Fin, Due
    <3>2. \A j \in 1..Len(V) : V[j].text = <<>> /\ ~V[j].ends
      BY <2>4 DEF NoLink
    <3>3. Once(FALSE, V, m)
      BY <3>2 DEF Once, Silent
    <3>4. FlowsOf(c, g, Prefix(c), Prefix(c), FALSE, <<>>, <<>>, V, m)
      BY <2>8, <2>12, <2>13, <3>1, <3>3 DEF FlowsOf, Texts
    <3> QED
      BY <1>1, <2>1, <2>5, <2>7, <2>14, <3>4 DEF Flows
  <2>16. ReasonsRight(c, g)'
    BY <2>7 DEF ReasonsRight, NoReason
  <2> QED
    BY <2>15, <2>16
<1>6. Shape(c)'
  BY DEF Shape, StopsNow, Opening
<1>7. AllOver(c)'
  <2>1. ~HasStop(c)'
    BY DEF HasStop
  <2>2. ~EndsFor(c)'
    BY DEF EndsFor, Emits
  <2> QED
    BY <2>1, <2>2 DEF AllOver
<1> QED
  BY <1>1, <1>5, <1>6, <1>7 DEF Running

\* The echoed prompt.
LEMMA EchoOpens ==
  ASSUME Types, NEW c \in Calls, req[c].echo, answer[c] = EmptyAnswer(req[c]), UNCHANGED req,
         answer'[c] = Accumulate(answer[c], EchoResponse(req[c]))
  PROVE  Opening(c)' /\ AnswerShape(c)'
<1>1. PICK a, b, r : a = answer'[c] /\ b = answer[c] /\ r = EchoResponse(req[c])
  OBVIOUS
<1>2. /\ DOMAIN r.choices = Gens(c) /\ r.usage = FALSE
      /\ \A g \in Gens(c) : r.choices[g].text = <<EchoToken>> /\ r.choices[g].reason = NoReason
  BY <1>1 DEF EchoResponse, NoResponse, Gens
<1>3. /\ DOMAIN b.texts = Gens(c) /\ DOMAIN b.reasons = Gens(c) /\ b.usage = 0
      /\ \A g \in Gens(c) : b.texts[g] = <<>> /\ b.reasons[g] = NoReason
  BY <1>1 DEF EmptyAnswer, Gens
<1>4. a = Accumulate(b, r)
  BY <1>1
<1>5. PICK t, u : /\ t = [i \in DOMAIN b.texts |->
                            b.texts[i] \o (IF i \in DOMAIN r.choices THEN r.choices[i].text ELSE <<>>)]
                  /\ u = [i \in DOMAIN b.reasons |->
                            IF b.reasons[i] # NoReason \/ i \notin DOMAIN r.choices
                            THEN b.reasons[i] ELSE r.choices[i].reason]
  OBVIOUS
<1>6. a = [texts |-> t, reasons |-> u, usage |-> b.usage + (IF r.usage THEN 1 ELSE 0)]
  BY <1>4, <1>5 DEF Accumulate
<1>7. a.texts = t /\ a.reasons = u /\ a.usage = 0
  BY <1>2, <1>3, <1>6
<1>8. DOMAIN t = Gens(c) /\ DOMAIN u = Gens(c) /\ a = [texts |-> a.texts, reasons |-> a.reasons, usage |-> a.usage]
  BY <1>3, <1>5, <1>6, <1>7
<1>9. ASSUME NEW g \in Gens(c) PROVE t[g] = <<EchoToken>> /\ u[g] = NoReason
  <2>1. t[g] = <<>> \o <<EchoToken>>
    BY <1>2, <1>3, <1>5
  <2>2. <<EchoToken>> \in Seq(Toks)
    BY DEF Toks
  <2>3. t[g] = <<EchoToken>>
    BY <2>1, <2>2, ConcatEmptySeq
  <2>4. u[g] = NoReason
    BY <1>2, <1>3, <1>5
  <2> QED
    BY <2>3, <2>4
<1>10. Gens(c)' = Gens(c) /\ Prefix(c)' = <<EchoToken>>
  BY DEF Gens, Prefix
<1>11. Opening(c)'
  BY <1>1, <1>7, <1>9, <1>10 DEF Opening
<1>12. AnswerShape(c)'
  BY <1>1, <1>7, <1>8, <1>10 DEF AnswerShape
<1> QED
  BY <1>11, <1>12

\* A call begins.
LEMMA BeginTexts ==
  ASSUME ServingInv, ServingInv', NEW c \in Calls, pc[c] \in {"idle", "echo"}, c \in Quiet',
         UNCHANGED <<kind, id, req, held, reasons, engine, made, outputs, answer>>,
         (GenerateAsync(c) /\ kind = "async") \/ (GenerateSync(c) /\ kind = "sync"),
         pc'[c] = "run", Untouched(c), Opening(c)
  PROVE  Running(c)'
<1>0. Types /\ Types' /\ InOrder' /\ EndComes'
  BY DEF ServingInv
<1>1. stream[c] = <<>>
  BY IdleIsUnknown
<1>2. stream'[c] = <<>> /\ instrs' = Append(instrs, [op |-> "add", id |-> id[c], call |-> c])
  <2>1. \A j \in DOMAIN stream'[c] : stream'[c][j].kind # "error"
    BY <1>0 DEF EndComes
  <2>2. stream' # [stream EXCEPT ![c] = <<ErrorItem>>]
    <3>1. ASSUME stream' = [stream EXCEPT ![c] = <<ErrorItem>>] PROVE FALSE
      <4>1. stream'[c] = <<ErrorItem>>
        BY <1>0, <3>1 DEF Types, StreamTypes
      <4>2. 1 \in DOMAIN stream'[c] /\ stream'[c][1] = ErrorItem
        BY <4>1
      <4>3. ErrorItem.kind = "error"
        BY DEF ErrorItem, Item
      <4> QED
        BY <2>1, <4>2, <4>3
    <3> QED
      BY <3>1
  <2> QED
    BY <1>1, <2>2 DEF GenerateAsync, GenerateSync
<1>3. Queued(c)'
  <2>1. instrs \in Seq(Instrs) /\ Len(instrs) \in Nat
    BY <1>0 DEF Types, InstrTypes
  <2>2. /\ Len(instrs) + 1 \in DOMAIN instrs' /\ instrs'[Len(instrs) + 1] = [op |-> "add", id |-> id[c], call |-> c]
    BY <1>2, <2>1
  <2>3. instrs'[Len(instrs) + 1].op = "add" /\ instrs'[Len(instrs) + 1].call = c
    BY <2>2
  <2> QED
    BY <2>2, <2>3 DEF Queued, AddOf
<1>4. ~Emits(c)'
  BY <1>0, <1>3 DEF InOrder, Through
<1>5. Coming' \in Seq(Batches)
  <2>1. outputs' \in Seq(Batches) /\ syncQueue' \in Seq(Batches)
    BY <1>0 DEF Types, QueueTypes
  <2> QED
    BY <2>1, ConcatProperties DEF Coming
<1> QED
  BY <1>0, <1>2, <1>4, <1>5, FreshRuns

\* The ways a call starts.
Starts(c) ==
  \/ /\ pc[c] = "idle" /\ req[c].echo /\ pc' = [pc EXCEPT ![c] = "echo"]
     /\ answer' = [answer EXCEPT ![c] = Accumulate(answer[c], EchoResponse(req[c]))]
     /\ UNCHANGED <<instrs, stream, syncQueue, disturbed>>
  \/ /\ pc[c] \in {"idle", "echo"} /\ pc' = [pc EXCEPT ![c] = "unused"]
     /\ UNCHANGED <<answer, instrs, stream, syncQueue, disturbed>>
  \/ /\ (pc[c] = "idle" /\ ~req[c].echo) \/ pc[c] = "echo"
     /\ pc' = [pc EXCEPT ![c] = "run"] /\ UNCHANGED answer /\ disturbed' = NowDisturbed(c)
     /\ (GenerateAsync(c) /\ kind = "async") \/ (GenerateSync(c) /\ kind = "sync")

\* Start, Refuse and AfterEcho start a call in one of these ways.
LEMMA StartCases ==
  ASSUME Types, NEW c \in Calls, Start(c) \/ Refuse(c) \/ AfterEcho(c)
  PROVE  Starts(c) /\ UNCHANGED <<kind, id, req, held, reasons, engine, made, outputs>>
<1>0. kind \in {"async", "sync"}
  BY ScenarioFacts DEF Types
<1>1. Generate(c) => \/ /\ pc' = [pc EXCEPT ![c] = "unused"]
                        /\ UNCHANGED <<instrs, stream, syncQueue, disturbed>>
                     \/ /\ pc' = [pc EXCEPT ![c] = "run"] /\ disturbed' = NowDisturbed(c)
                        /\ (GenerateAsync(c) /\ kind = "async") \/ (GenerateSync(c) /\ kind = "sync")
  BY <1>0 DEF Generate
<1>2. CASE Start(c)
  BY <1>1, <1>2 DEF Start, Starts
<1>3. CASE Refuse(c)
  BY <1>3 DEF Refuse, Starts, engineVars
<1>4. CASE AfterEcho(c)
  BY <1>1, <1>4 DEF AfterEcho, Starts
<1> QED
  BY <1>2, <1>3, <1>4

\* The stream and the table of the others, and what is known of them.
LEMMA StartLeaves ==
  ASSUME ServingInv, ServingInv', NEW c \in Calls, Starts(c), pc[c] \in {"idle", "echo"},
         UNCHANGED <<kind, id, req, held, reasons, engine, made, outputs>>, NEW d \in Calls \ {c}
  PROVE  /\ Idle(d) /\ Quiet' \subseteq Quiet /\ (Present(d)' => Present(d))
         /\ d \in Quiet' /\ pc[d] = "run" => Coming' = Coming
<1>0. Types /\ Named /\ InOrder
  BY DEF ServingInv
<1>1. /\ pc = [e \in Calls |-> pc[e]] /\ stream = [e \in Calls |-> stream[e]]
      /\ answer = [e \in Calls |-> answer[e]]
  BY <1>0 DEF Types, PcTypes, StreamTypes, AnswerTypes
<1>2. pc'[d] = pc[d]
  BY <1>1 DEF Starts
<1>3. stream'[d] = stream[d]
  BY <1>1 DEF Starts, GenerateAsync, GenerateSync
<1>4. answer'[d] = answer[d]
  BY <1>1 DEF Starts
<1>5. Idle(d)
  BY <1>2, <1>3, <1>4 DEF Idle
<1>6. Quiet' \subseteq Quiet
  BY DEF Quiet, Starts, NowDisturbed
<1>7. ~Present(c)
  BY IdleIsUnknown
<1>8. CASE UNCHANGED <<instrs, syncQueue>>
  <2>1. Coming' = Coming
    BY <1>8 DEF Coming
  <2>2. Present(d)' => Present(d)
    BY <1>0, <1>8, <2>1, AbortPresent
  <2> QED
    BY <1>5, <1>6, <2>1, <2>2
<1>9. CASE ~UNCHANGED <<instrs, syncQueue>>
  <2>1. /\ pc' = [pc EXCEPT ![c] = "run"] /\ disturbed' = NowDisturbed(c)
        /\ instrs' = Append(instrs, [op |-> "add", id |-> id[c], call |-> c])
        /\ \/ kind = "async" /\ syncQueue' = syncQueue
           \/ kind = "sync" /\ syncQueue' = <<>>
    BY <1>9 DEF Starts, GenerateAsync, GenerateSync
  <2>2. syncQueue' \in {syncQueue, <<>>}
    BY <2>1
  <2>3. Present(d)' => Present(d)
    BY <1>0, <1>7, <2>1, <2>2, AddInstr
  <2>4. d \in Quiet' /\ pc[d] = "run" => c \notin Group(d)
    BY <2>1, BeginDisturbs DEF Begun
  <2>5. kind = "sync" => c \in Group(d)
    BY DEF Group
  <2>6. kind = "async" => Coming' = Coming
    BY <2>1 DEF Coming
  <2>7. d \in Quiet' /\ pc[d] = "run" => Coming' = Coming
    BY <2>1, <2>4, <2>5, <2>6
  <2> QED
    BY <1>5, <1>6, <2>3, <2>7
<1> QED
  BY <1>8, <1>9

\* An empty answer is an opening when no prompt is echoed.
LEMMA EmptyOpens ==
  ASSUME NEW c \in Calls, answer[c] = EmptyAnswer(req[c]), ~req[c].echo
  PROVE  Opening(c)
<1>1. /\ \A g \in Gens(c) : answer[c].texts[g] = <<>> /\ answer[c].reasons[g] = NoReason
      /\ answer[c].usage = 0
  BY DEF EmptyAnswer, Gens
<1> QED
  BY <1>1 DEF Opening, Prefix

\* Starting a call keeps the invariant of texts.
LEMMA PreludeTextsKept ==
  ASSUME TextInv, NEW c \in Calls, Start(c) \/ Refuse(c) \/ AfterEcho(c)
  PROVE  TextInv'
<1>0. Types /\ Named /\ InOrder /\ ServingInv /\ CallRight(c)
  BY DEF TextInv, ServingInv
<1>1. Prelude(c)
  BY <1>0, StartIsPrelude
<1>2. ServingInv' /\ Types' /\ pc[c] \in {"idle", "echo"}
  BY <1>0, <1>1, PreludeKeeps DEF ServingInv, Prelude
<1>3. Starts(c) /\ UNCHANGED <<kind, id, req, held, reasons, engine, made, outputs>>
  BY <1>0, StartCases
<1>4. ASSUME NEW d \in Calls \ {c} PROVE CallRight(d)'
  <2>1. /\ Idle(d) /\ Quiet' \subseteq Quiet /\ (Present(d)' => Present(d))
        /\ d \in Quiet' /\ pc[d] = "run" => Coming' = Coming
    BY <1>0, <1>2, <1>3, StartLeaves
  <2>2. CallRight(d) /\ made'[d] = made[d]
    BY <1>3 DEF TextInv
  <2> QED
    BY <1>0, <1>2, <2>1, <2>2, OthersKeep
<1>5. Untouched(c) /\ Untouched(c)'
  <2>1. Untouched(c)
    BY <1>0, <1>2 DEF CallRight, Early
  <2> QED
    BY <1>3, <2>1 DEF Untouched, Gens
<1>6. /\ \A x : pc' = [pc EXCEPT ![c] = x] => pc'[c] = x
      /\ \A x : answer' = [answer EXCEPT ![c] = x] => answer'[c] = x
  BY <1>0 DEF Types, PcTypes, AnswerTypes
<1>7. UNCHANGED answer => AnswerShape(c)' /\ (Opening(c) => Opening(c)')
  BY <1>0, <1>3 DEF CallRight, AnswerShape, Opening, Gens, Prefix
<1>8. CallRight(c)'
  <2>1. CASE /\ pc[c] = "idle" /\ req[c].echo /\ pc' = [pc EXCEPT ![c] = "echo"]
             /\ answer' = [answer EXCEPT ![c] = Accumulate(answer[c], EchoResponse(req[c]))]
    <3>1. answer[c] = EmptyAnswer(req[c])
      BY <1>0, <2>1 DEF CallRight, Early
    <3>2. pc'[c] = "echo" /\ answer'[c] = Accumulate(answer[c], EchoResponse(req[c]))
      BY <1>6, <2>1
    <3>3. Opening(c)' /\ AnswerShape(c)'
      BY <1>0, <1>3, <2>1, <3>1, <3>2, EchoOpens
    <3> QED
      BY <1>5, <3>2, <3>3 DEF CallRight, Early, After
  <2>2. CASE pc' = [pc EXCEPT ![c] = "unused"] /\ UNCHANGED answer
    <3>1. pc'[c] = "unused"
      BY <1>6, <2>2
    <3>2. answer[c] = EmptyAnswer(req[c]) \/ Opening(c)
      BY <1>0, <1>2 DEF CallRight, Early
    <3>3. (answer[c] = EmptyAnswer(req[c]) \/ Opening(c))'
      BY <1>3, <1>7, <2>2, <3>2
    <3> QED
      BY <1>5, <1>7, <2>2, <3>1, <3>3 DEF CallRight, Early, After
  <2>3. CASE /\ (pc[c] = "idle" /\ ~req[c].echo) \/ pc[c] = "echo"
             /\ pc' = [pc EXCEPT ![c] = "run"] /\ UNCHANGED answer
             /\ (GenerateAsync(c) /\ kind = "async") \/ (GenerateSync(c) /\ kind = "sync")
    <3>1. pc'[c] = "run"
      BY <1>6, <2>3
    <3>2. Opening(c)
      <4>1. CASE pc[c] = "idle" /\ ~req[c].echo
        BY <1>0, <4>1, EmptyOpens DEF CallRight, Early
      <4>2. CASE pc[c] = "echo"
        BY <1>0, <4>2 DEF CallRight, Early
      <4> QED
        BY <2>3, <4>1, <4>2
    <3>3. c \in Quiet' => Running(c)'
      BY <1>0, <1>2, <1>3, <1>5, <2>3, <3>1, <3>2, BeginTexts
    <3> QED
      BY <1>7, <2>3, <3>1, <3>3 DEF CallRight, Early, After
  <2> QED
    BY <1>3, <2>1, <2>2, <2>3 DEF Starts
<1> QED
  BY <1>2, <1>4, <1>8 DEF TextInv

----------------------------------------------------------------------------
(* All steps                                                               *)

\* The invariant of texts holds initially.
LEMMA InitTexts == Init => TextInv
<1> SUFFICES ASSUME Init PROVE TextInv
  OBVIOUS
<1>1. ASSUME NEW c \in Calls PROVE CallRight(c)
  <2>1. pc[c] = "idle" /\ answer[c] = EmptyAnswer(req[c])
    BY DEF Init
  <2>2. Untouched(c)
    BY DEF Init, Untouched
  <2>3. AnswerShape(c)
    BY <2>1 DEF EmptyAnswer, AnswerShape, Gens
  <2> QED
    BY <2>1, <2>2, <2>3 DEF CallRight, Early, After
<1> QED
  BY <1>1, InitServing DEF TextInv

\* A step that changes nothing keeps the invariant of texts.
LEMMA StutterTexts ==
  ASSUME TextInv, UNCHANGED vars
  PROVE  TextInv'
<1>0. Types
  BY DEF TextInv, ServingInv
<1>1. /\ UNCHANGED <<kind, id, req, pc, stream, held, reasons, answer, streamers, syncQueue, instrs, engine,
                     made, outputs, terminated, control, disturbed>>
  BY DEF vars, callVars, engineVars, ctrlVars
<1>2. QueueTypes' /\ Forwards
  BY <1>0, <1>1 DEF Types, QueueTypes, Forwards, Coming, callVars, ctrlVars
<1> QED
  BY <1>2, ForwardsTextsKept

\* Every step keeps the invariant of texts.
LEMMA TextsKept == TextInv /\ [Next]_vars => TextInv'
<1> SUFFICES ASSUME TextInv, [Next]_vars PROVE TextInv'
  OBVIOUS
<1>0. Types
  BY DEF TextInv, ServingInv
<1>1. ASSUME NEW c \in Calls, Start(c) \/ Refuse(c) \/ AfterEcho(c) PROVE TextInv'
  BY <1>1, PreludeTextsKept
<1>2. ASSUME NEW c \in Calls, SyncGet(c) PROVE TextInv'
  BY <1>0, <1>2, SyncGetCases, HandsOutTextsKept, RaisesTextsKept
<1>3. ASSUME NEW c \in Calls, Consume(c) PROVE TextInv'
  BY <1>3, ConsumeTextsKept
<1>4. ASSUME NEW c \in Calls, Cancel(c) \/ Drop(c) \/ Close(c) PROVE TextInv'
  BY <1>4, LeaveCases, LeftTextsKept
<1>5. CASE Engine
  BY <1>5, EngineTextsKept
<1>6. CASE Deliver
  BY <1>0, <1>6, DeliverCases, HandsOutTextsKept, ForwardsTextsKept
<1>7. CASE (\E i \in Ids : Abort(i)) \/ Reset \/ Terminate
  BY <1>7, ControlTextsKept
<1>8. CASE UNCHANGED vars
  BY <1>8, StutterTexts
<1> QED
  BY <1>1, <1>2, <1>3, <1>4, <1>5, <1>6, <1>7, <1>8 DEF Next

----------------------------------------------------------------------------
(* What the invariant says                                                 *)

\* The text of a call that has not run to its end.
LEMMA TextSoFar ==
  ASSUME TextInv, NEW c \in Quiet, pc[c] # "done", answer[c] # EmptyAnswer(req[c])
  PROVE  Partial(c)
<1>0. Types /\ CallRight(c) /\ c \in Calls
  BY DEF TextInv, ServingInv, Quiet
<1>1. pc[c] \in {"idle", "run", "echo", "closing", "failed", "closed", "unused"}
  BY <1>0 DEF Types, PcTypes, Unfinished, Ended
<1>2. Opening(c) => Partial(c)
  <2> SUFFICES ASSUME Opening(c), NEW g \in Gens(c), ~made[c][g].again
               PROVE  \E k \in 0..made[c][g].tokens : answer[c].texts[g] = Prefix(c) \o Seg(c, g, 0, k)
    BY DEF Partial
  <2>1. answer[c].texts[g] = Prefix(c)
    BY DEF Opening
  <2>2. Prefix(c) \in Seq(Toks)
    <3>1. <<EchoToken>> \in Seq(Toks) /\ <<>> \in Seq(Toks)
      BY DEF Toks
    <3> QED
      BY <3>1 DEF Prefix
  <2>3. Prefix(c) = Prefix(c) \o Seg(c, g, 0, 0)
    BY <2>2, SegEmpty, ConcatEmptySeq
  <2>4. 0 \in 0..made[c][g].tokens
    <3>1. made[c][g] \in [tokens : 0..req[c].max_tokens, over : BOOLEAN, again : BOOLEAN]
      BY <1>0 DEF Types, MadeTypes
    <3>2. req[c].max_tokens \in Nat
      BY <1>0, ScenarioFacts DEF Types
    <3> QED
      BY <3>1, <3>2
  <2> QED
    BY <2>1, <2>3, <2>4
<1>3. pc[c] = "run" => Partial(c)
  BY <1>0, RunningPartial DEF CallRight
<1> QED
  BY <1>0, <1>1, <1>2, <1>3 DEF CallRight, Early, After

\* The invariant of texts gives their order.
LEMMA TextInvGivesOrder == TextInv => TextsInOrder
<1> SUFFICES ASSUME TextInv, NEW c \in Quiet, answer[c] # EmptyAnswer(req[c]), NEW g \in Gens(c),
                    ~made[c][g].again
             PROVE  \E k \in 0..made[c][g].tokens : answer[c].texts[g] = TextUpTo(c, g, k)
  BY DEF TextsInOrder
<1>0. Types /\ CallRight(c) /\ c \in Calls
  BY DEF TextInv, ServingInv, Quiet
<1>1. made[c][g].tokens \in Nat
  <2>1. made[c][g] \in [tokens : 0..req[c].max_tokens, over : BOOLEAN, again : BOOLEAN]
    BY <1>0 DEF Types, MadeTypes
  <2>2. req[c].max_tokens \in Nat
    BY <1>0, ScenarioFacts DEF Types
  <2> QED
    BY <2>1, <2>2
<1>2. CASE pc[c] = "done"
  <2>1. answer[c].texts[g] = TextUpTo(c, g, made[c][g].tokens)
    BY <1>0, <1>2 DEF CallRight, After, CompleteAnswer
  <2> QED
    BY <1>1, <2>1
<1>3. CASE pc[c] # "done"
  <2>1. PICK k \in 0..made[c][g].tokens : answer[c].texts[g] = Prefix(c) \o Seg(c, g, 0, k)
    BY <1>3, TextSoFar DEF Partial
  <2>2. k \in Nat
    BY <1>1, <2>1
  <2>3. TextUpTo(c, g, k) = Prefix(c) \o Seg(c, g, 0, k) \o <<>>
    BY <1>3, <2>2, TokensAreSeg DEF TextUpTo, Prefix
  <2>4. g \in Nat
    BY <1>0, ScenarioFacts DEF Types, Gens
  <2>5. Seg(c, g, 0, k) \in Seq(Toks)
    <3>1. c \in Calls /\ 0 \in Nat /\ 0 <= k
      BY <1>0, <2>2
    <3>2. Seg(c, g, 0, k) \in Texts
      BY <2>2, <2>4, <3>1, SegFacts
    <3> QED
      BY <3>2 DEF Texts
  <2>6. Prefix(c) \in Seq(Toks)
    <3>1. <<EchoToken>> \in Seq(Toks) /\ <<>> \in Seq(Toks)
      BY DEF Toks
    <3> QED
      BY <3>1 DEF Prefix
  <2>7. Prefix(c) \o Seg(c, g, 0, k) \in Seq(Toks)
    BY <2>5, <2>6, ConcatProperties
  <2>8. TextUpTo(c, g, k) = Prefix(c) \o Seg(c, g, 0, k)
    BY <2>3, <2>7, ConcatEmptySeq
  <2> QED
    BY <2>1, <2>8
<1> QED
  BY <1>2, <1>3

\* The invariant of texts gives the right ends.
LEMMA TextInvGivesEnds == TextInv => EndsRight
<1> SUFFICES ASSUME TextInv PROVE EndsRight
  OBVIOUS
<1>0. Types
  BY DEF TextInv, ServingInv
<1>1. CompleteWhenDone /\ EndChecksNeverFail
  BY DEF TextInv, CallRight, After, Quiet, CompleteWhenDone, EndChecksNeverFail
<1>2. ASSUME NEW c \in Quiet, pc[c] = "run", NEW j \in DOMAIN stream[c],
             stream[c][j].kind = "chunk", ~stream[c][j].chunk.final
      PROVE  Len(stream[c][j].chunk.outputs) = req[c].n
  <2>1. c \in Calls /\ Running(c)
    BY <1>2 DEF TextInv, CallRight, Quiet
  <2>2. j \in 1..Len(stream[c])
    BY <1>0, <2>1, LenProperties DEF Types, StreamTypes
  <2> QED
    BY <1>2, <2>1, <2>2 DEF Running, Shape, ItemRight, IsChunk
<1>3. ASSUME NEW c \in Quiet, pc[c] = "run", NEW queue, queue = IF kind = "async" THEN outputs ELSE syncQueue,
             queue # <<>>, kind = "async" => streamers[Head(queue).id] = c
      PROVE  ~PutRaises(c, Head(queue).outs)
  <2>1. Coming # <<>> /\ Head(Coming) = Head(queue)
    <3>1. CASE kind = "async"
      BY <1>0, <1>3, <3>1, ComingTypes DEF Types, QueueTypes
    <3>2. CASE kind # "async"
      <4>1. syncQueue \in Seq(Batches) /\ outputs \in Seq(Batches) /\ syncQueue # <<>> /\ queue = syncQueue
        BY <1>0, <1>3, <3>2 DEF Types, QueueTypes
      <4>2. syncQueue \o outputs # <<>> /\ Head(syncQueue \o outputs) = Head(syncQueue)
        BY <4>1
      <4> QED
        BY <4>1, <4>2 DEF Coming
    <3> QED
      BY <3>1, <3>2
  <2>2. kind \in {"async", "sync"}
    BY <1>0, ScenarioFacts DEF Types
  <2> QED
    BY <1>3, <2>1, <2>2, PutHolds
<1> QED
  BY <1>1, <1>2, <1>3 DEF EndsRight, AssertionsHold

\* A step adds no text behind the end of a generation of c.
NothingBehind(c) ==
  \A g \in Gens(c) : answer[c].reasons[g] # NoReason /\ pc'[c] = "run" /\ ~made[c][g].again =>
                       answer'[c].texts[g] = answer[c].texts[g]

\* Only a start and the consumer change an answer.
LEMMA TextsStayEnded ==
  ASSUME TextInv, Next, NEW c \in Quiet \cap (Calls \ disturbed')
  PROVE  NothingBehind(c)
<1>0. Types /\ ServingInv /\ c \in Calls /\ TextInv'
  BY TextsKept DEF TextInv, ServingInv
<1>1. answer = [e \in Calls |-> answer[e]] /\ pc = [e \in Calls |-> pc[e]]
  BY <1>0 DEF Types, AnswerTypes, PcTypes
<1>2. UNCHANGED answer => NothingBehind(c)
  BY DEF NothingBehind
<1>3. ASSUME NEW d \in Calls, Start(d) PROVE NothingBehind(c)
  <2>1. CASE /\ pc' = [pc EXCEPT ![d] = "echo"]
             /\ answer' = [answer EXCEPT ![d] = Accumulate(@, EchoResponse(req[d]))]
    <3>1. CASE c = d
      <4>1. pc'[c] = "echo"
        BY <1>1, <2>1, <3>1
      <4> QED
        BY <4>1 DEF NothingBehind
    <3>2. CASE c # d
      <4>1. answer'[c] = answer[c]
        BY <1>0, <1>1, <2>1, <3>2
      <4> QED
        BY <4>1 DEF NothingBehind
    <3> QED
      BY <3>1, <3>2
  <2> QED
    BY <1>2, <1>3, <2>1 DEF Start
<1>4. ASSUME NEW d \in Calls, Consume(d) PROVE NothingBehind(c)
  <2>1. CASE c = d
    <3>1. Types'
      BY <1>0 DEF TextInv, ServingInv
    <3>2. pc'[c] = "run" => EndStays(c)
      BY <1>4, <2>1, <3>1, ConsumeSelf
    <3> QED
      BY <3>2 DEF EndStays, NothingBehind
  <2>2. CASE c # d
    <3>1. \/ UNCHANGED answer
          \/ \E a : answer' = [answer EXCEPT ![d] = a]
      BY <1>4 DEF Consume, ConsumeChunk, ConsumeStop, ConsumeError
    <3>2. answer'[c] = answer[c]
      BY <1>0, <1>1, <2>2, <3>1
    <3> QED
      BY <3>2 DEF NothingBehind
  <2> QED
    BY <2>1, <2>2
<1>5. ASSUME NEW d \in Calls, Refuse(d) \/ AfterEcho(d) \/ SyncGet(d) PROVE UNCHANGED answer
  BY <1>5 DEF Refuse, AfterEcho, SyncGet
<1>6. ASSUME NEW d \in Calls, Cancel(d) \/ Drop(d) \/ Close(d) PROVE UNCHANGED answer
  BY <1>6 DEF Cancel, Drop, Close
<1>7. CASE Engine \/ Deliver
  BY <1>2, <1>7 DEF Engine, Deliver, callVars
<1>8. CASE (\E i \in Ids : Abort(i)) \/ Reset \/ Terminate
  BY <1>2, <1>8 DEF Abort, Reset, Terminate, callVars
<1> QED
  BY <1>2, <1>3, <1>4, <1>5, <1>6, <1>7, <1>8 DEF Next

\* For any calls, ids, requests and scheduling of the callbacks: the text of an
\* undisturbed call is its own tokens from the first on, without gaps and in order,
\* whatever the text streamers hold back and whatever other calls do
\* (TextStreamer.put, the zip by generation, the skipped empty deltas), unless the
\* end of the generation was sent twice.
THEOREM TextsAreInOrder == Spec => []TextsInOrder
<1>1. Init => TextInv
  BY InitTexts
<1>2. TextInv /\ [Next]_vars => TextInv'
  BY TextsKept
<1>3. TextInv => TextsInOrder
  BY TextInvGivesOrder
<1> QED
  BY <1>1, <1>2, <1>3, PTL DEF Spec

\* An undisturbed call that ends normally has all its tokens, an end for every
\* generation and its usage; the assertions on the outputs and the finish reasons in
\* _handle_chat_completion and _handle_completion never fail, and no text streamer
\* gets tokens after finish.
THEOREM CallsEndRight == Spec => []EndsRight
<1>1. Init => TextInv
  BY InitTexts
<1>2. TextInv /\ [Next]_vars => TextInv'
  BY TextsKept
<1>3. TextInv => EndsRight
  BY TextInvGivesEnds
<1> QED
  BY <1>1, <1>2, <1>3, PTL DEF Spec

\* No text follows for a generation that was reported as ended: TextStreamer.finish
\* flushes what is held with the output that ends it.  A second end, sent by a reset
\* or an abort, is left out: finish then gives the same text again.
THEOREM NothingAfterTheEnd == Spec => NoTextAfterEnd
<1>1. Init => TextInv
  BY InitTexts
<1>2. TextInv /\ [Next]_vars => TextInv'
  BY TextsKept
<1>3. TextInv /\ [Next]_vars =>
        [\A c \in Quiet \cap (Calls \ disturbed') : \A g \in Gens(c) :
           answer[c].reasons[g] # NoReason /\ pc'[c] = "run" /\ ~made[c][g].again =>
             answer'[c].texts[g] = answer[c].texts[g]]_vars
  BY TextsStayEnded DEF NothingBehind
<1> QED
  BY <1>1, <1>2, <1>3, PTL DEF Spec, NoTextAfterEnd
=============================================================================
