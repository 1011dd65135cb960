----------------------------- MODULE RadixTree -----------------------------
(***************************************************************************)
(* PagedRadixTreeImpl (cpp/serve/radix_tree.cc): a radix tree whose nodes  *)
(* are pages of bounded capacity, taken from a pool.  The tree is a record *)
(*                                                                         *)
(*   pages     the pages in use: parent, children (the sibling list, first *)
(*             child first), tokens and the ids of the sequences that end  *)
(*             at the end of the page (the linked list of SequenceIDNode)  *)
(*   seq2page  the page at which a sequence ends                           *)
(*   free      how many indices free_page_indices_ holds, of total pages   *)
(*                                                                         *)
(* The circular buffer of a page is not modelled: its offset is never      *)
(* changed from 0.  Definitions marked "fault" are wrong on purpose.       *)
(***************************************************************************)
EXTENDS Integers, Sequences, FiniteSets, SequencesExt

CONSTANTS
    SeqIds, Extensions, MaxSeqLen,    \* as in SequenceStore
    Queries,        \* the prefixes to look up
    PageCapacity,   \* kPageCapacity_
    PageBlockSize,  \* kPageBlockSize_
    MaxLost         \* bound on the pages that are not free when the tree is reset

ASSUME CapacityAssumption == PageCapacity \in Nat \ {0} /\ PageBlockSize \in Nat \ {0}

VARIABLE tree

Root == -1      \* the root page: no tokens, capacity 0, not from the pool
NoPage == -2

EmptyPage(parent) == [parent |-> parent, kids |-> <<>>, toks |-> <<>>, ids |-> <<>>]
Capacity(p) == IF p = Root THEN 0 ELSE PageCapacity

Put(f, k, v) == [x \in DOMAIN f \cup {k} |-> IF x = k THEN v ELSE f[x]]
Erase(f, k)  == [x \in DOMAIN f \ {k} |-> f[x]]

----------------------------------------------------------------------------
(* The page pool                                                           *)

\* A new block of free pages.
NewPageBlock(t) ==
    [t EXCEPT !.free = @ + PageBlockSize, !.total = @ + PageBlockSize]

\* A page under a parent; the children of the parent are the caller's business.
\* Which of the free pages it is does not matter: the one with the least index.
Allocate(t, parent) ==
    LET t1 == IF t.free = 0 THEN NewPageBlock(t) ELSE t
        p  == CHOOSE x \in 0..(t1.total - 1) :
                  x \notin DOMAIN t1.pages /\ \A y \in 0..(x - 1) : y \in DOMAIN t1.pages
    IN  [page |-> p, tree |-> [t1 EXCEPT !.free = @ - 1,
                                         !.pages = Put(@, p, EmptyPage(parent))]]

\* fault
ErasePageOnly(t, p) == [t EXCEPT !.pages = Erase(@, p)]
FreePage(t, p) == [t EXCEPT !.free = @ + 1, !.pages = Erase(@, p)]

EmptyTree == [pages |-> Put([x \in {} |-> x], Root, EmptyPage(NoPage)),
              seq2page |-> [s \in {} |-> Root], free |-> 0, total |-> 0]

----------------------------------------------------------------------------
(* RadixPage                                                               *)

\* AddSequence of a page, and the assignment of seq2page that follows it.
EndAt(t, s, p) ==
    [t EXCEPT !.pages[p].ids = <<s>> \o @, !.seq2page = Put(@, s, p)]
PopSequence(t, s) ==
    LET other(x) == x # s
    IN  [t EXCEPT !.pages[t.seq2page[s]].ids = SelectSeq(@, other)]

InsertChild(t, p, c) ==
    [t EXCEPT !.pages[p].kids = <<c>> \o @, !.pages[c].parent = p]
RemoveChild(t, c) ==
    LET other(x) == x # c
    IN  [t EXCEPT !.pages[t.pages[c].parent].kids = SelectSeq(@, other)]

\* The page is leaf and no sequence ends there.
Unused(t, p) == t.pages[p].ids = <<>> /\ t.pages[p].kids = <<>>
\* It is removed from its parent and goes back to the pool.
DropPage(t, p) == FreePage(RemoveChild(t, p), p)

Mergeable(t, p) ==
    LET pg == t.pages[p]
    IN  /\ pg.ids = <<>> /\ Len(pg.kids) = 1
        /\ Len(pg.toks) + Len(t.pages[pg.kids[1]].toks) <= Capacity(p)

\* Pages qs get a new parent; sequences ss a new page.
Reparent(t, qs, p) ==
    [t EXCEPT !.pages = [q \in DOMAIN @ |-> IF q \in Range(qs) THEN [@[q] EXCEPT !.parent = p]
                                            ELSE @[q]]]
MoveSequences(t, ss, p) ==
    [t EXCEPT !.seq2page = [s \in DOMAIN @ |-> IF s \in Range(ss) THEN p ELSE @[s]]]

\* The only child of p is merged into p.
MergePage(t, p) ==
    LET c  == t.pages[p].kids[1]
        pg == t.pages[c]
        t1 == MoveSequences(Reparent(t, pg.kids, p), pg.ids, p)
    IN  FreePage([t1 EXCEPT !.pages[p].toks = @ \o pg.toks, !.pages[p].kids = pg.kids,
                            !.pages[p].ids = pg.ids], c)
MergeIfPossible(t, p) == IF Mergeable(t, p) THEN MergePage(t, p) ELSE t

\* Page p is cut after n tokens: a new child takes the rest, the children and the
\* sequences.  The child may then merge with its own child, and what is left of
\* p with its parent, which is then the page returned.
SplitPage(t, p, n) ==
    LET pg == t.pages[p]
        a  == Allocate(t, p)
        c  == a.page
        t1 == MoveSequences(Reparent(a.tree, pg.kids, c), pg.ids, c)
        t2 == [t1 EXCEPT !.pages[c].toks = SubSeq(pg.toks, n + 1, Len(pg.toks)),
                         !.pages[c].kids = pg.kids, !.pages[c].ids = pg.ids,
                         !.pages[p].toks = SubSeq(pg.toks, 1, n),
                         !.pages[p].kids = <<c>>, !.pages[p].ids = <<>>]
        t3 == MergeIfPossible(t2, c)
    IN  IF pg.parent # NoPage /\ Mergeable(t3, pg.parent)
        THEN [page |-> pg.parent, tree |-> MergePage(t3, pg.parent)]
        ELSE [page |-> p, tree |-> t3]

----------------------------------------------------------------------------
(* PagedRadixTreeImpl                                                      *)

RECURSIVE Path(_, _), PageAt(_, _, _, _), MatchFrom(_, _, _, _), PagesBelow(_, _),
          AppendPages(_, _, _), DropUnused(_, _), RollBackPages(_, _, _)

\* The tokens from the root to the end of a page.
Path(t, p) ==
    IF p = NoPage THEN <<>> ELSE Path(t, t.pages[p].parent) \o t.pages[p].toks
GetSequence(t, s) == Path(t, t.seq2page[s])
GetSequenceLength(t, s) == Len(GetSequence(t, s))

\* MatchPrefix of a page: how many tokens of the page the given ones start with.
MatchPage(toks, given) ==
    LET n == IF Len(toks) < Len(given) THEN Len(toks) ELSE Len(given)
    IN  CHOOSE k \in 0..n : /\ \A i \in 1..k : toks[i] = given[i]
                            /\ k = n \/ toks[k + 1] # given[k + 1]

\* MatchSequence from page p, with the first n tokens already matched.
MatchFrom(t, p, toks, n) ==
    LET kids == t.pages[p].kids
        hits == {i \in DOMAIN kids : t.pages[kids[i]].toks[1] = toks[n + 1]}
        c == kids[Min(hits)]
        k == MatchPage(t.pages[c].toks, SubSeq(toks, n + 1, Len(toks)))
    IN  IF n = Len(toks) \/ hits = {}
        THEN [page |-> p, offset |-> n, inPage |-> Len(t.pages[p].toks)]
        ELSE IF k < Len(t.pages[c].toks)
        THEN [page |-> c, offset |-> n + k, inPage |-> k]
        ELSE MatchFrom(t, c, toks, n + k)
MatchSequence(t, p, toks) == MatchFrom(t, p, toks, 0)

\* FindAllChildSequence: the sequences that end at or below a page.
PagesBelow(t, p) == {p} \cup UNION {PagesBelow(t, c) : c \in Range(t.pages[p].kids)}
FindAllChildSequence(t, p) == UNION {Range(t.pages[q].ids) : q \in PagesBelow(t, p)}

\* fault
MatchLocalOnly(t, toks) ==
    LET r == MatchSequence(t, Root, toks)
    IN  [offset |-> r.offset, ids |-> IF r.offset = 0 THEN {} ELSE Range(t.pages[r.page].ids)]
MatchPrefix(t, toks) ==
    LET r == MatchSequence(t, Root, toks)
    IN  [offset |-> r.offset,
         ids |-> IF r.offset = 0 THEN {} ELSE FindAllChildSequence(t, r.page)]

Has(s) == s \in DOMAIN tree.seq2page

AddSequence(s) == ~Has(s) /\ tree' = EndAt(tree, s, Root)

\* The page in which position k lies, and where in the page, upwards from page p
\* whose end is position n.
PageAt(t, p, n, k) ==
    LET len == Len(t.pages[p].toks)
    IN  IF k > n - len THEN [page |-> p, at |-> k + len - n]
        ELSE PageAt(t, t.pages[p].parent, n - len, k)

ForkSequence(s, parent, k) ==
    /\ ~Has(s) /\ Has(parent) /\ k \in 1..GetSequenceLength(tree, parent)
    /\ LET r == PageAt(tree, tree.seq2page[parent], GetSequenceLength(tree, parent), k)
           c == IF r.at < Len(tree.pages[r.page].toks) THEN SplitPage(tree, r.page, r.at)
                ELSE [page |-> r.page, tree |-> tree]
       IN  tree' = EndAt(c.tree, s, c.page)

\* The tokens fill new pages under page p.
AppendPages(t, p, toks) ==
    IF toks = <<>> THEN [page |-> p, tree |-> t]
    ELSE LET n == IF Len(toks) < PageCapacity THEN Len(toks) ELSE PageCapacity
             a == Allocate(t, p)
             t1 == [InsertChild(a.tree, p, a.page) EXCEPT
                       !.pages[a.page].toks = SubSeq(toks, 1, n)]
         IN  AppendPages(t1, a.page, SubSeq(toks, n + 1, Len(toks)))

\* The sequence leaves its page, the tokens are matched from there, the page is
\* split where they differ, and the rest goes into the page, if it is a leaf,
\* and into new pages.  The page the sequence came from may then be merged.
ExtendSequence(s, toks) ==
    /\ Has(s) /\ GetSequenceLength(tree, s) + Len(toks) <= MaxSeqLen
    /\ LET original == tree.seq2page[s]
           t1 == PopSequence(tree, s)
           r  == MatchSequence(t1, original, toks)
           sp == IF r.inPage < Len(t1.pages[r.page].toks) THEN SplitPage(t1, r.page, r.inPage)
                 ELSE [page |-> r.page, tree |-> t1]
           p  == sp.page
           rest == SubSeq(toks, r.offset + 1, Len(toks))
           room == IF Unused(sp.tree, p) THEN Capacity(p) - Len(sp.tree.pages[p].toks) ELSE 0
           n  == IF Len(rest) < room THEN Len(rest) ELSE room
           t2 == [sp.tree EXCEPT !.pages[p].toks = @ \o SubSeq(rest, 1, n)]
           a  == AppendPages(t2, p, SubSeq(rest, n + 1, Len(rest)))
       IN  tree' = MergeIfPossible(EndAt(a.tree, s, a.page), original)

\* Unused pages are dropped upwards from p; the last page left may be merged.
DropUnused(t, p) ==
    IF p # Root /\ Unused(t, p) THEN DropUnused(DropPage(t, p), t.pages[p].parent)
    ELSE MergeIfPossible(t, p)

Removed(t, s) ==
    DropUnused([PopSequence(t, s) EXCEPT !.seq2page = Erase(@, s)], t.seq2page[s])
RemoveSequence(s) == Has(s) /\ tree' = Removed(tree, s)

\* Whole pages are rolled back upwards from p, the unused ones dropped.
RollBackPages(t, p, n) ==
    IF Len(t.pages[p].toks) <= n
    THEN RollBackPages(IF Unused(t, p) THEN DropPage(t, p) ELSE t,
                       t.pages[p].parent, n - Len(t.pages[p].toks))
    ELSE [page |-> p, tree |-> t, n |-> n]

\* fault
CutPageInPlace(t, p, n) ==
    [page |-> p, tree |-> [t EXCEPT !.pages[p].toks = SubSeq(@, 1, Len(@) - n)]]
\* The last n tokens of page p are cut off: in the page if nothing else uses it.
CutPage(t, p, n) ==
    IF Unused(t, p)
    THEN [page |-> p, tree |-> [t EXCEPT !.pages[p].toks = SubSeq(@, 1, Len(@) - n)]]
    ELSE IF n > 0 THEN SplitPage(t, p, Len(t.pages[p].toks) - n)
    ELSE [page |-> p, tree |-> t]

RollBackSequence(s, n) ==
    /\ Has(s) /\ n \in 1..GetSequenceLength(tree, s)
    /\ IF n = GetSequenceLength(tree, s)
       THEN tree' = EndAt(Removed(tree, s), s, Root)
       ELSE LET r == RollBackPages(PopSequence(tree, s), tree.seq2page[s], n)
                c == CutPage(r.tree, r.page, r.n)
            IN  tree' = EndAt(c.tree, s, c.page)

\* reserve() does not change the size of free_page_indices_: of the indices that
\* Reset of the pool assigns only as many count as were free before, and the
\* pages that were in use are lost.
Reset ==
    /\ tree.total - tree.free <= MaxLost
    /\ tree' = [EmptyTree EXCEPT !.free = tree.free, !.total = tree.total]

Init == tree = NewPageBlock(EmptyTree)

Next ==
    \/ \E s \in SeqIds :
          \/ AddSequence(s) \/ RemoveSequence(s)
          \/ \E p \in SeqIds, k \in 1..MaxSeqLen : ForkSequence(s, p, k)
          \/ \E toks \in Extensions : ExtendSequence(s, toks)
          \/ \E n \in 1..MaxSeqLen : RollBackSequence(s, n)
    \/ Reset

vars == tree
Spec == Init /\ [][Next]_vars

----------------------------------------------------------------------------
(* Properties                                                              *)

PoolPages == DOMAIN tree.pages \ {Root}

\* The shape that the algorithms rely on: parents and children agree, siblings
\* start with different tokens, every page from the pool holds between one and
\* PageCapacity tokens, a sequence ends in every leaf, and seq2page is where the
\* sequence's id is listed.
WellFormed ==
    /\ \A p \in PoolPages :
          /\ Len(tree.pages[p].toks) \in 1..PageCapacity
          /\ tree.pages[p].parent \in DOMAIN tree.pages
          /\ p \in Range(tree.pages[tree.pages[p].parent].kids)
          /\ tree.pages[p].kids = <<>> => tree.pages[p].ids # <<>>
    /\ tree.pages[Root].toks = <<>>
    /\ \A p \in DOMAIN tree.pages :
          /\ Range(tree.pages[p].kids) \subseteq {c \in PoolPages : tree.pages[c].parent = p}
          /\ \A i, j \in DOMAIN tree.pages[p].kids :
                i # j => tree.pages[tree.pages[p].kids[i]].toks[1]
                            # tree.pages[tree.pages[p].kids[j]].toks[1]
          /\ IsInjective(tree.pages[p].ids)
          /\ Range(tree.pages[p].ids) = {s \in DOMAIN tree.seq2page : tree.seq2page[s] = p}
    /\ PagesBelow(tree, Root) = DOMAIN tree.pages

\* What the tree stores, as a map.
Stored == [s \in DOMAIN tree.seq2page |-> GetSequence(tree, s)]

\* The tree implements a map from ids to token sequences: splitting, merging and
\* dropping pages for one sequence never changes another.
Store == INSTANCE SequenceStore WITH seqs <- Stored
ImplementsStore == Store!Spec

\* MatchPrefix finds the longest prefix that any sequence starts with, and all
\* the sequences that start with it.
MatchIsLongest ==
    \A q \in Queries :
        LET r == MatchPrefix(tree, q)
        IN  /\ r.offset = Store!MatchedLen(Stored, q)
            /\ r.offset > 0 => r.ids = Store!MatchedSequences(Stored, q)

\* Pages that are neither in the tree nor free.
Lost(t) == t.total - t.free - (Cardinality(DOMAIN t.pages) - 1)

\* Only Reset loses pages.
NoPageLost == [][Reset \/ Lost(tree') = Lost(tree)]_vars

\* Pages are where they belong: in a well-formed tree, or free.
PagesAccounted == []WellFormed /\ NoPageLost

=============================================================================
