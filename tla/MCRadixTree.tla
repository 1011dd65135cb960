---------------------------- MODULE MCRadixTree ----------------------------
(* Small instances of RadixTree.                                           *)
EXTENDS RadixTree, TLC

CONSTANTS Tokens, MaxSuffix, MaxQuery

TokenSeqs(n) == UNION {[1..k -> Tokens] : k \in 0..n}
SuffixSet == TokenSeqs(MaxSuffix)
QuerySet == TokenSeqs(MaxQuery)

\* The tree up to the names of its pages, the order of its linked lists and the
\* number of free pages, on which no operation's result depends: when none is
\* free there is a new block.
Shape ==
    <<{<<Path(tree, p), Len(tree.pages[p].toks), Range(tree.pages[p].ids)>> : p \in DOMAIN tree.pages},
      Lost(tree)>>
\* No operation treats one id or one token differently from another.
SeqSymmetry == Permutations(SeqIds) \cup Permutations(Tokens)
=============================================================================
