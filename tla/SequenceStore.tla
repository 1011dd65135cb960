--------------------------- MODULE SequenceStore ---------------------------
(***************************************************************************)
(* What a paged radix tree promises its user, the prefix cache: a map from *)
(* sequence ids to token sequences.  Module RadixTree implements it.       *)
(***************************************************************************)
EXTENDS Integers, Sequences

CONSTANTS
    SeqIds,     \* the sequence ids
    Extensions,   \* the token sequences a sequence can be extended with
    MaxSeqLen   \* bound on the length of a sequence

VARIABLE seqs

Present == DOMAIN seqs
With(s, toks) == [x \in Present \cup {s} |-> IF x = s THEN toks ELSE seqs[x]]

Init == seqs = [s \in {} |-> <<>>]

AddSequence(s) == s \notin Present /\ seqs' = With(s, <<>>)

ForkSequence(s, p, k) ==
    /\ s \notin Present /\ p \in Present /\ k \in 1..Len(seqs[p])
    /\ seqs' = With(s, SubSeq(seqs[p], 1, k))

ExtendSequence(s, toks) ==
    /\ s \in Present /\ Len(seqs[s]) + Len(toks) <= MaxSeqLen
    /\ seqs' = With(s, seqs[s] \o toks)

RollBackSequence(s, n) ==
    /\ s \in Present /\ n \in 1..Len(seqs[s])
    /\ seqs' = With(s, SubSeq(seqs[s], 1, Len(seqs[s]) - n))

RemoveSequence(s) ==
    /\ s \in Present
    /\ seqs' = [x \in Present \ {s} |-> seqs[x]]

Reset == seqs' = [s \in {} |-> <<>>]

Next ==
    \/ \E s \in SeqIds :
          \/ AddSequence(s) \/ RemoveSequence(s)
          \/ \E p \in SeqIds, k \in 1..MaxSeqLen : ForkSequence(s, p, k)
          \/ \E toks \in Extensions : ExtendSequence(s, toks)
          \/ \E n \in 1..MaxSeqLen : RollBackSequence(s, n)
    \/ Reset

Spec == Init /\ [][Next]_seqs

\* The reference for MatchPrefix: the longest prefix of toks that some sequence
\* starts with, and all the sequences that start with it.
StartsWith(s, toks, n) == Len(s) >= n /\ SubSeq(s, 1, n) = SubSeq(toks, 1, n)
MatchedLen(store, toks) ==
    CHOOSE n \in 0..Len(toks) :
        /\ n = 0 \/ \E s \in DOMAIN store : StartsWith(store[s], toks, n)
        /\ \A k \in (n + 1)..Len(toks), s \in DOMAIN store : ~StartsWith(store[s], toks, k)
MatchedSequences(store, toks) ==
    {s \in DOMAIN store : StartsWith(store[s], toks, MatchedLen(store, toks))}
=============================================================================
