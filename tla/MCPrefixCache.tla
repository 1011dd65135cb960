--------------------------- MODULE MCPrefixCache ---------------------------
(* Small instances of PrefixCacheClient.                                   *)
EXTENDS PrefixCacheClient

\* Prompts of one token repeated, each a prefix of the other: what the tokens are
\* does not matter to who owns which sequence.
UniformPrompts == [m \in {FALSE} |-> {<<1, 1>>, <<1, 1, 1>>}]

\* Long prompts without Eagle: a recycled sequence of eleven tokens is reused for the
\* other prompt after rolling back one token, which needs more than nine tenths in
\* common.  With Eagle a short one, forked or reused where it is in the cache.
Long(n) == [i \in 1..n |-> 1]
LongPrompts == [m \in BOOLEAN |-> IF m THEN {<<1, 1, 2>>} ELSE {Long(11), Long(10) \o <<2>>}]

\* prefix_cache_max_num_recycling_seqs = -1: recycling sequences stay until
\* memory is needed.
Unbounded == -1

EntrySymmetry == Permutations(Entries)
=============================================================================
