SPECIFICATION Spec
CONSTANTS
    MaxRecycling <- Unbounded
    AllowNonTailForks = TRUE
    NoWindow = NoWindow
    Entries = {e1, e2}
    Prompts <- LongPrompts
    Tokens = {1, 2}
    Window = NoWindow
    Preempts = FALSE
    ChunkSizes = {13}
    MaxBatch = 2
    MaxCommitted = 2
    MaxIds = 3
    MaxCounter = 2
SYMMETRY EntrySymmetry
INVARIANTS PrefillContinuesKv CacheMatchesKv
PROPERTY MatchLeavesInput
CHECK_DEADLOCK FALSE
