SPECIFICATION Spec
CONSTANTS
    MaxRecycling = 1
    AllowNonTailForks = FALSE
    NoWindow = NoWindow
    Entries = {e1, e2}
    Prompts <- UniformPrompts
    Tokens = {1}
    Window = NoWindow
    Preempts = TRUE
    ChunkSizes = {2}
    MaxBatch = 2
    MaxCommitted = 2
    MaxIds = 3
    MaxCounter = 2
SYMMETRY EntrySymmetry
INVARIANTS TypeOK RecyclingSound OwnershipSound
PROPERTY KvSteps
CHECK_DEADLOCK FALSE
