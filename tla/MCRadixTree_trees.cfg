CONSTANTS
    SeqIds = {s1, s2, s3}
    Tokens = {t1, t2}
    MaxSuffix = 3
    MaxSeqLen = 3
    MaxQuery = 3
    PageCapacity = 2
    PageBlockSize = 3
    MaxLost = 1
    Extensions <- SuffixSet
    Queries <- QuerySet
SPECIFICATION Spec
SYMMETRY SeqSymmetry
VIEW Shape
INVARIANT MatchIsLongest
PROPERTIES PagesAccounted ImplementsStore
