SPECIFICATION Spec
CONSTANTS
    Requests = {r1, r2}
    Streamed = {r1}
    NumServers = 3
    NumGpus <- Gpus
    Modes = {"disagg", "round-robin"}
    Balances = {0, 5, 10}
    PromptLen = 3
    Capacity = 1
    MaxChunks = 2
    MaxPolls = 1
    MaxPreempts = 1
    MaxFaults = 1
INVARIANTS LoadCounted KvMovedRight ReservationsOwned AnswerComplete NoStrayServers
PROPERTY EverythingEnds
CHECK_DEADLOCK FALSE
