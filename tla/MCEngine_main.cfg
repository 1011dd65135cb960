CONSTANTS
    Requests = {1, 2, 3}
    Configs <- TightAndPair
SPECIFICATION Spec
INVARIANTS StateAgrees ChecksHold KvMatches StepFits
PROPERTIES NoOvertaking Served
CHECK_DEADLOCK FALSE
