CONSTANTS
    Requests = {1, 2}
    Configs <- AllModes
SPECIFICATION Spec
INVARIANT SpeculationSound
