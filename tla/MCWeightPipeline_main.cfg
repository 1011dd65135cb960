SPECIFICATION Spec
CONSTANT Configs <- MainConfigs
INVARIANTS ModelComplete HeldIsShard LoadedOnce LoadsWhenAllowed LoadingProceeds
CHECK_DEADLOCK FALSE
