SPECIFICATION Spec
CONSTANT None = None
INVARIANTS PodIsComplete UtilizationExact RollsOnlyForEffect
