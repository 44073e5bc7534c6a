CONSTANT MaxChildren = 3
SPECIFICATION Spec
INVARIANT ExcusedFailureNeverDominates
