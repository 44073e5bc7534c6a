CONSTANT MaxChildren = 3
SPECIFICATION Spec
INVARIANTS
    AggregateDominates
    AggregateMatchesWhenFirstCounts
