CONSTANTS
    BuildIds <- MCBuildIds
    Shape <- MCShape
    Matching <- MCMatching
    MaxTime = 2
    Height = 3
SPECIFICATION Spec
INVARIANT
    NoPanic
CHECK_DEADLOCK FALSE
