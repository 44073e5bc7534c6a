CONSTANTS
    BuildIds <- MCBuildIds
    Shape <- MCShape
    Matching <- MCMatching
    MaxTime = 2
    Height = 3
SPECIFICATION Spec
INVARIANTS
    TypeOK
    ViewIsCurrent
PROPERTIES
    WindowIsFull
CHECK_DEADLOCK FALSE
