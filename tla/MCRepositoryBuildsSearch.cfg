CONSTANTS
    BuildIds <- MCBuildIds
    Shape <- MCShape
    Matching <- MCMatching
    MaxTime = 2
    Height = 3
SPECIFICATION Spec
PROPERTY
    SearchFindsShownMatch
CHECK_DEADLOCK FALSE
