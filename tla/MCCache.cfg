CONSTANTS
    JobIds <- MCJobIds
    StageIds <- MCStageIds
    JobLoc <- MCJobLoc
    Writers = {w1, w2}
    MaxSaves = 2
SPECIFICATION Spec
INVARIANTS
    TypeOK
