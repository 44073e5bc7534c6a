CONSTANTS
    Providers <- MCProviders
    BuildIds <- MCBuildIds
    Limit <- MCLimit
SPECIFICATION Spec
INVARIANTS
    TypeOK
    ResultReflectsProviders
    RootCauseReported
    NilMeansComplete
PROPERTIES
    EventuallyReturns
    NoNotifierLeak
    RefinesSpec
