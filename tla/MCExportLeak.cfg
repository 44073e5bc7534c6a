CONSTANTS
    Nodes <- MCNodes
    Children <- MCChildren
    Jobs <- MCJobs
    NoRow = NoRow
SPECIFICATION Spec
INVARIANT
    NoFileLeftOpenOnError
