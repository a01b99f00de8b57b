SPECIFICATION Spec
CONSTANTS
    Trees <- MCTrees
    Paths <- MCPaths
    JoinPredicates <- Chains
    Requests = {"find"}
    MaxDocuments = 2
    MaxSteps = 1
    Names = {"a", "b"}
INVARIANT AbsoluteStepsGoOneLevel
\* A request ends when it is answered.
CHECK_DEADLOCK FALSE
