SPECIFICATION FairSpec
CONSTANTS
    Trees <- MCTrees
    Paths <- MCPaths
    JoinPredicates <- Chains
    Requests = {"add", "delete", "update", "find", "join", "parent"}
    MaxDocuments = 3
    MaxSteps = 2
    Names = {"a", "b"}
INVARIANTS
    TypeOK
    ResultsKnowParents
    FindsWhatStepsReach
    JoinReturnsChildren
PROPERTIES
    SearchEnds
\* A request ends when it is answered.
CHECK_DEADLOCK FALSE
