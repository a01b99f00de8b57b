SPECIFICATION Spec
CONSTANTS
    Texts <- MCTexts
    ONE = 100
    PRINTED = 10
    Names = {"a", ""}
    Keys = {"k", "l", "id"}
    Numbers = {100, 114, 170}
INVARIANT StepPredicatesArrive
\* A request ends printed, rejected by the parser or with the server.
CHECK_DEADLOCK FALSE
