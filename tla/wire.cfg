SPECIFICATION FairSpec
CONSTANTS
    Clients = {c1, c2}
    NoClient = NoClient
    BACKLOG = 0
    RequestParts = {2}
    AnswerParts = {2}
    RestParts = {1}
    OtherSizes = {0, 1, 3}
INVARIANTS
    TypeOK
    OnlyOwnWorkIsUnsaved
    FramingIsKept
PROPERTIES
    ImplementsService
    ClientsEnd
    WorkIsSaved
\* All clients have ended, or the server has been killed.
CHECK_DEADLOCK FALSE
