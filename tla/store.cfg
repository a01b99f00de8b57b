SPECIFICATION SessionSpec
CONSTANTS
    INDEX_INITIAL_CAPACITY = 4
    EXPAND_THRESHOLD = 1
    ExpandCounts = {2}
    DocumentSizes = {3}
    ToastSizes = {1}
    TOAST_HEADER = 1
    GrowSizes = {1}
    MaxIndexCount = 6
    MaxNewSaved = 1
INVARIANTS
    TypeOK
    FreeListWellFormed
    CreateFindsIndex
    AbortsOnlyWhenExhausted
    ToastLinksNameLiveToasts
    ToastLinksAreUnique
    FreeIndexesAreUnused
    NoIndexLost
    LinksNameLiveDocuments
    LinksAreUnique
    NoDocumentLost
    TreeIsWhole
PROPERTIES
    ImplementsTree
    BlocksKeepCapacity
    LiveBlocksKeepOwner
    RequestsEnd
\* The server stops for good when it dereferences NULL.
CHECK_DEADLOCK FALSE
