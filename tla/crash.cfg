SPECIFICATION CrashSpec
CONSTANTS
    INDEX_INITIAL_CAPACITY = 4
    EXPAND_THRESHOLD = 1
    ExpandCounts = {2}
    DocumentSizes = {1, 2}
    ToastSizes = {}
    TOAST_HEADER = 1
    GrowSizes = {}
    MaxIndexCount = 4
    MaxSessions = 6
    MaxFreeNodes = 4
INVARIANTS
    NewIndexesStayUnused
CHECK_DEADLOCK FALSE
