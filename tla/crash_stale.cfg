SPECIFICATION CrashSpec
CONSTANTS
    INDEX_INITIAL_CAPACITY = 5
    EXPAND_THRESHOLD = 1
    ExpandCounts = {2}
    DocumentSizes = {1}
    ToastSizes = {}
    TOAST_HEADER = 1
    GrowSizes = {}
    MaxIndexCount = 5
    MaxSessions = 3
    MaxFreeNodes = 4
INVARIANTS
    OfferedIndexesAreReusable

CHECK_DEADLOCK FALSE
