SPECIFICATION MCLayoutSpec
CONSTANTS
    INDEX_INITIAL_CAPACITY = 3
    EXPAND_THRESHOLD = 1
    ExpandCounts = {2}
    DocumentSizes = {2, 3}
    ToastSizes = {2}
    TOAST_HEADER = 1
    GrowSizes = {1}
    MaxIndexCount = 7
    HEADER_SIZE = 1
    INDEX_SIZE = 4
    REQ_SIZE = 8
INVARIANTS
    LayoutTypeOK
    BlocksTileTheFile
PROPERTIES
    ExpansionEnds
CHECK_DEADLOCK FALSE
