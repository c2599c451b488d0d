SPECIFICATION RepositorySpec
CONSTANTS
    Ops = {"o1", "o2"}
    Terms = {"t1", "t2"}
    Events = {"e1", "e2", "e3"}
    ExtIds = {"x1", "x2"}
    NoExt = NoExt
    NoEvent = NoEvent
    NoRecord = NoRecord
    NoCallback = NoCallback
    Callbacks <- MCCallbacks
    Calls <- MCCalls
INVARIANTS
    RepositoryTypeOK
    ClaimedOnce
    InboxAgrees
    EventMovesOnce
PROPERTIES
    HistoryKept
