SPECIFICATION Spec
CONSTANTS
    Ops = {"o1", "o2"}
    Terms = {"t1"}
    Events = {"e1", "e2"}
    ExtIds = {"x1", "x2"}
    NoExt = NoExt
    NoEvent = NoEvent
    NoRecord = NoRecord
    NoCallback = NoCallback
    NoPayment = NoPayment
    NoDecision = NoDecision
    Callbacks <- TwoOpCallbacks
    Calls <- ServiceCalls
    Payments <- TwoOpPayments
    ExtIdOf <- BankIds
    Resolutions = {"executed", "rejected", "accepted", "sending", "ready_to_send"}
    BankStatuses = {"accepted"}
    Workers = {w1, w2}
    AdapterMayRaise = FALSE
    LookupSupported = TRUE
SYMMETRY Symmetry
INVARIANTS
    ConflictIsNeverSilent
PROPERTIES
    RepositorySpec
    LifecycleSpec
    ManualDecisionOnlyInReview
