SPECIFICATION Spec
CONSTANTS
    Ops = {"o1"}
    Terms = {"t1"}
    Events = {"e1", "e2"}
    ExtIds = {"x1"}
    NoExt = NoExt
    NoEvent = NoEvent
    NoRecord = NoRecord
    NoCallback = NoCallback
    NoPayment = NoPayment
    NoDecision = NoDecision
    Callbacks <- OneOpCallbacks
    Calls <- ServiceCalls
    Payments <- TwoBankPayments
    ExtIdOf <- BankIds
    Resolutions = {"executed"}
    BankStatuses = {"accepted", "rejected"}
    Workers = {w1, w2}
    AdapterMayRaise = TRUE
    LookupSupported = TRUE
INVARIANTS
    SameOperationSameEnvelope
