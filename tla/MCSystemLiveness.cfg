SPECIFICATION FairSystemSpec
CONSTANTS
    Ops = {"o1"}
    Terms = {"t1"}
    ExtIds = {"x1"}
    Payments <- OnePayment
    ExtIdOf <- BankIds
    Calls <- SystemCalls
    Modes = {"delayed_response", "callback_before_response"}
    DesiredStatuses = {"accepted", "rejected"}
    SettableStatuses = {"executed"}
    ChosenIds = {}
    Handlers = {h1, h2}
    Threads = {w1}
    MaxLate = 1
    LookupSupported = TRUE
    NoRow = NoRow
    NoRequest = NoRequest
    NoPayment = NoPayment
    NoExt = NoExt
    NoEvent = NoEvent
    NoRecord = NoRecord
    NoCallback = NoCallback
    NoDecision = NoDecision
INVARIANTS
    StatusCameFromBank
PROPERTIES
    HandlersEnd
    EmulatorRequestsEnd
    StrandedClaimIsClassified
    UnknownIsResolved
