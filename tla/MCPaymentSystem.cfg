SPECIFICATION SystemSpec
CONSTANTS
    Ops = {"o1"}
    Terms = {"t1"}
    ExtIds = {"x1"}
    Payments <- TwoPayments
    ExtIdOf <- BankIds
    Calls <- SystemCalls
    Modes = {"normal", "response_lost_after_commit", "delayed_response", "callback_before_response", "duplicate_callback", "conflicting_callback"}
    DesiredStatuses = {"accepted", "rejected"}
    SettableStatuses = {}
    ChosenIds = {}
    Handlers = {h1}
    Threads = {w1, w2}
    MaxLate = 2
    LookupSupported = TRUE
    NoRow = NoRow
    NoRequest = NoRequest
    NoPayment = NoPayment
    NoExt = NoExt
    NoEvent = NoEvent
    NoRecord = NoRecord
    NoCallback = NoCallback
    NoDecision = NoDecision
SYMMETRY Symmetry
INVARIANTS
    SystemTypeOK
    BankHoldsWhatWasSent
    AcknowledgedIsProcessed
    AnsweredIsUnderWay
PROPERTIES
    ServiceSpec
