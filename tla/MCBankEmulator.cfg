SPECIFICATION EmulatorSpec
CONSTANTS
    Ops = {"o1"}
    Payments <- MCPayments
    ExtIdOf <- MCExtIds
    Modes = {"normal", "response_lost_after_commit", "delayed_response", "callback_before_response", "conflicting_callback"}
    DesiredStatuses = {"accepted", "executed"}
    SettableStatuses = {"executed"}
    ChosenIds = {}
    Handlers = {h1, h2}
    MaxLate = 1
    NoRow = NoRow
    NoPayment = NoPayment
SYMMETRY Symmetry
INVARIANTS
    EmulatorTypeOK
    AnsweredIsCommitted
    CallbackTellsTheLedger
    TravellerIsAccountedFor
