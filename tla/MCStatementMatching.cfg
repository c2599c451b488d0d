SPECIFICATION Spec
CONSTANTS
    Ops = {"o1", "o2", "o3"}
    NoOp = NoOp
    NoExt = NoExt
    NoField = NoField
    Pending = Pending
    Similar <- SimilarPurposes
    KnownPayments <- MCKnownPayments
    Rows <- MCRows
    Lists <- MCLists
\* a call of _calculate returns once
CHECK_DEADLOCK FALSE
INVARIANTS
    ContextNeedsAccountAndAmount
    ContextNeverBeatsIdentity
    OrderDoesNotMatter
