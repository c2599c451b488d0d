SPECIFICATION Spec
CONSTANTS
    Ops = {"o1", "o2"}
    NoOp = NoOp
    NoExt = NoExt
    NoField = NoField
    NoEntry = NoEntry
    Similar <- SimilarPurposes
    KnownPayments <- MCKnownPayments
    Rows <- MCRows
    Lists <- MCLists
INVARIANTS
    LedgerTypeOK
    DisputedWhenTwoPayloads
    OneDecision
    MatchesHaveEvidence
PROPERTIES
    DecisionsSpec
