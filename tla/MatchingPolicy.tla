--------------------------- MODULE MatchingPolicy ---------------------------
(***************************************************************************)
(* How reconciliation.py scores a row of a bank statement against the      *)
(* payments the caller knows, and when it accepts a match: the default     *)
(* ReconciliationPolicy, _score and _calculate. Pure functions of a row    *)
(* and a list of payments.                                                 *)
(*                                                                         *)
(* Rows and payments carry only what the score looks at; a document        *)
(* reference and the operation id derived from it are one value of Ops.    *)
(* Nothing validates a payment's reference: it may be empty, and then it   *)
(* equals the empty one of a row.                                          *)
(* Whether two purposes are similar enough (SequenceMatcher against the    *)
(* threshold) is the relation Similar. Reasons are wording and left out.   *)
(***************************************************************************)
EXTENDS Integers, Sequences

CONSTANTS
    Ops,             \* operation ids, or the document references behind them
    NoOp,            \* an empty operation id or document reference; no match
    NoExt,           \* an empty external bank id
    NoField,         \* an empty account, amount, date or currency of a row
    Similar,         \* pairs of purposes: the row's, and a payment's like it
    KnownPayments,   \* payments that callers may pass to match()
    Rows,            \* rows that statements may contain
    Lists            \* lists of payments passed to match()

ASSUME NoOpAssumption == NoOp \notin Ops
ASSUME KnownPaymentsAssumption ==
    \A p \in KnownPayments :
        /\ DOMAIN p = {"op", "doc", "ext", "account", "amount", "date", "currency", "purpose"}
        /\ p.op \in Ops
        /\ p.doc \in {p.op, NoOp}
ASSUME RowsAssumption ==
    \A r \in Rows :
        {"op", "doc", "ext", "account", "amount", "date", "currency", "purpose"}
            \subseteq DOMAIN r
ASSUME ListsAssumption == Lists \subseteq Seq(KnownPayments)

-----------------------------------------------------------------------------
\* Mutant: the operation id weighs as little as a piece of context.
PolicyLowIdentity ==
    [external_id |-> 100, operation_id |-> 25, document_ref |-> 70,
     account |-> 25, amount |-> 25, date |-> 10, currency |-> 5, purpose |-> 10,
     minimum |-> 60]

\* Mutant: the threshold is ten points lower.
PolicyLowThreshold ==
    [external_id |-> 100, operation_id |-> 95, document_ref |-> 70,
     account |-> 25, amount |-> 25, date |-> 10, currency |-> 5, purpose |-> 10,
     minimum |-> 50]

(* ReconciliationPolicy.                                                   *)
Policy ==
    [external_id |-> 100, operation_id |-> 95, document_ref |-> 70,
     account |-> 25, amount |-> 25, date |-> 10, currency |-> 5, purpose |-> 10,
     minimum |-> 60]

SameExternalId(row, p) == row.ext # NoExt /\ row.ext = p.ext
SameOperation(row, p) == row.op = p.op
SameDocument(row, p) == row.doc = p.doc

Weight(agrees, weight) == IF agrees THEN weight ELSE 0

(* _score. An amount that is missing or no number agrees with none.        *)
Score(row, p) ==
    Weight(SameExternalId(row, p), Policy.external_id)
    + Weight(SameOperation(row, p), Policy.operation_id)
    + Weight(SameDocument(row, p), Policy.document_ref)
    + Weight(row.account = p.account, Policy.account)
    + Weight(row.amount = p.amount, Policy.amount)
    + Weight(row.date = p.date, Policy.date)
    + Weight(row.currency = p.currency, Policy.currency)
    + Weight(<<row.purpose, p.purpose>> \in Similar, Policy.purpose)

\* Mutant: every payment above the threshold, not only the best.
CandidatesAbove(row, list) ==
    {i \in DOMAIN list : Score(row, list[i]) >= Policy.minimum}

(* _calculate: the places of the list with the best score, if that is      *)
(* confident enough.                                                       *)
Candidates(row, list) ==
    {i \in DOMAIN list :
        /\ Score(row, list[i]) >= Policy.minimum
        /\ \A j \in DOMAIN list : Score(row, list[j]) <= Score(row, list[i])}

\* Mutant: among equals the first is taken.
MatchedFirst(row, list) ==
    IF Candidates(row, list) # {}
    THEN list[CHOOSE i \in Candidates(row, list) :
                \A j \in Candidates(row, list) : i <= j].op
    ELSE NoOp

(* The operation a row is matched to: a single candidate's, or none. A     *)
(* payment listed twice is two candidates.                                 *)
Matched(row, list) ==
    IF \E i \in DOMAIN list : Candidates(row, list) = {i}
    THEN list[CHOOSE i \in DOMAIN list : Candidates(row, list) = {i}].op
    ELSE NoOp
=============================================================================
