-------------------------- MODULE StatementLedger --------------------------
(***************************************************************************)
(* The durable reconciliation ledger: Reconciler.match (reconciliation.py) *)
(* over persist_reconciliation (repository.py), used by any number of      *)
(* matchers in any processes, each with a list of payments of its own.     *)
(*                                                                         *)
(* match() handles the rows of a statement one after the other, and of     *)
(* each row everything before persist_reconciliation is a pure function of *)
(* the row and the caller's list; so one row is one atomic step, a         *)
(* statement is a sequence of steps, and a crash or a fault between or     *)
(* inside them is a sequence that ends early. Re-importing a statement is  *)
(* presenting its rows again.                                              *)
(*                                                                         *)
(* A row's hash covers all its fields, so the row itself stands for it; a  *)
(* typed row (BankStatementRow) and a mapping are hashed under different   *)
(* keys, which the field form tells apart. Score, metadata and timestamps  *)
(* are left out; of the reason an answer keeps whether it is a dispute.    *)
(*                                                                         *)
(* A payment in an answer is told apart by its operation: of several with  *)
(* one operation match() returns the first of the list.                    *)
(***************************************************************************)
EXTENDS MatchingPolicy

CONSTANT NoEntry    \* no row in reconciliation_entries

ASSUME LedgerRowsAssumption ==
    \A r \in Rows :
        /\ DOMAIN r = {"form", "row_id", "source", "reference", "op", "doc", "ext",
                       "account", "amount", "date", "currency", "purpose"}
        /\ r.form \in {"typed", "mapping"}

(* stable_identity, and the same for mappings in _row: the bank's id of    *)
(* the transaction if there is one, else the business fields without       *)
(* row_id. The fallback has other keys for a mapping than for a typed row. *)
Identity(row) ==
    IF row.ext # NoExt
    THEN [source |-> row.source, ext |-> row.ext]
    ELSE [form |-> row.form, source |-> row.source, reference |-> row.reference,
          op |-> row.op, doc |-> row.doc, account |-> row.account, amount |-> row.amount,
          date |-> row.date, currency |-> row.currency, purpose |-> row.purpose]

Identities == {Identity(r) : r \in Rows}

\* A decision: the matched operation, or NoOp for manual_check; disputed is
\* the result that a payload conflict leaves behind.
Decision == [matched : Ops \cup {NoOp}, disputed : BOOLEAN]

Disputed == [matched |-> NoOp, disputed |-> TRUE]

Entry == [payload : Rows, result : Decision, column : Ops \cup {NoOp},
          resolution : {"automatic", "manual_check", "payload_conflict"}]

ASSUME NoEntryAssumption == NoEntry \notin Entry \cup Decision

\* What match() returns for a row: payment is NoOp for None.
PublicResults ==
    [row : Rows, payment : Ops \cup {NoOp}, status : {"matched", "manual_check"},
     disputed : BOOLEAN, replayed : BOOLEAN]

VARIABLES
    ledger,      \* reconciliation_entries, by row_identity
    presented,   \* history: the rows that were ever processed
    answers      \* history: what match() returned to its callers

vars == <<ledger, presented, answers>>

(* The columns of an entry tell the same: matched_operation_id is the      *)
(* result's, and the resolution says how it came about.                    *)
LedgerTypeOK ==
    /\ ledger \in [Identities -> Entry \cup {NoEntry}]
    /\ presented \in SUBSET Rows
    /\ answers \subseteq PublicResults
    /\ \A i \in Identities : ledger[i] # NoEntry =>
        /\ ledger[i].column = ledger[i].result.matched
        /\ ledger[i].resolution = "automatic" <=> ledger[i].column # NoOp
        /\ ledger[i].resolution = "payload_conflict" <=> ledger[i].result = Disputed
        /\ ledger[i].result.disputed => ledger[i].result = Disputed

Init ==
    /\ ledger = [i \in Identities |-> NoEntry]
    /\ presented = {}
    /\ answers = {}

Calculated(row, list) == [matched |-> Matched(row, list), disputed |-> FALSE]

Resolution(result) == IF result.matched # NoOp THEN "automatic" ELSE "manual_check"

StatusOf(result) == IF result.matched # NoOp THEN "matched" ELSE "manual_check"

(* _public_result: the stored operation itself is not returned. The caller *)
(* is given the payment of its own list that has this operation, or None.  *)
PublicResult(row, result, list, replayed) ==
    [row |-> row,
     payment |-> IF \E i \in DOMAIN list : list[i].op = result.matched
                 THEN result.matched ELSE NoOp,
     status |-> StatusOf(result), disputed |-> result.disputed, replayed |-> replayed]

Answer(row, result, list, replayed) ==
    /\ presented' = presented \cup {row}
    /\ answers' = answers \cup {PublicResult(row, result, list, replayed)}

-----------------------------------------------------------------------------
(* persist_reconciliation, after _calculate: a new row is stored, the same *)
(* row is answered from the ledger, another payload disputes the entry.    *)
PersistNew(row, list) ==
    LET result == Calculated(row, list)
    IN  /\ ledger[Identity(row)] = NoEntry
        /\ ledger' = [ledger EXCEPT ![Identity(row)] =
                        [payload |-> row, result |-> result, column |-> result.matched,
                         resolution |-> Resolution(result)]]
        /\ Answer(row, result, list, FALSE)

\* Mutant: a replay is answered with what the caller's own list gives.
ReplayRecalculated(row, list) ==
    /\ ledger[Identity(row)] # NoEntry
    /\ ledger[Identity(row)].payload = row
    /\ Answer(row, Calculated(row, list), list, TRUE)
    /\ UNCHANGED ledger

\* Mutant: the payload hash is not compared.
ReplayUnchecked(row, list) ==
    /\ ledger[Identity(row)] # NoEntry
    /\ Answer(row, ledger[Identity(row)].result, list, TRUE)
    /\ UNCHANGED ledger

Replay(row, list) ==
    /\ ledger[Identity(row)] # NoEntry
    /\ ledger[Identity(row)].payload = row
    /\ Answer(row, ledger[Identity(row)].result, list, TRUE)
    /\ UNCHANGED ledger

\* Mutant: the newer payload replaces the first, for a person to look at.
ConflictReplaces(row, list) ==
    LET result == [matched |-> NoOp, disputed |-> FALSE]
    IN  /\ ledger[Identity(row)] # NoEntry
        /\ ledger[Identity(row)].payload # row
        /\ ledger' = [ledger EXCEPT ![Identity(row)] =
                        [payload |-> row, result |-> result, column |-> NoOp,
                         resolution |-> "manual_check"]]
        /\ Answer(row, result, list, FALSE)

\* Mutant: the match of the first payload stays in its column.
ConflictKeepsColumn(row, list) ==
    /\ ledger[Identity(row)] # NoEntry
    /\ ledger[Identity(row)].payload # row
    /\ ledger' = [ledger EXCEPT ![Identity(row)] =
                    [payload |-> ledger[Identity(row)].payload, result |-> Disputed,
                     column |-> ledger[Identity(row)].column,
                     resolution |-> "payload_conflict"]]
    /\ Answer(row, Disputed, list, FALSE)

\* Mutant: the conflict is answered but not recorded.
ConflictNotRecorded(row, list) ==
    /\ ledger[Identity(row)] # NoEntry
    /\ ledger[Identity(row)].payload # row
    /\ Answer(row, Disputed, list, FALSE)
    /\ UNCHANGED ledger

\* The first payload's hash stays: a later replay of it is told the dispute.
PayloadConflict(row, list) ==
    /\ ledger[Identity(row)] # NoEntry
    /\ ledger[Identity(row)].payload # row
    /\ ledger' = [ledger EXCEPT ![Identity(row)] =
                    [payload |-> ledger[Identity(row)].payload, result |-> Disputed,
                     column |-> NoOp, resolution |-> "payload_conflict"]]
    /\ Answer(row, Disputed, list, FALSE)

Match(row, list) ==
    PersistNew(row, list) \/ Replay(row, list) \/ PayloadConflict(row, list)

Next == \E row \in Rows, list \in Lists : Match(row, list)

Spec == Init /\ [][Next]_vars

-----------------------------------------------------------------------------
(* No payload is accepted in silence: an entry is disputed exactly when    *)
(* two payloads of its identity were presented, in whatever order, by      *)
(* whichever matchers.                                                     *)
DisputedWhenTwoPayloads ==
    \A i \in Identities :
        (ledger[i] # NoEntry /\ ledger[i].resolution = "payload_conflict")
            <=> \E r, s \in presented : Identity(r) = i /\ Identity(s) = i /\ r # s

(* One decision: of all the callers that were told no dispute about a row  *)
(* one has made the decision, and was given the payment it matched. The    *)
(* others are told that they repeat it, with the same status and the same  *)
(* payment - or none, if their own lists lack it, but never another.       *)
OneDecision ==
    \A b \in answers : ~b.disputed =>
        \E a \in answers :
            /\ ~a.disputed /\ ~a.replayed
            /\ a.status = "matched" <=> a.payment # NoOp
            /\ a.row = b.row /\ a.status = b.status /\ b.payment \in {a.payment, NoOp}
            /\ \A c \in answers :
                    (Identity(c.row) = Identity(b.row) /\ ~c.disputed /\ ~c.replayed) => c = a

(* No caller is told a match that nothing in its own row speaks for: some  *)
(* known payment agrees with the row in an identifier, or in account and   *)
(* amount, and no payment of another operation is returned, though the     *)
(* decision may be another caller's, made long before for a row of the     *)
(* same identity.                                                          *)
Evidence(row, p) ==
    \/ SameExternalId(row, p) \/ SameOperation(row, p) \/ SameDocument(row, p)
    \/ row.account = p.account /\ row.amount = p.amount

MatchesHaveEvidence ==
    \A a \in answers : a.status = "matched" =>
        \E p \in KnownPayments : Evidence(a.row, p) /\ a.payment \in {p.op, NoOp}

(* "A physical row number can change when a statement is regenerated"      *)
(* (domain.py:191): a row that differs in nothing else is a replay.        *)
RegeneratedRowIsReplay ==
    \A r \in presented :
        (\A s \in presented :
            Identity(s) = Identity(r) => [s EXCEPT !.row_id = r.row_id] = r)
        => ledger[Identity(r)].resolution # "payload_conflict"

-----------------------------------------------------------------------------
(* The ledger keeps the abstract promise.                                  *)
Decided == [i \in Identities |-> IF ledger[i] = NoEntry THEN NoEntry ELSE ledger[i].result]

StatementDecisions ==
    INSTANCE StatementDecision
        WITH Outcomes <- [matched : Ops \cup {NoOp}, disputed : {FALSE}],
             Open <- NoEntry, decision <- Decided

DecisionsSpec == StatementDecisions!Spec
=============================================================================
