------------------------- MODULE MCStatementLedger -------------------------
(* Rows that meet in the ledger: one transaction with two amounts, with    *)
(* and without its operation id, one row regenerated under another row_id, *)
(* and the same row passed as a mapping.                                   *)
EXTENDS StatementLedger

Known(o, x) ==
    [op |-> o, doc |-> o, ext |-> x, account |-> "a1", amount |-> "m1", date |-> "d1",
     currency |-> "RUB", purpose |-> "u1"]

Row(form, id, o, x, m) ==
    [form |-> form, row_id |-> id, source |-> "bank_file", reference |-> "s1",
     op |-> o, doc |-> NoOp, ext |-> x, account |-> "a1", amount |-> m, date |-> "d1",
     currency |-> "RUB", purpose |-> "u1"]

MCKnownPayments == {Known("o1", NoExt), Known("o2", "x1")}

MCRows ==
    {Row("typed", "r1", "o1", "x1", "m1"),
     Row("typed", "r1", "o1", "x1", "m2"),
     Row("typed", "r1", NoOp, "x1", "m2"),
     Row("typed", "r1", NoOp, NoExt, "m1"),
     Row("typed", "r2", NoOp, NoExt, "m1"),
     Row("mapping", "r1", NoOp, NoExt, "m1")}

\* Alone each payment is the best; together they are equal for the rows
\* without an operation id.
MCLists ==
    {<<>>, <<Known("o1", NoExt)>>, <<Known("o1", NoExt), Known("o2", "x1")>>}

SimilarPurposes == {<<"u1", "u1">>}
=============================================================================
