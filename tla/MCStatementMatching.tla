------------------------ MODULE MCStatementMatching ------------------------
(* Every row over small fields against every list of up to two payments,   *)
(* lists with a payment twice, alone or around another one.                *)
EXTENDS StatementMatching

SimilarPurposes == {<<"u1", "u1">>}

Known(o, d, x, m, u) ==
    [op |-> o, doc |-> d, ext |-> x, account |-> "a1", amount |-> m, date |-> "d1",
     currency |-> "RUB", purpose |-> u]

Referenced ==
    {Known(o, o, x, m, u) : o \in {"o1", "o2"}, x \in {"x1", NoExt}, m \in {"m1", "m2"},
                            u \in {"u1", "u2"}}

\* A payment whose document reference is empty.
Unreferenced == Known("o1", NoOp, NoExt, "m2", "u2")

MCKnownPayments == Referenced \cup {Unreferenced}

MCRows ==
    [op : {"o1", "o3", NoOp}, doc : {"o1", "o2", NoOp}, ext : {"x1", "x2", NoExt},
     account : {"a1", NoField}, amount : {"m1", "m2", NoField}, date : {"d1", NoField},
     currency : {"RUB", "USD"}, purpose : {"u1", "u3"}]

MCLists ==
    {<<>>} \cup {<<p>> : p \in MCKnownPayments}
    \cup {<<p, q>> : p \in {k \in MCKnownPayments : k.op = "o1"},
                     q \in {k \in MCKnownPayments : k.op = "o2"}}
    \cup {<<p, p>> : p \in {k \in MCKnownPayments : k.ext = NoExt}}
    \cup {<<p, q, p>> : p \in {k \in Referenced : k.op = "o1" /\ k.ext = NoExt},
                        q \in {k \in Referenced : k.op = "o2"}}
=============================================================================
