-------------------------- MODULE MCPaymentService --------------------------
EXTENDS PaymentService, TLC

Callback(e, o, s, x) == [event |-> e, op |-> o, status |-> s, ext |-> x]
Payment(o, t, b) == [op |-> o, terms |-> t, bik |-> b]

\* One operation, submitted by two callers who disagree on its terms; the
\* event id e1 is reused for another payload, e2 belongs to a status that is
\* legal only after acceptance.
OneOpPayments == {Payment("o1", "t1", "b1"), Payment("o1", "t2", "b1")}
OneOpCallbacks ==
    {Callback("e1", "o1", "accepted", "x1"),
     Callback("e1", "o1", "rejected", "x1"),
     Callback("e2", "o1", "executed", NoExt)}

\* Two operations that share the event id e1.
TwoOpPayments == {Payment("o1", "t1", "b1"), Payment("o2", "t1", "b1")}
TwoOpCallbacks ==
    {Callback("e1", "o1", "accepted", "x1"),
     Callback("e1", "o2", "rejected", "x2"),
     Callback("e2", "o1", "executed", NoExt)}

\* One operation submitted twice, with another recipient bank.
TwoBankPayments == {Payment("o1", "t1", "b1"), Payment("o1", "t1", "b2")}

\* One operation and one set of terms.
OneTermPayments == {Payment("o1", "t1", "b1")}

BankIds == [o \in Ops |-> IF o = "o1" THEN "x1" ELSE "x2"]

Symmetry == Permutations(Workers)
=============================================================================
