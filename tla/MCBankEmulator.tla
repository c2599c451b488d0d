--------------------------- MODULE MCBankEmulator ---------------------------
EXTENDS BankEmulator, TLC

\* One operation sent with two envelopes.
MCPayments == {[op |-> "o1", terms |-> "t1"], [op |-> "o1", terms |-> "t2"]}
MCExtIds == [o \in Ops |-> "x1"]
Symmetry == Permutations(Handlers)
=============================================================================
