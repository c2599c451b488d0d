-------------------------- MODULE MCPaymentSystem --------------------------
EXTENDS PaymentSystem, TLC

\* One operation, submitted for two banks of the recipient.
Payment(b) == [op |-> "o1", terms |-> "t1", bik |-> b]
TwoPayments == {Payment("b1"), Payment("b2")}
OnePayment == {Payment("b1")}

BankIds == [o \in Ops |-> "x1"]

\* Any call of transition().
Domain == INSTANCE PaymentDomain WITH Events <- EventIds
SystemCalls == [to : Domain!Status, source : Domain!Sources, ext : Domain!MaybeExt]

Symmetry == Permutations(Threads) \cup Permutations(Handlers)
=============================================================================
