------------------------- MODULE StatementMatching -------------------------
(***************************************************************************)
(* One call of Reconciler._calculate: a row, the caller's payments, and    *)
(* the operation the row is matched to. What the weights and the threshold *)
(* of the policy mean together is stated here of the result.               *)
(***************************************************************************)
EXTENDS MatchingPolicy, Functions

CONSTANT Pending    \* _calculate has not returned yet

ASSUME PendingAssumption == Pending \notin Ops \cup {NoOp}

VARIABLES row, list, result

vars == <<row, list, result>>

Init == row \in Rows /\ list \in Lists /\ result = Pending

Calculate ==
    /\ result = Pending
    /\ result' = Matched(row, list)
    /\ UNCHANGED <<row, list>>

Spec == Init /\ [][Calculate]_vars

-----------------------------------------------------------------------------
Deterministic(p) ==
    SameExternalId(row, p) \/ SameOperation(row, p) \/ SameDocument(row, p)

IsMatched == result \notin {Pending, NoOp}

\* The places of the list that hold the matched operation.
MatchedPlaces == {i \in DOMAIN list : list[i].op = result}

(* A match on context alone agrees on the recipient's account and on the   *)
(* amount: of the five pieces of context no others reach the threshold.    *)
ContextNeedsAccountAndAmount ==
    IsMatched =>
        \E i \in MatchedPlaces :
            \/ Deterministic(list[i])
            \/ row.account = list[i].account /\ row.amount = list[i].amount

(* Context never beats identity: a match on context alone means that no    *)
(* payment of the list has the row's external id or operation id, although *)
(* several weak agreements add up.                                         *)
ContextNeverBeatsIdentity ==
    IsMatched =>
        \E i \in MatchedPlaces :
            \/ Deterministic(list[i])
            \/ \A j \in DOMAIN list :
                    ~SameExternalId(row, list[j]) /\ ~SameOperation(row, list[j])

(* The order in which the caller lists its payments does not matter: an    *)
(* equal best score does not become an arbitrary choice                    *)
(* (docs/reconciliation.md:5).                                             *)
OrderDoesNotMatter ==
    result # Pending =>
        \A f \in Bijection(DOMAIN list, DOMAIN list) :
            result = Matched(row, [i \in DOMAIN list |-> list[f[i]]])
=============================================================================
