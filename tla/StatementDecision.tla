------------------------- MODULE StatementDecision -------------------------
(***************************************************************************)
(* What the reconciliation ledger promises for each statement row it can   *)
(* identify (docs/adr/001-durable-reconciliation-ledger.md): one decision, *)
(* made once, that can only be taken back by a dispute, which is final.    *)
(***************************************************************************)
CONSTANTS
    Identities,
    Outcomes,    \* what can be decided about a row
    Open,        \* nothing decided yet
    Disputed     \* one identity came with two payloads

VARIABLE decision

Init == decision = [i \in Identities |-> Open]

Decide(i, outcome) ==
    /\ decision[i] = Open
    /\ decision' = [decision EXCEPT ![i] = outcome]

Dispute(i) ==
    /\ decision[i] # Open
    /\ decision' = [decision EXCEPT ![i] = Disputed]

Next == \E i \in Identities :
            (\E outcome \in Outcomes : Decide(i, outcome)) \/ Dispute(i)

Spec == Init /\ [][Next]_decision
=============================================================================
