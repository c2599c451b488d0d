--------------------------- MODULE MatchingProofs ---------------------------
(***************************************************************************)
(* What the policy's weights mean, for every row and every list: the       *)
(* invariants of StatementMatching, proved from the weights by arithmetic. *)
(***************************************************************************)
EXTENDS StatementMatching, TLAPS

(* The parts of a score that are not deterministic add up to at most 75,   *)
(* and to less than the threshold without both account and amount.         *)
LEMMA ContextScore ==
    ASSUME NEW r, NEW p,
           ~SameExternalId(r, p), ~SameOperation(r, p), ~SameDocument(r, p)
    PROVE  /\ Score(r, p) <= 75
           /\ Score(r, p) >= 60 => r.account = p.account /\ r.amount = p.amount
  BY DEF Score, Weight, Policy

(* The external id or the operation id alone is worth more than that.      *)
LEMMA IdentityScore ==
    ASSUME NEW r, NEW p, SameExternalId(r, p) \/ SameOperation(r, p)
    PROVE  Score(r, p) >= 95
  BY DEF Score, Weight, Policy

LEMMA ScoreIsInteger == ASSUME NEW r, NEW p PROVE Score(r, p) \in Int
  BY DEF Score, Weight, Policy

(* A match is a single best candidate.                                     *)
LEMMA MatchedIsBest ==
    ASSUME NEW r, NEW l, Matched(r, l) # NoOp
    PROVE  \E i \in DOMAIN l :
               /\ l[i].op = Matched(r, l)
               /\ Score(r, l[i]) >= 60
               /\ \A j \in DOMAIN l : Score(r, l[j]) <= Score(r, l[i])
<1> DEFINE k == CHOOSE i \in DOMAIN l : Candidates(r, l) = {i}
<1>1. \E i \in DOMAIN l : Candidates(r, l) = {i}
  BY DEF Matched
<1>2. k \in DOMAIN l /\ Candidates(r, l) = {k}
  BY <1>1
<1>3. l[k].op = Matched(r, l)
  BY <1>1 DEF Matched
<1>4. k \in Candidates(r, l)
  BY <1>2
<1> QED
  BY <1>2, <1>3, <1>4 DEF Candidates, Policy

Inv == result # Pending => result = Matched(row, list)

LEMMA ResultIsMatched == Spec => []Inv
<1>1. Init => Inv
  BY DEF Init, Inv
<1>2. Inv /\ [Calculate]_vars => Inv'
  BY DEF Inv, Calculate, vars
<1> QED
  BY <1>1, <1>2, PTL DEF Spec

(* Every match on context alone agrees on account and amount.              *)
THEOREM ContextIsAccountAndAmount == Spec => []ContextNeedsAccountAndAmount
<1>1. Inv => ContextNeedsAccountAndAmount
  <2> SUFFICES ASSUME Inv, IsMatched
               PROVE  \E i \in MatchedPlaces :
                        \/ Deterministic(list[i])
                        \/ row.account = list[i].account /\ row.amount = list[i].amount
    BY DEF ContextNeedsAccountAndAmount
  <2>1. result = Matched(row, list) /\ Matched(row, list) # NoOp
    BY DEF Inv, IsMatched
  <2>2. PICK i \in DOMAIN list :
            list[i].op = Matched(row, list) /\ Score(row, list[i]) >= 60
    BY <2>1, MatchedIsBest
  <2>3. i \in MatchedPlaces
    BY <2>1, <2>2 DEF MatchedPlaces
  <2>4. Deterministic(list[i])
            \/ (row.account = list[i].account /\ row.amount = list[i].amount)
    BY <2>2, ContextScore DEF Deterministic
  <2> QED
    BY <2>3, <2>4
<1> QED
  BY <1>1, ResultIsMatched, PTL

(* A match on context alone means that no listed payment has the row's     *)
(* external id or operation id.                                            *)
THEOREM IdentityWins == Spec => []ContextNeverBeatsIdentity
<1>1. Inv => ContextNeverBeatsIdentity
  <2> SUFFICES ASSUME Inv, IsMatched
               PROVE  \E i \in MatchedPlaces :
                        \/ Deterministic(list[i])
                        \/ \A j \in DOMAIN list :
                             ~SameExternalId(row, list[j]) /\ ~SameOperation(row, list[j])
    BY DEF ContextNeverBeatsIdentity
  <2>1. result = Matched(row, list) /\ Matched(row, list) # NoOp
    BY DEF Inv, IsMatched
  <2>2. PICK i \in DOMAIN list :
            /\ list[i].op = Matched(row, list)
            /\ \A j \in DOMAIN list : Score(row, list[j]) <= Score(row, list[i])
    BY <2>1, MatchedIsBest
  <2>3. i \in MatchedPlaces
    BY <2>1, <2>2 DEF MatchedPlaces
  <2>4. ASSUME ~Deterministic(list[i]), NEW j \in DOMAIN list,
               SameExternalId(row, list[j]) \/ SameOperation(row, list[j])
        PROVE  FALSE
    <3>1. Score(row, list[i]) <= 75
      BY <2>4, ContextScore DEF Deterministic
    <3>2. Score(row, list[j]) >= 95
      BY <2>4, IdentityScore
    <3> QED
      BY <2>2, <3>1, <3>2, ScoreIsInteger
  <2> QED
    BY <2>3, <2>4
<1> QED
  BY <1>1, ResultIsMatched, PTL
-----------------------------------------------------------------------------
(* A list in another order has the same candidates, in other places.       *)
LEMMA ReorderedCandidates ==
    ASSUME NEW r, NEW l, NEW f \in Bijection(DOMAIN l, DOMAIN l), NEW i \in DOMAIN l
    PROVE  LET m == [k \in DOMAIN l |-> l[f[k]]]
           IN  f[i] \in Candidates(r, l) <=> i \in Candidates(r, m)
<1> DEFINE m == [k \in DOMAIN l |-> l[f[k]]]
<1>1. f \in [DOMAIN l -> DOMAIN l] /\ \A j \in DOMAIN l : \E k \in DOMAIN l : f[k] = j
  BY DEF Bijection, Injection, Surjection
<1>2. DOMAIN m = DOMAIN l /\ \A k \in DOMAIN l : m[k] = l[f[k]] /\ f[k] \in DOMAIN l
  BY <1>1
<1>3. (\A j \in DOMAIN l : Score(r, l[j]) <= Score(r, l[f[i]]))
        <=> (\A k \in DOMAIN m : Score(r, m[k]) <= Score(r, m[i]))
  BY <1>1, <1>2, Zenon
<1> QED
  BY <1>2, <1>3, Zenon DEF Candidates

LEMMA ReorderedMatch ==
    ASSUME NEW r, NEW l, NEW f \in Bijection(DOMAIN l, DOMAIN l)
    PROVE  Matched(r, l) = Matched(r, [k \in DOMAIN l |-> l[f[k]]])
<1> DEFINE m == [k \in DOMAIN l |-> l[f[k]]]
<1>1. /\ f \in [DOMAIN l -> DOMAIN l]
      /\ \A a, b \in DOMAIN l : f[a] = f[b] => a = b
      /\ \A j \in DOMAIN l : \E k \in DOMAIN l : f[k] = j
  BY DEF Bijection, Injection, Surjection, IsInjective
<1>2. DOMAIN m = DOMAIN l /\ \A k \in DOMAIN l : m[k] = l[f[k]]
  OBVIOUS
<1>3. \A k \in DOMAIN l : Candidates(r, l) = {f[k]} <=> Candidates(r, m) = {k}
  <2>1. \A i \in DOMAIN l : f[i] \in Candidates(r, l) <=> i \in Candidates(r, m)
    BY ReorderedCandidates
  <2>2. Candidates(r, l) \subseteq DOMAIN l /\ Candidates(r, m) \subseteq DOMAIN l
    BY <1>2 DEF Candidates
  <2> HIDE DEF m
  <2> QED
    BY <1>1, <2>1, <2>2
<1> HIDE DEF m
<1>4. CASE \E i \in DOMAIN l : Candidates(r, l) = {i}
  <2>1. PICK i \in DOMAIN l : Candidates(r, l) = {i}
    BY <1>4
  <2>2. PICK k \in DOMAIN l : f[k] = i
    BY <1>1
  <2>3. Candidates(r, m) = {k}
    BY <1>3, <2>1, <2>2
  <2>4. (CHOOSE j \in DOMAIN l : Candidates(r, l) = {j}) = i
    BY <2>1
  <2>5. (CHOOSE j \in DOMAIN m : Candidates(r, m) = {j}) = k
    BY <1>2, <2>3
  <2>6. Matched(r, l) = l[i].op
    BY <1>4, <2>4 DEF Matched
  <2>7. Matched(r, m) = m[k].op
    BY <1>2, <2>3, <2>5 DEF Matched
  <2>8. Matched(r, l) = Matched(r, m)
    BY <1>2, <2>2, <2>6, <2>7
  <2> QED
    BY <2>8 DEF m
<1>5. CASE ~\E i \in DOMAIN l : Candidates(r, l) = {i}
  <2>1. ~\E k \in DOMAIN m : Candidates(r, m) = {k}
    BY <1>1, <1>2, <1>3, <1>5
  <2>2. Matched(r, l) = Matched(r, m)
    BY <1>5, <2>1 DEF Matched
  <2> QED
    BY <2>2 DEF m
<1> QED
  BY <1>4, <1>5

(* No order of the caller's list changes the match, whatever its length:   *)
(* among equally good payments none is taken.                              *)
THEOREM OrderIsIrrelevant == Spec => []OrderDoesNotMatter
<1>1. Inv => OrderDoesNotMatter
  BY ReorderedMatch DEF Inv, OrderDoesNotMatter
<1> QED
  BY <1>1, ResultIsMatched, PTL
=============================================================================
