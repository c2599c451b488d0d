----------------------- MODULE StatementLedgerProofs -----------------------
(***************************************************************************)
(* The reconciliation ledger, proved for any rows, payments and lists.     *)
(***************************************************************************)
EXTENDS StatementLedger, TLAPS

LEMMA MatchedType == ASSUME NEW r, NEW l \in Lists PROVE Matched(r, l) \in Ops \cup {NoOp}
<1> DEFINE k == CHOOSE i \in DOMAIN l : Candidates(r, l) = {i}
<1>1. CASE \E i \in DOMAIN l : Candidates(r, l) = {i}
  <2>1. k \in DOMAIN l
    BY <1>1
  <2>2. l \in Seq(KnownPayments)
    BY ListsAssumption
  <2>3. l[k] \in KnownPayments
    BY <2>1, <2>2
  <2>4. l[k].op \in Ops
    BY <2>3, KnownPaymentsAssumption
  <2> QED
    BY <1>1, <2>4 DEF Matched
<1>2. CASE ~\E i \in DOMAIN l : Candidates(r, l) = {i}
  BY <1>2 DEF Matched
<1> QED
  BY <1>1, <1>2

LEMMA CalculatedType ==
    ASSUME NEW r, NEW l \in Lists
    PROVE  /\ Calculated(r, l) \in Decision
           /\ ~Calculated(r, l).disputed
           /\ Calculated(r, l).matched = Matched(r, l)
           /\ Calculated(r, l) # Disputed
  BY MatchedType DEF Calculated, Decision, Disputed

LEMMA DisputedType == Disputed \in Decision /\ Disputed.disputed /\ Disputed.matched = NoOp
  BY DEF Disputed, Decision

LEMMA IdentityType == ASSUME NEW r \in Rows PROVE Identity(r) \in Identities
  BY DEF Identities

(* What each of the three outcomes writes, once and for all.               *)
Written(row, list) ==
    [payload |-> row, result |-> Calculated(row, list),
     column |-> Calculated(row, list).matched,
     resolution |-> Resolution(Calculated(row, list))]

Spoilt(row) ==
    [payload |-> ledger[Identity(row)].payload, result |-> Disputed,
     column |-> NoOp, resolution |-> "payload_conflict"]

LEMMA WrittenEntry ==
    ASSUME NEW r \in Rows, NEW l \in Lists
    PROVE  /\ Written(r, l) \in Entry
           /\ Written(r, l) # NoEntry
           /\ Written(r, l).payload = r
           /\ Written(r, l).result = Calculated(r, l)
           /\ Written(r, l).column = Calculated(r, l).matched
           /\ Written(r, l).resolution = "automatic" <=> Written(r, l).column # NoOp
           /\ Written(r, l).resolution # "payload_conflict"
<1>1. Calculated(r, l).matched \in Ops \cup {NoOp}
  BY CalculatedType, MatchedType
<1>2. Written(r, l) \in Entry
  BY <1>1, CalculatedType DEF Written, Entry, Resolution
<1> QED
  BY <1>2, NoEntryAssumption DEF Written, Resolution

LEMMA SpoiltEntry ==
    ASSUME NEW r \in Rows, LedgerTypeOK, ledger[Identity(r)] # NoEntry
    PROVE  /\ Spoilt(r) \in Entry
           /\ Spoilt(r) # NoEntry
           /\ Spoilt(r).payload = ledger[Identity(r)].payload
           /\ Spoilt(r).result = Disputed
           /\ Spoilt(r).column = NoOp
           /\ Spoilt(r).resolution = "payload_conflict"
<1>1. ledger[Identity(r)] \in Entry
  BY IdentityType DEF LedgerTypeOK
<1>2. Spoilt(r) \in Entry
  BY <1>1, DisputedType DEF Spoilt, Entry
<1> QED
  BY <1>2, NoEntryAssumption DEF Spoilt

(* What a caller is given: its decision, if it decides itself; the stored  *)
(* decision, or less, if it repeats.                                       *)
FirstAnswer(entry) ==
    [row |-> entry.payload, payment |-> entry.result.matched,
     status |-> StatusOf(entry.result), disputed |-> FALSE, replayed |-> FALSE]

LEMMA MatchedIsListed ==
    ASSUME NEW r, NEW l \in Lists
    PROVE  (\E i \in DOMAIN l : l[i].op = Matched(r, l)) <=> Matched(r, l) # NoOp
<1> DEFINE k == CHOOSE i \in DOMAIN l : Candidates(r, l) = {i}
<1>1. \A i \in DOMAIN l : l[i].op \in Ops
  BY ListsAssumption, KnownPaymentsAssumption
<1>2. CASE \E i \in DOMAIN l : Candidates(r, l) = {i}
  <2>1. k \in DOMAIN l /\ Matched(r, l) = l[k].op
    BY <1>2 DEF Matched
  <2> QED
    BY <1>1, <2>1, NoOpAssumption
<1>3. CASE ~\E i \in DOMAIN l : Candidates(r, l) = {i}
  BY <1>1, <1>3, NoOpAssumption DEF Matched
<1> QED
  BY <1>2, <1>3

LEMMA DeciderIsTold ==
    ASSUME NEW r \in Rows, NEW l \in Lists
    PROVE  PublicResult(r, Calculated(r, l), l, FALSE) = FirstAnswer(Written(r, l))
<1>1. CASE Matched(r, l) # NoOp
  BY <1>1, MatchedIsListed DEF PublicResult, FirstAnswer, Written, Calculated
<1>2. CASE Matched(r, l) = NoOp
  BY <1>2, MatchedIsListed DEF PublicResult, FirstAnswer, Written, Calculated
<1> QED
  BY <1>1, <1>2

LEMMA ReplayTold ==
    ASSUME NEW r \in Rows, NEW d \in Decision, NEW l
    PROVE  PublicResult(r, d, l, TRUE) \in PublicResults
  BY DEF PublicResult, PublicResults, Decision, StatusOf

LEMMA ConflictTold ==
    ASSUME NEW r \in Rows, NEW l
    PROVE  LET x == PublicResult(r, Disputed, l, FALSE)
           IN  x \in PublicResults /\ x.row = r /\ x.disputed
  BY DEF PublicResult, PublicResults, Disputed, StatusOf

-----------------------------------------------------------------------------
(* Beside the columns: the payload of an entry was presented under its     *)
(* identity; an entry is there for every presented row; an entry that is   *)
(* not disputed has seen no other payload; and answers tell the decision.  *)
PayloadPresented ==
    \A i \in Identities : ledger[i] # NoEntry =>
        ledger[i].payload \in presented /\ Identity(ledger[i].payload) = i

PresentedHasEntry ==
    \A r \in presented :
        /\ ledger[Identity(r)] # NoEntry
        /\ ledger[Identity(r)].resolution # "payload_conflict"
               => r = ledger[Identity(r)].payload

DisputeHasCause ==
    \A i \in Identities :
        (ledger[i] # NoEntry /\ ledger[i].resolution = "payload_conflict")
            => \E r, s \in presented : Identity(r) = i /\ Identity(s) = i /\ r # s

\* While an entry is not disputed, its decider was told, and the others not more.
DecisionsWereTold ==
    \A i \in Identities :
        (ledger[i] # NoEntry /\ ledger[i].resolution # "payload_conflict")
            => FirstAnswer(ledger[i]) \in answers

AnswersTellDecisions ==
    \A a \in answers :
        LET entry == ledger[Identity(a.row)]
        IN  /\ a.row \in presented
            /\ ~a.disputed => a.row = entry.payload
            /\ (~a.disputed /\ entry.resolution # "payload_conflict") =>
                /\ a.status = StatusOf(entry.result)
                /\ a.payment \in {entry.result.matched, NoOp}
                /\ ~a.replayed => a = FirstAnswer(entry)

\* OneDecision also for the time after a dispute.
IInv == /\ LedgerTypeOK /\ PayloadPresented /\ PresentedHasEntry /\ DisputeHasCause
        /\ DecisionsWereTold /\ AnswersTellDecisions /\ OneDecision

LEMMA InitIInv == Init => IInv
  BY DEF Init, IInv, LedgerTypeOK, PayloadPresented, PresentedHasEntry,
         DisputeHasCause, DecisionsWereTold, AnswersTellDecisions, OneDecision

(* A new row's entry.                                                      *)
LEMMA NewStep ==
    ASSUME IInv, NEW r \in Rows, NEW l \in Lists, PersistNew(r, l)
    PROVE  IInv'
<1> DEFINE e == Written(r, l)
           i == Identity(r)
           x == FirstAnswer(e)
<1>1. /\ ledger[i] = NoEntry /\ ledger' = [ledger EXCEPT ![i] = e]
      /\ presented' = presented \cup {r}
      /\ answers' = answers \cup {x}
  BY DeciderIsTold DEF PersistNew, Answer, Written
<1>2. /\ i \in Identities
      /\ e \in Entry /\ e # NoEntry /\ e.payload = r /\ e.result = Calculated(r, l)
      /\ e.column = Calculated(r, l).matched
      /\ e.resolution = "automatic" <=> e.column # NoOp
      /\ e.resolution # "payload_conflict"
      /\ Calculated(r, l) \in Decision /\ ~Calculated(r, l).disputed
      /\ Calculated(r, l) # Disputed
  BY IdentityType, WrittenEntry, CalculatedType
<1>20. x \in PublicResults
  BY <1>2 DEF FirstAnswer, PublicResults, Decision, StatusOf
<1>21. x.row = r
  BY <1>2 DEF FirstAnswer
<1>22. /\ ~x.disputed
       /\ x.status = "matched" <=> x.payment # NoOp
       /\ x.status = StatusOf(e.result)
       /\ x.payment = e.result.matched
  BY DEF FirstAnswer, StatusOf
<1>23. ~x.replayed
  BY DEF FirstAnswer
<1> HIDE DEF e, i, x
<1>3. /\ ledger'[i] = e
      /\ \A j \in Identities : j # i => ledger'[j] = ledger[j]
  BY <1>1, <1>2 DEF IInv, LedgerTypeOK
<1>4. \A s \in presented : Identity(s) \in Identities /\ Identity(s) # i
  BY <1>1, IdentityType DEF IInv, PresentedHasEntry, LedgerTypeOK
<1>5. \A a \in answers : Identity(a.row) \in Identities /\ Identity(a.row) # i
  BY <1>4 DEF IInv, AnswersTellDecisions
<1>6. LedgerTypeOK'
  BY <1>1, <1>2, <1>3, <1>20 DEF IInv, LedgerTypeOK
<1>7. PayloadPresented'
  BY <1>1, <1>2, <1>3 DEF IInv, PayloadPresented, i
<1>8. PresentedHasEntry'
  BY <1>1, <1>2, <1>3, <1>4 DEF IInv, PresentedHasEntry, i
<1>9. DisputeHasCause'
  BY <1>1, <1>2, <1>3 DEF IInv, DisputeHasCause
<1>10. DecisionsWereTold'
  BY <1>1, <1>3 DEF IInv, DecisionsWereTold, x
<1>11. AnswersTellDecisions'
  <2>1. ASSUME NEW a \in answers
        PROVE  a.row \in presented' /\ ledger'[Identity(a.row)] = ledger[Identity(a.row)]
    BY <1>1, <1>3, <1>5 DEF IInv, AnswersTellDecisions
  <2>2. ledger'[Identity(x.row)] = e /\ x.row \in presented'
    BY <1>1, <1>3, <1>21 DEF i
  <2> QED
    BY <1>1, <1>2, <1>21, <1>22, <2>1, <2>2 DEF IInv, AnswersTellDecisions, x
<1>12. OneDecision'
  <2>1. Identity(x.row) = i
    BY <1>21 DEF i
  <2> QED
    BY <1>1, <1>5, <1>21, <1>22, <1>23, <2>1 DEF IInv, OneDecision
<1> QED
  BY <1>6, <1>7, <1>8, <1>9, <1>10, <1>11, <1>12 DEF IInv

\* An answer that tells a dispute takes nothing from the others.
LEMMA DisputeTold ==
    ASSUME OneDecision, NEW x, x.disputed, answers' = answers \cup {x}
    PROVE  OneDecision'
  BY DEF OneDecision

(* The same row again.                                                     *)
LEMMA ReplayStep ==
    ASSUME IInv, NEW r \in Rows, NEW l \in Lists, Replay(r, l)
    PROVE  IInv'
<1> DEFINE i == Identity(r)
           x == PublicResult(r, ledger[i].result, l, TRUE)
<1>1. /\ ledger[i] # NoEntry /\ ledger[i].payload = r /\ ledger' = ledger
      /\ presented' = presented \cup {r}
      /\ answers' = answers \cup {x}
  BY DEF Replay, Answer
<1>2. i \in Identities /\ ledger[i] \in Entry
  BY <1>1, IdentityType DEF IInv, LedgerTypeOK
<1>3. ledger[i].result \in Decision
  BY <1>2 DEF Entry
<1>4. presented' = presented
  BY <1>1, <1>2 DEF IInv, PayloadPresented
<1>5. ledger[i].resolution = "payload_conflict" <=> ledger[i].result.disputed
  BY <1>1, <1>2, DisputedType DEF IInv, LedgerTypeOK
<1>20. x \in PublicResults
  BY <1>3, ReplayTold
<1>21. x.row = r /\ x.replayed
  BY DEF PublicResult
<1>22. /\ x.disputed = ledger[i].result.disputed
       /\ x.status = StatusOf(ledger[i].result)
       /\ x.payment \in {ledger[i].result.matched, NoOp}
  BY DEF PublicResult
<1> HIDE DEF i, x
<1>23. Identity(x.row) = i /\ x.row \in presented'
  BY <1>1, <1>21 DEF i
<1>6. LedgerTypeOK'
  BY <1>1, <1>4, <1>20 DEF IInv, LedgerTypeOK
<1>7. PayloadPresented' /\ PresentedHasEntry' /\ DisputeHasCause' /\ DecisionsWereTold'
  BY <1>1, <1>4
  DEF IInv, PayloadPresented, PresentedHasEntry, DisputeHasCause, DecisionsWereTold
<1>8. AnswersTellDecisions'
  BY <1>1, <1>4, <1>5, <1>21, <1>22, <1>23 DEF IInv, AnswersTellDecisions
<1>9. OneDecision'
  <2>1. CASE x.disputed
    BY <1>1, <2>1, DisputeTold DEF IInv
  <2>2. CASE ~x.disputed
    <3> DEFINE a == FirstAnswer(ledger[i])
    <3>1. ledger[i].resolution # "payload_conflict"
      BY <1>5, <1>22, <2>2
    <3>2. a \in answers
      BY <1>1, <1>2, <3>1 DEF IInv, DecisionsWereTold
    <3>3. /\ ~a.disputed /\ ~a.replayed /\ a.row = x.row
          /\ a.status = "matched" <=> a.payment # NoOp
          /\ a.status = x.status /\ x.payment \in {a.payment, NoOp}
      BY <1>1, <1>21, <1>22 DEF FirstAnswer, StatusOf
    <3> HIDE DEF a
    <3>4. \A c \in answers : (Identity(c.row) = i /\ ~c.disputed /\ ~c.replayed) => c = a
      BY <3>1 DEF IInv, AnswersTellDecisions, a
    <3> QED
      BY <1>1, <1>21, <1>23, <3>2, <3>3, <3>4 DEF IInv, OneDecision
  <2> QED
    BY <2>1, <2>2
<1> QED
  BY <1>6, <1>7, <1>8, <1>9 DEF IInv

(* Another payload.                                                        *)
LEMMA ConflictStep ==
    ASSUME IInv, NEW r \in Rows, NEW l \in Lists, PayloadConflict(r, l)
    PROVE  IInv'
<1> DEFINE e == Spoilt(r)
           i == Identity(r)
           x == PublicResult(r, Disputed, l, FALSE)
<1>1. /\ ledger[i] # NoEntry /\ ledger[i].payload # r
      /\ ledger' = [ledger EXCEPT ![i] = e]
      /\ presented' = presented \cup {r}
      /\ answers' = answers \cup {x}
  BY DEF PayloadConflict, Answer, Spoilt
<1>2. /\ i \in Identities
      /\ e \in Entry /\ e # NoEntry /\ e.payload = ledger[i].payload
      /\ e.result = Disputed /\ e.column = NoOp /\ e.resolution = "payload_conflict"
  BY <1>1, IdentityType, SpoiltEntry DEF IInv
<1>20. x \in PublicResults /\ x.row = r /\ x.disputed
  BY ConflictTold
<1> HIDE DEF e, i, x
<1>3. /\ ledger'[i] = e
      /\ \A j \in Identities : j # i => ledger'[j] = ledger[j]
  BY <1>1, <1>2 DEF IInv, LedgerTypeOK
<1>4. \A s \in presented : Identity(s) \in Identities
  BY IdentityType DEF IInv, LedgerTypeOK
<1>5. LedgerTypeOK'
  BY <1>1, <1>2, <1>3, <1>20, DisputedType DEF IInv, LedgerTypeOK
<1>6. PayloadPresented'
  BY <1>1, <1>2, <1>3 DEF IInv, PayloadPresented
<1>7. PresentedHasEntry'
  BY <1>1, <1>2, <1>3, <1>4 DEF IInv, PresentedHasEntry, i
<1>8. DisputeHasCause'
  <2>1. ledger[i].payload \in presented /\ Identity(ledger[i].payload) = i
    BY <1>1, <1>2 DEF IInv, PayloadPresented
  <2>2. \E s, t \in presented' : Identity(s) = i /\ Identity(t) = i /\ s # t
    BY <1>1, <2>1 DEF i
  <2> QED
    BY <1>1, <1>3, <2>2 DEF IInv, DisputeHasCause
<1>9. DecisionsWereTold'
  BY <1>1, <1>2, <1>3 DEF IInv, DecisionsWereTold
<1>10. AnswersTellDecisions'
  <2>1. ASSUME NEW a \in answers
        PROVE  Identity(a.row) \in Identities
    BY <1>4 DEF IInv, AnswersTellDecisions
  <2> QED
    BY <2>1, <1>1, <1>2, <1>3, <1>20 DEF IInv, AnswersTellDecisions
<1>11. OneDecision'
  BY <1>1, <1>20, DisputeTold DEF IInv
<1> QED
  BY <1>5, <1>6, <1>7, <1>8, <1>9, <1>10, <1>11 DEF IInv

LEMMA Invariant == Spec => []IInv
<1>1. IInv /\ [Next]_vars => IInv'
  <2>1. ASSUME IInv, Next PROVE IInv'
    BY <2>1, NewStep, ReplayStep, ConflictStep DEF Next, Match
  <2>2. ASSUME IInv, UNCHANGED vars PROVE IInv'
    BY <2>2 DEF vars, IInv, LedgerTypeOK, PayloadPresented, PresentedHasEntry,
                DisputeHasCause, DecisionsWereTold, AnswersTellDecisions, OneDecision
  <2> QED
    BY <2>1, <2>2
<1> QED
  BY <1>1, InitIInv, PTL DEF Spec

-----------------------------------------------------------------------------
(* The columns of an entry agree with each other.                          *)
THEOREM LedgerTypeCorrect == Spec => []LedgerTypeOK
<1>1. IInv => LedgerTypeOK
  BY DEF IInv
<1> QED
  BY <1>1, Invariant, PTL

(* An entry is disputed exactly when two payloads of it were presented.    *)
THEOREM NothingAcceptedInSilence == Spec => []DisputedWhenTwoPayloads
<1>1. IInv => DisputedWhenTwoPayloads
  <2> SUFFICES ASSUME IInv, NEW i \in Identities
               PROVE  (ledger[i] # NoEntry /\ ledger[i].resolution = "payload_conflict")
                        <=> \E r, s \in presented :
                                Identity(r) = i /\ Identity(s) = i /\ r # s
    BY DEF DisputedWhenTwoPayloads
  <2>1. ASSUME NEW r \in presented, NEW s \in presented,
               Identity(r) = i, Identity(s) = i, r # s
        PROVE  ledger[i] # NoEntry /\ ledger[i].resolution = "payload_conflict"
    BY <2>1 DEF IInv, PresentedHasEntry
  <2> QED
    BY <2>1 DEF IInv, DisputeHasCause
<1> QED
  BY <1>1, Invariant, PTL

(* One caller decides about a row and is given the payment it matched; all *)
(* others are told its decision, with its payment or none.                 *)
THEOREM CallersAgree == Spec => []OneDecision
<1>1. IInv => OneDecision
  BY DEF IInv
<1> QED
  BY <1>1, Invariant, PTL

(* The ledger implements the abstract promise: one decision for each row   *)
(* it identifies, which only a dispute takes back, for good.               *)
THEOREM LedgerImplementsDecisions == Spec => DecisionsSpec
<1>1. Init => StatementDecisions!Init
  BY DEF Init, StatementDecisions!Init, Decided
<1>2. ASSUME IInv, [Next]_vars PROVE [StatementDecisions!Next]_Decided
  <2>1. ASSUME NEW r \in Rows, NEW l \in Lists, PersistNew(r, l)
        PROVE  StatementDecisions!Next
    <3>1. Calculated(r, l) \in [matched : Ops \cup {NoOp}, disputed : {FALSE}]
      BY MatchedType DEF Calculated
    <3>2. Identity(r) \in Identities /\ Decided[Identity(r)] = NoEntry
      BY <2>1, IdentityType DEF PersistNew, Decided
    <3>3. ledger' = [ledger EXCEPT ![Identity(r)] = Written(r, l)]
      BY <2>1 DEF PersistNew, Written
    <3>4. Written(r, l) # NoEntry /\ Written(r, l).result = Calculated(r, l)
      BY WrittenEntry
    <3>5. Decided' = [Decided EXCEPT ![Identity(r)] = Calculated(r, l)]
      BY <3>3, <3>4, <1>2 DEF Decided, IInv, LedgerTypeOK
    <3> QED
      BY <3>1, <3>2, <3>5 DEF StatementDecisions!Next, StatementDecisions!Decide
  <2>2. ASSUME NEW r \in Rows, NEW l \in Lists, PayloadConflict(r, l)
        PROVE  StatementDecisions!Next
    <3>1. Identity(r) \in Identities /\ ledger[Identity(r)] # NoEntry
      BY <2>2, IdentityType DEF PayloadConflict
    <3>2. ledger[Identity(r)] \in Entry
      BY <1>2, <3>1 DEF IInv, LedgerTypeOK
    <3>3. Decided[Identity(r)] # NoEntry
      BY <3>1, <3>2, NoEntryAssumption DEF Decided, Entry
    <3>4. ledger' = [ledger EXCEPT ![Identity(r)] = Spoilt(r)]
      BY <2>2 DEF PayloadConflict, Spoilt
    <3>5. Spoilt(r) # NoEntry /\ Spoilt(r).result = Disputed
      BY <1>2, <3>1, SpoiltEntry DEF IInv
    <3>6. Decided' = [Decided EXCEPT ![Identity(r)] = Disputed]
      BY <3>4, <3>5, <1>2 DEF Decided, IInv, LedgerTypeOK
    <3> QED
      BY <3>1, <3>3, <3>6 DEF StatementDecisions!Next, StatementDecisions!Dispute
  <2>3. ASSUME NEW r \in Rows, NEW l \in Lists, Replay(r, l)
        PROVE  UNCHANGED Decided
    BY <2>3 DEF Replay, Decided
  <2>4. ASSUME UNCHANGED vars PROVE UNCHANGED Decided
    BY <2>4 DEF vars, Decided
  <2> QED
    BY <1>2, <2>1, <2>2, <2>3, <2>4 DEF Next, Match
<1> QED
  BY <1>1, <1>2, Invariant, PTL DEF Spec, DecisionsSpec, StatementDecisions!Spec

-----------------------------------------------------------------------------
\* Without evidence a payment is below the threshold: date, currency,
\* purpose and one of account and amount weigh 50 together.
LEMMA NoEvidenceScore ==
    ASSUME NEW r, NEW p, ~Evidence(r, p)
    PROVE  ~(Score(r, p) >= Policy.minimum)
  BY DEF Evidence, Score, Weight, Policy

Evidenced(r, result) ==
    result.matched # NoOp =>
        \E p \in KnownPayments : p.op = result.matched /\ Evidence(r, p)

LEMMA MatchHasEvidence ==
    ASSUME NEW r, NEW l \in Lists
    PROVE  Evidenced(r, Calculated(r, l))
<1> SUFFICES ASSUME Matched(r, l) # NoOp
             PROVE  \E p \in KnownPayments : p.op = Matched(r, l) /\ Evidence(r, p)
  BY CalculatedType DEF Evidenced
<1> DEFINE k == CHOOSE i \in DOMAIN l : Candidates(r, l) = {i}
<1>1. \E i \in DOMAIN l : Candidates(r, l) = {i}
  BY DEF Matched
<1>2. k \in DOMAIN l /\ k \in Candidates(r, l) /\ Matched(r, l) = l[k].op
  BY <1>1 DEF Matched
<1> HIDE DEF k
<1>3. Score(r, l[k]) >= Policy.minimum
  BY <1>2 DEF Candidates
<1>4. l[k] \in KnownPayments
  BY <1>2, ListsAssumption
<1> QED
  BY <1>2, <1>3, <1>4, NoEvidenceScore

\* What the ledger would answer is evidenced by the payload it keeps.
EntriesHaveEvidence ==
    \A i \in Identities :
        ledger[i] # NoEntry => Evidenced(ledger[i].payload, ledger[i].result)

LEMMA AnswerHasEvidence ==
    ASSUME NEW x, NEW d, x.status = StatusOf(d), x.payment \in {d.matched, NoOp},
           Evidenced(x.row, d), MatchesHaveEvidence, answers' = answers \cup {x}
    PROVE  MatchesHaveEvidence'
<1>1. x.status = "matched" =>
          \E p \in KnownPayments : Evidence(x.row, p) /\ x.payment \in {p.op, NoOp}
  BY DEF StatusOf, Evidenced
<1> QED
  BY <1>1 DEF MatchesHaveEvidence

LEMMA EvidenceStep ==
    ASSUME IInv, EntriesHaveEvidence, MatchesHaveEvidence, [Next]_vars
    PROVE  EntriesHaveEvidence' /\ MatchesHaveEvidence'
<1>1. ASSUME NEW r \in Rows, NEW l \in Lists, PersistNew(r, l)
      PROVE  EntriesHaveEvidence' /\ MatchesHaveEvidence'
  <2> DEFINE x == PublicResult(r, Calculated(r, l), l, FALSE)
  <2>1. /\ ledger' = [ledger EXCEPT ![Identity(r)] = Written(r, l)]
        /\ answers' = answers \cup {x}
    BY <1>1 DEF PersistNew, Answer, Written
  <2>2. Evidenced(r, Calculated(r, l))
    BY MatchHasEvidence
  <2>3. EntriesHaveEvidence'
    BY <2>1, <2>2, WrittenEntry DEF EntriesHaveEvidence, IInv, LedgerTypeOK
  <2>4. MatchesHaveEvidence'
    <3>1. /\ x.row = r /\ x.status = StatusOf(Calculated(r, l))
          /\ x.payment \in {Calculated(r, l).matched, NoOp}
      BY DEF PublicResult
    <3> QED
      BY <2>1, <2>2, <3>1, AnswerHasEvidence
  <2> QED
    BY <2>3, <2>4
<1>2. ASSUME NEW r \in Rows, NEW l \in Lists, Replay(r, l)
      PROVE  EntriesHaveEvidence' /\ MatchesHaveEvidence'
  <2> DEFINE x == PublicResult(r, ledger[Identity(r)].result, l, TRUE)
  <2>1. /\ ledger' = ledger /\ ledger[Identity(r)] # NoEntry
        /\ ledger[Identity(r)].payload = r
        /\ answers' = answers \cup {x}
    BY <1>2 DEF Replay, Answer
  <2>2. Evidenced(r, ledger[Identity(r)].result)
    BY <2>1, IdentityType DEF EntriesHaveEvidence
  <2>3. /\ x.row = r /\ x.status = StatusOf(ledger[Identity(r)].result)
        /\ x.payment \in {ledger[Identity(r)].result.matched, NoOp}
    BY DEF PublicResult
  <2> QED
    BY <2>1, <2>2, <2>3, AnswerHasEvidence DEF EntriesHaveEvidence
<1>3. ASSUME NEW r \in Rows, NEW l \in Lists, PayloadConflict(r, l)
      PROVE  EntriesHaveEvidence' /\ MatchesHaveEvidence'
  <2> DEFINE x == PublicResult(r, Disputed, l, FALSE)
  <2>1. /\ ledger' = [ledger EXCEPT ![Identity(r)] = Spoilt(r)]
        /\ ledger[Identity(r)] # NoEntry
        /\ answers' = answers \cup {x}
    BY <1>3 DEF PayloadConflict, Answer, Spoilt
  <2>2. \A s : Evidenced(s, Disputed)
    BY DisputedType DEF Evidenced
  <2>3. EntriesHaveEvidence'
    BY <2>1, <2>2, SpoiltEntry DEF EntriesHaveEvidence, IInv, LedgerTypeOK
  <2>4. MatchesHaveEvidence'
    <3>1. /\ x.row = r /\ x.status = StatusOf(Disputed)
          /\ x.payment \in {Disputed.matched, NoOp}
      BY DEF PublicResult
    <3> QED
      BY <2>1, <2>2, <3>1, AnswerHasEvidence
  <2> QED
    BY <2>3, <2>4
<1>4. CASE UNCHANGED vars
  BY <1>4 DEF vars, EntriesHaveEvidence, MatchesHaveEvidence
<1> QED
  BY <1>1, <1>2, <1>3, <1>4 DEF Next, Match

(* Every match that match() tells, of its own or from the ledger, is of a  *)
(* known payment that shares an identifier with the row it was asked       *)
(* about, or account and amount.                                           *)
THEOREM MatchesAreEvidenced == Spec => []MatchesHaveEvidence
<1>1. Init => EntriesHaveEvidence /\ MatchesHaveEvidence
  BY DEF Init, EntriesHaveEvidence, MatchesHaveEvidence
<1>2. (IInv /\ EntriesHaveEvidence /\ MatchesHaveEvidence /\ [Next]_vars)
            => (EntriesHaveEvidence /\ MatchesHaveEvidence)'
  BY EvidenceStep
<1> QED
  BY <1>1, <1>2, Invariant, PTL DEF Spec

=============================================================================
