-------------------------- MODULE RepositoryProofs --------------------------
(***************************************************************************)
(* What every operation of the repository keeps, for any operations,       *)
(* payloads, callbacks and callers: the types of the tables, the single    *)
(* claim, and the agreement of the inbox with the operations. The lemmas   *)
(* about one operation at a time are also what the service's proofs use.   *)
(***************************************************************************)
EXTENDS IntegrationRepository, TLAPS

-----------------------------------------------------------------------------
(* The transition table.                                                   *)

LEMMA Table ==
    ASSUME NEW s \in Status, NEW t \in TRANSITIONS[s]
    PROVE  /\ t \in Status
           /\ t # s
           /\ t # "prepared"
           /\ t = "ready_to_send" => s = "prepared"
           /\ t = "sending" => s = "ready_to_send"
           /\ t = "outcome_unknown" => s = "sending"
           /\ s \notin Terminal
  BY DEF Status, TRANSITIONS, Terminal

LEMMA ReviewableType == "manual_check" \in Status
  BY DEF Status

-----------------------------------------------------------------------------
(* transition_record.                                                      *)

LEMMA MovedFields ==
    ASSUME NEW r \in IntegrationRecord, NEW to \in Status, NEW source \in Sources,
           NEW ext \in MaybeExt, NEW event \in Events \cup {NoEvent}
    PROVE  /\ Moved(r, to, source, ext, event) \in IntegrationRecord
           /\ Moved(r, to, source, ext, event).status = to
           /\ Moved(r, to, source, ext, event).attempts = r.attempts
           /\ Moved(r, to, source, ext, event).terms = r.terms
           /\ Moved(r, to, source, ext, event).callbacks = r.callbacks
<1> DEFINE a == [old |-> r.status, new |-> to, source |-> source, ext |-> ext, event |-> event]
<1>1. a \in AuditEvent
  BY DEF AuditEvent, IntegrationRecord
<1>2. Append(r.audit, a) \in Seq(AuditEvent)
  BY <1>1 DEF IntegrationRecord
<1> QED
  BY <1>2 DEF Moved, IntegrationRecord

LEMMA TransitionRecordFields ==
    ASSUME NEW r \in IntegrationRecord, NEW to \in Status, NEW source \in Sources,
           NEW ext \in MaybeExt, NEW event \in Events \cup {NoEvent}
    PROVE  /\ TransitionRecord(r, to, source, ext, event) \in IntegrationRecord
           /\ TransitionRecord(r, to, source, ext, event).status = to
           /\ TransitionRecord(r, to, source, ext, event).attempts = r.attempts
           /\ TransitionRecord(r, to, source, ext, event).terms = r.terms
           /\ TransitionRecord(r, to, source, ext, event).callbacks = r.callbacks
<1>1. CASE to = r.status
  BY <1>1 DEF TransitionRecord
<1>2. CASE to # r.status
  BY <1>2, MovedFields DEF TransitionRecord
<1> QED
  BY <1>1, <1>2

LEMMA NewRecordFields ==
    ASSUME NEW terms \in Terms
    PROVE  /\ NewRecord(terms) \in IntegrationRecord
           /\ NewRecord(terms).status = "prepared"
           /\ NewRecord(terms).attempts = 0
           /\ NewRecord(terms).terms = terms
           /\ NewRecord(terms).callbacks = {}
<1>1. <<>> \in Seq(AuditEvent)
  OBVIOUS
<1> QED
  BY <1>1 DEF NewRecord, IntegrationRecord, MaybeExt, Status

-----------------------------------------------------------------------------
(* One claim per operation: a claimed row is not waiting to be claimed.    *)
ClaimState(r) ==
    /\ r.attempts \in {0, 1}
    /\ r.attempts = 1 => r.status \notin {"prepared", "ready_to_send"}

RInv == RepositoryTypeOK /\ ClaimedOnce

(* What no operation of the repository undoes in a row.                    *)
RowKept(o) ==
    Registered(o) =>
        /\ record'[o] # NoRecord
        /\ record'[o].terms = record[o].terms
        /\ record[o].attempts = 1 => record'[o].attempts = 1

RowsKept == \A o \in Ops : RowKept(o)

(* The events an operation lists as applied.                               *)
Applied(o) == IF Registered(o) THEN record[o].callbacks ELSE {}

AppliedKept == \A o \in Ops : Applied(o)' = Applied(o)

LEMMA RowType ==
    ASSUME RepositoryTypeOK, NEW o \in Ops, Registered(o)
    PROVE  /\ record[o] \in IntegrationRecord
           /\ record[o].status \in Status
  BY DEF RepositoryTypeOK, Registered, IntegrationRecord

LEMMA NoRecordIsNone == \A r \in IntegrationRecord : r # NoRecord
  BY NoRecordAssumption

(* A permitted move leaves a claimed operation claimed.                    *)
LEMMA MoveKeepsClaim ==
    ASSUME NEW r \in IntegrationRecord, ClaimState(r), NEW to \in Status,
           Permitted(r, to), NEW source \in Sources,
           NEW ext \in MaybeExt, NEW event \in Events \cup {NoEvent}
    PROVE  ClaimState(TransitionRecord(r, to, source, ext, event))
<1> DEFINE n == TransitionRecord(r, to, source, ext, event)
<1>1. n.status = to /\ n.attempts = r.attempts
  BY TransitionRecordFields
<1>2. CASE to = r.status
  BY <1>1, <1>2 DEF ClaimState
<1>3. CASE to \in TRANSITIONS[r.status]
  <2>1. r.status \in Status
    BY DEF IntegrationRecord
  <2>2. to # "prepared" /\ (to = "ready_to_send" => r.status = "prepared")
    BY <1>3, <2>1, Table
  <2> QED
    BY <1>1, <2>2 DEF ClaimState
<1> QED
  BY <1>2, <1>3 DEF Permitted, CanMove

(* Writing one well-formed row that keeps the old one's claim and terms    *)
(* keeps the repository's invariant.                                       *)
LEMMA WriteRow ==
    ASSUME RInv, NEW o \in Ops, NEW r \in IntegrationRecord, ClaimState(r),
           Registered(o) => /\ r.terms = record[o].terms
                            /\ record[o].attempts = 1 => r.attempts = 1,
           record' = [record EXCEPT ![o] = r],
           inbox' \in [Events -> Callbacks \cup {NoCallback}],
           conflicts' \in SUBSET Events
    PROVE  /\ RInv' /\ RowsKept
           /\ \A q \in Ops : Applied(q)' = IF q = o THEN r.callbacks ELSE Applied(q)
<1>1. record \in [Ops -> IntegrationRecord \cup {NoRecord}]
  BY DEF RInv, RepositoryTypeOK
<1>2. record' \in [Ops -> IntegrationRecord \cup {NoRecord}]
  BY <1>1
<1>3. RepositoryTypeOK'
  BY <1>2 DEF RepositoryTypeOK
<1>4. ClaimedOnce'
  <2> SUFFICES ASSUME NEW q \in Ops, Registered(q)'
               PROVE  ClaimState(record[q])'
    BY DEF ClaimedOnce, ClaimState
  <2>1. CASE q = o
    BY <1>1, <2>1 DEF ClaimState
  <2>2. CASE q # o
    BY <1>1, <2>2 DEF RInv, ClaimedOnce, ClaimState, Registered
  <2> QED
    BY <2>1, <2>2
<1>5. RowsKept
  <2> SUFFICES ASSUME NEW q \in Ops PROVE RowKept(q)
    BY DEF RowsKept
  <2>1. CASE q = o
    BY <1>1, <2>1, NoRecordIsNone DEF RowKept, Registered
  <2>2. CASE q # o
    BY <1>1, <2>2 DEF RowKept, Registered
  <2> QED
    BY <2>1, <2>2
<1>6. ASSUME NEW q \in Ops
      PROVE  Applied(q)' = IF q = o THEN r.callbacks ELSE Applied(q)
  <2>1. CASE q = o
    BY <1>1, <2>1, NoRecordIsNone DEF Applied, Registered
  <2>2. CASE q # o
    BY <1>1, <2>2 DEF Applied, Registered
  <2> QED
    BY <2>1, <2>2
<1> QED
  BY <1>3, <1>4, <1>5, <1>6 DEF RInv

LEMMA RegisterStep ==
    ASSUME RInv, NEW o \in Ops, NEW terms \in Terms, Register(o, terms)
    PROVE  RInv' /\ RowsKept /\ AppliedKept
<1> DEFINE r == RowAfterRegister(o, terms)
<1>1. r \in IntegrationRecord /\ ClaimState(r)
  <2>1. CASE Registered(o)
    BY <2>1, RowType DEF RInv, ClaimedOnce, ClaimState, RowAfterRegister
  <2>2. CASE ~Registered(o)
    BY <2>2, NewRecordFields DEF ClaimState, RowAfterRegister
  <2> QED
    BY <2>1, <2>2
<1>2. (Registered(o) => r = record[o]) /\ r.callbacks = Applied(o)
  BY NewRecordFields DEF RowAfterRegister, Applied
<1>3. record' = [record EXCEPT ![o] = r]
  BY DEF Register
<1>4. /\ inbox' \in [Events -> Callbacks \cup {NoCallback}]
      /\ conflicts' \in SUBSET Events
  BY DEF Register, RInv, RepositoryTypeOK
<1> HIDE DEF r
<1> QED
  BY <1>1, <1>2, <1>3, <1>4, WriteRow DEF AppliedKept

LEMMA TransitionStep ==
    ASSUME RInv, NEW o \in Ops, NEW to \in Status, NEW source \in Sources,
           NEW ext \in MaybeExt, NEW event \in Events \cup {NoEvent},
           Transition(o, to, source, ext, event)
    PROVE  RInv' /\ RowsKept /\ AppliedKept
<1> DEFINE r == TransitionRecord(record[o], to, source, ext, event)
<1>1. Registered(o) /\ Permitted(record[o], to)
  BY DEF Transition
<1>2. record[o] \in IntegrationRecord /\ ClaimState(record[o])
  BY <1>1, RowType DEF RInv, ClaimedOnce, ClaimState
<1>3. /\ r \in IntegrationRecord /\ r.terms = record[o].terms
      /\ r.attempts = record[o].attempts /\ r.callbacks = Applied(o)
  BY <1>1, <1>2, TransitionRecordFields DEF Applied
<1>4. ClaimState(r)
  BY <1>1, <1>2, MoveKeepsClaim
<1>5. record' = [record EXCEPT ![o] = r]
  BY DEF Transition
<1>6. /\ inbox' \in [Events -> Callbacks \cup {NoCallback}]
      /\ conflicts' \in SUBSET Events
  BY DEF Transition, RInv, RepositoryTypeOK
<1> HIDE DEF r
<1> QED
  BY <1>3, <1>4, <1>5, <1>6, WriteRow DEF AppliedKept

LEMMA ClaimSendStep ==
    ASSUME RInv, NEW o \in Ops, ClaimSend(o)
    PROVE  /\ RInv' /\ RowsKept /\ AppliedKept
           /\ Registered(o) /\ record[o].attempts = 0
           /\ Registered(o)' /\ record'[o].attempts = 1
<1> DEFINE c == Attempted(record[o])
           r == Moved(c, "sending", "send-claim", NoExt, NoEvent)
<1>1. Registered(o) /\ record[o].status = "ready_to_send"
  BY DEF ClaimSend, Claimable
<1>2. record[o] \in IntegrationRecord /\ record[o].attempts = 0
  BY <1>1, RowType DEF RInv, ClaimedOnce
<1>3. /\ c \in IntegrationRecord /\ c.attempts = 1
      /\ c.terms = record[o].terms /\ c.callbacks = Applied(o)
  BY <1>1, <1>2 DEF Attempted, IntegrationRecord, Applied
<1>4. "sending" \in Status /\ "send-claim" \in Sources /\ NoExt \in MaybeExt
  BY DEF Status, Sources, MaybeExt
<1> HIDE DEF c
<1>5. /\ r \in IntegrationRecord /\ r.status = "sending"
      /\ r.attempts = 1 /\ r.terms = record[o].terms /\ r.callbacks = Applied(o)
  BY <1>3, <1>4, MovedFields
<1>6. ClaimState(r)
  BY <1>5 DEF ClaimState
<1>7. record' = [record EXCEPT ![o] = r]
  BY DEF ClaimSend, c
<1>8. /\ inbox' \in [Events -> Callbacks \cup {NoCallback}]
      /\ conflicts' \in SUBSET Events
  BY DEF ClaimSend, RInv, RepositoryTypeOK
<1> HIDE DEF r
<1>9. RInv' /\ RowsKept /\ AppliedKept
  BY <1>5, <1>6, <1>7, <1>8, WriteRow DEF AppliedKept
<1>10. record'[o] = r
  BY <1>7 DEF RInv, RepositoryTypeOK
<1> QED
  BY <1>1, <1>2, <1>5, <1>9, <1>10, NoRecordIsNone DEF Registered

LEMMA RecoverSendingStep ==
    ASSUME RInv, RecoverSending
    PROVE  RInv' /\ RowsKept /\ AppliedKept
<1> DEFINE n(o) == Moved(record[o], "outcome_unknown", "startup_recovery", NoExt, NoEvent)
<1>1. ASSUME NEW o \in Ops, Sending(o)
      PROVE  /\ n(o) \in IntegrationRecord /\ ClaimState(n(o))
             /\ n(o).attempts = record[o].attempts /\ n(o).terms = record[o].terms
             /\ n(o).callbacks = record[o].callbacks
  <2>1. record[o] \in IntegrationRecord /\ ClaimState(record[o])
    BY <1>1, RowType DEF Sending, RInv, ClaimedOnce, ClaimState
  <2>2. /\ "outcome_unknown" \in Status /\ "startup_recovery" \in Sources
        /\ NoExt \in MaybeExt
    BY DEF Status, Sources, MaybeExt
  <2>3. /\ n(o) \in IntegrationRecord /\ n(o).status = "outcome_unknown"
        /\ n(o).attempts = record[o].attempts /\ n(o).terms = record[o].terms
        /\ n(o).callbacks = record[o].callbacks
    BY <2>1, <2>2, MovedFields
  <2> QED
    BY <2>1, <2>3 DEF ClaimState
<1>2. record' = [o \in Ops |-> IF Sending(o) THEN n(o) ELSE record[o]]
  BY DEF RecoverSending
<1> HIDE DEF n
<1>3. record \in [Ops -> IntegrationRecord \cup {NoRecord}]
  BY DEF RInv, RepositoryTypeOK
<1>4. RepositoryTypeOK'
  BY <1>1, <1>2, <1>3 DEF RecoverSending, RInv, RepositoryTypeOK
<1>5. ClaimedOnce'
  <2> SUFFICES ASSUME NEW o \in Ops, Registered(o)'
               PROVE  ClaimState(record[o])'
    BY DEF ClaimedOnce, ClaimState
  <2>1. CASE Sending(o)
    BY <1>1, <1>2, <2>1 DEF ClaimState
  <2>2. CASE ~Sending(o)
    <3>1. record'[o] = record[o]
      BY <1>2, <2>2
    <3> QED
      BY <3>1 DEF RInv, ClaimedOnce, ClaimState, Registered
  <2> QED
    BY <2>1, <2>2
<1>6. RowsKept
  BY <1>1, <1>2, NoRecordIsNone DEF RowsKept, RowKept, Sending, Registered
<1>7. AppliedKept
  BY <1>1, <1>2, NoRecordIsNone DEF AppliedKept, Applied, Sending, Registered
<1> QED
  BY <1>4, <1>5, <1>6, <1>7 DEF RInv

-----------------------------------------------------------------------------
(* Callbacks.                                                              *)

LEMMA CallbackType ==
    ASSUME NEW c \in Callbacks
    PROVE  /\ c.event \in Events /\ c.op \in Ops
           /\ c.status \in Status /\ c.ext \in MaybeExt
           /\ c # NoCallback
  BY CallbacksAssumption, NoCallbackAssumption

LEMMA FirstDeliveryStep ==
    ASSUME RInv, NEW c \in Callbacks, Registered(c.op), FirstDelivery(c)
    PROVE  /\ RInv' /\ RowsKept
           /\ \A q \in Ops : Applied(q)' =
                    IF q = c.op THEN Applied(q) \cup {c.event} ELSE Applied(q)
<1> DEFINE t == TransitionRecord(record[c.op], c.status, "callback", c.ext, c.event)
           r == Received(t, c.event)
<1>1. /\ c.event \in Events /\ c.op \in Ops
      /\ c.status \in Status /\ c.ext \in MaybeExt
  BY CallbackType
<1>2. record[c.op] \in IntegrationRecord /\ ClaimState(record[c.op])
  BY <1>1, RowType DEF RInv, ClaimedOnce, ClaimState
<1>3. Permitted(record[c.op], c.status) /\ "callback" \in Sources
  BY DEF FirstDelivery, Sources
<1>4. /\ t \in IntegrationRecord /\ t.terms = record[c.op].terms
      /\ t.attempts = record[c.op].attempts /\ t.callbacks = Applied(c.op)
      /\ ClaimState(t)
  BY <1>1, <1>2, <1>3, TransitionRecordFields, MoveKeepsClaim DEF Applied
<1> HIDE DEF t
<1>5. /\ r \in IntegrationRecord /\ r.terms = record[c.op].terms
      /\ r.attempts = record[c.op].attempts
      /\ r.callbacks = Applied(c.op) \cup {c.event}
      /\ ClaimState(r)
  BY <1>1, <1>4 DEF Received, IntegrationRecord, ClaimState
<1>6. record' = [record EXCEPT ![c.op] = r]
  BY DEF FirstDelivery, t
<1>7. /\ inbox' \in [Events -> Callbacks \cup {NoCallback}]
      /\ conflicts' \in SUBSET Events
  BY <1>1 DEF FirstDelivery, RInv, RepositoryTypeOK
<1> HIDE DEF r
<1> QED
  BY <1>1, <1>5, <1>6, <1>7, WriteRow

LEMMA ConflictingDeliveryStep ==
    ASSUME RInv, NEW c \in Callbacks, Registered(c.op), ConflictingDelivery(c)
    PROVE  RInv' /\ RowsKept /\ AppliedKept
<1> DEFINE m == Moved(record[c.op], "manual_check", "callback_conflict", c.ext, c.event)
<1>1. c.event \in Events /\ c.op \in Ops /\ c.ext \in MaybeExt
  BY CallbackType
<1>2. record[c.op] \in IntegrationRecord /\ ClaimState(record[c.op])
  BY <1>1, RowType DEF RInv, ClaimedOnce, ClaimState
<1>3. "manual_check" \in Status /\ "callback_conflict" \in Sources
  BY DEF Status, Sources
<1>4. /\ m \in IntegrationRecord /\ m.status = "manual_check"
      /\ m.attempts = record[c.op].attempts /\ m.terms = record[c.op].terms
      /\ m.callbacks = Applied(c.op)
  BY <1>1, <1>2, <1>3, MovedFields DEF Applied
<1>5. ClaimState(m)
  BY <1>2, <1>4 DEF ClaimState
<1>6. /\ inbox' \in [Events -> Callbacks \cup {NoCallback}]
      /\ conflicts' \in SUBSET Events
  BY <1>1 DEF ConflictingDelivery, RInv, RepositoryTypeOK
<1>7. CASE CanMove(record[c.op], "manual_check")
  <2>1. record' = [record EXCEPT ![c.op] = m]
    BY <1>7 DEF ConflictingDelivery
  <2> HIDE DEF m
  <2> QED
    BY <1>1, <1>4, <1>5, <1>6, <2>1, WriteRow DEF AppliedKept
<1>8. CASE ~CanMove(record[c.op], "manual_check")
  <2>1. record' = [record EXCEPT ![c.op] = record[c.op]]
    BY <1>8 DEF ConflictingDelivery, RInv, RepositoryTypeOK
  <2>2. record[c.op].callbacks = Applied(c.op)
    BY DEF Applied
  <2> QED
    BY <1>1, <1>2, <1>6, <2>1, <2>2, WriteRow DEF AppliedKept
<1> QED
  BY <1>7, <1>8

LEMMA UnchangedStep ==
    ASSUME RInv, UNCHANGED repositoryVars
    PROVE  RInv' /\ RowsKept /\ AppliedKept
  BY DEF RInv, RepositoryTypeOK, ClaimedOnce, RowsKept, RowKept, Registered,
         AppliedKept, Applied, repositoryVars

LEMMA ApplyCallbackStep ==
    ASSUME RInv, NEW c \in Callbacks, ApplyCallback(c)
    PROVE  RInv' /\ RowsKept
<1>1. Registered(c.op)
  BY DEF ApplyCallback
<1>2. CASE FirstDelivery(c)
  BY <1>1, <1>2, FirstDeliveryStep
<1>3. CASE Redelivery(c)
  BY <1>3, UnchangedStep DEF Redelivery
<1>4. CASE ConflictingDelivery(c)
  BY <1>1, <1>4, ConflictingDeliveryStep
<1> QED
  BY <1>2, <1>3, <1>4 DEF ApplyCallback

(* Every operation of the repository keeps types, claims and rows.         *)
LEMMA RepositoryStep ==
    ASSUME RInv, RepositoryNext
    PROVE  RInv' /\ RowsKept
<1>1. CASE \E o \in Ops, terms \in Terms : Register(o, terms)
  BY <1>1, RegisterStep
<1>2. CASE \E o \in Ops, call \in Calls :
                Transition(o, call.to, call.source, call.ext, NoEvent)
  <2>1. PICK o \in Ops, call \in Calls :
                Transition(o, call.to, call.source, call.ext, NoEvent)
    BY <1>2
  <2>2. call.to \in Status /\ call.source \in Sources /\ call.ext \in MaybeExt
    BY CallsAssumption
  <2> QED
    BY <2>1, <2>2, TransitionStep
<1>3. CASE \E o \in Ops : ClaimSend(o)
  BY <1>3, ClaimSendStep
<1>4. CASE RecoverSending
  BY <1>4, RecoverSendingStep
<1>5. CASE \E c \in Callbacks : ApplyCallback(c)
  BY <1>5, ApplyCallbackStep
<1> QED
  BY <1>1, <1>2, <1>3, <1>4, <1>5 DEF RepositoryNext

LEMMA RepositoryStart ==
    ASSUME RepositoryInit
    PROVE  RInv /\ InboxAgrees
  BY DEF RepositoryInit, RInv, RepositoryTypeOK, ClaimedOnce, InboxAgrees, Registered

-----------------------------------------------------------------------------
(* The tables hold what they should: the type invariant of the repository, *)
(* for any callers of its operations.                                      *)
THEOREM RepositoryTypeCorrect == RepositorySpec => []RepositoryTypeOK
<1>1. RepositoryInit => RInv
  BY RepositoryStart
<1>2. RInv /\ [RepositoryNext]_repositoryVars => RInv'
  BY RepositoryStep, UnchangedStep
<1>3. RInv => RepositoryTypeOK
  BY DEF RInv
<1> QED
  BY <1>1, <1>2, <1>3, PTL DEF RepositorySpec

(* claim_send grants an operation once, whatever is done to it before and  *)
(* after.                                                                  *)
THEOREM RepositoryClaimsOnce == RepositorySpec => []ClaimedOnce
<1>1. RepositoryInit => RInv
  BY RepositoryStart
<1>2. RInv /\ [RepositoryNext]_repositoryVars => RInv'
  BY RepositoryStep, UnchangedStep
<1>3. RInv => ClaimedOnce
  BY DEF RInv
<1> QED
  BY <1>1, <1>2, <1>3, PTL DEF RepositorySpec

-----------------------------------------------------------------------------
(* The inbox and the operations.                                           *)

(* What is listed and what the inbox holds change together, by a first     *)
(* delivery, or not at all.                                                *)
LEMMA AppliedSteps ==
    ASSUME RInv, [RepositoryNext]_repositoryVars
    PROVE  \/ AppliedKept /\ inbox' = inbox
           \/ \E c \in Callbacks :
                  /\ inbox[c.event] = NoCallback /\ inbox' = [inbox EXCEPT ![c.event] = c]
                  /\ \A q \in Ops : Applied(q)' =
                          IF q = c.op THEN Applied(q) \cup {c.event} ELSE Applied(q)
<1>1. CASE \E o \in Ops, terms \in Terms : Register(o, terms)
  BY <1>1, RegisterStep DEF Register
<1>2. CASE \E o \in Ops, call \in Calls :
                Transition(o, call.to, call.source, call.ext, NoEvent)
  <2>1. PICK o \in Ops, call \in Calls :
                Transition(o, call.to, call.source, call.ext, NoEvent)
    BY <1>2
  <2>2. call.to \in Status /\ call.source \in Sources /\ call.ext \in MaybeExt
    BY CallsAssumption
  <2>3. inbox' = inbox
    BY <2>1 DEF Transition
  <2> QED
    BY <2>1, <2>2, <2>3, TransitionStep
<1>3. CASE \E o \in Ops : ClaimSend(o)
  BY <1>3, ClaimSendStep DEF ClaimSend
<1>4. CASE RecoverSending
  BY <1>4, RecoverSendingStep DEF RecoverSending
<1>5. CASE \E c \in Callbacks : ApplyCallback(c)
  <2>1. PICK c \in Callbacks : ApplyCallback(c)
    BY <1>5
  <2>2. CASE FirstDelivery(c)
    <3>1. \A q \in Ops : Applied(q)' =
                IF q = c.op THEN Applied(q) \cup {c.event} ELSE Applied(q)
      BY <2>1, <2>2, FirstDeliveryStep DEF ApplyCallback
    <3> QED
      BY <2>2, <3>1 DEF FirstDelivery
  <2>3. CASE Redelivery(c)
    BY <2>3, UnchangedStep DEF Redelivery, repositoryVars
  <2>4. CASE ConflictingDelivery(c)
    BY <2>1, <2>4, ConflictingDeliveryStep DEF ApplyCallback, ConflictingDelivery
  <2> QED
    BY <2>1, <2>2, <2>3, <2>4 DEF ApplyCallback
<1>6. CASE UNCHANGED repositoryVars
  BY <1>6, UnchangedStep DEF repositoryVars
<1> QED
  BY <1>1, <1>2, <1>3, <1>4, <1>5, <1>6 DEF RepositoryNext

LEMMA InboxStep ==
    ASSUME RInv, InboxAgrees, [RepositoryNext]_repositoryVars
    PROVE  InboxAgrees'
<1>1. \A e \in Events, o \in Ops :
            (inbox[e] # NoCallback /\ inbox[e].op = o) <=> e \in Applied(o)
  BY DEF InboxAgrees, Applied
<1>2. SUFFICES \A e \in Events, o \in Ops :
            (inbox'[e] # NoCallback /\ inbox'[e].op = o) <=> e \in Applied(o)'
  BY DEF InboxAgrees, Applied
<1>3. CASE AppliedKept /\ inbox' = inbox
  BY <1>1, <1>3 DEF AppliedKept
<1>4. ASSUME NEW c \in Callbacks,
             inbox[c.event] = NoCallback, inbox' = [inbox EXCEPT ![c.event] = c],
             \A q \in Ops : Applied(q)' =
                    IF q = c.op THEN Applied(q) \cup {c.event} ELSE Applied(q),
             NEW e \in Events, NEW o \in Ops
      PROVE  (inbox'[e] # NoCallback /\ inbox'[e].op = o) <=> e \in Applied(o)'
  <2>1. inbox \in [Events -> Callbacks \cup {NoCallback}]
    BY DEF RInv, RepositoryTypeOK
  <2>2. c.event \in Events /\ c.op \in Ops /\ c # NoCallback
    BY CallbackType
  <2>3. CASE e = c.event
    BY <1>1, <1>4, <2>1, <2>2, <2>3
  <2>4. CASE e # c.event
    BY <1>1, <1>4, <2>1, <2>2, <2>4
  <2> QED
    BY <2>3, <2>4
<1> QED
  BY <1>3, <1>4, AppliedSteps

(* A callback is in the inbox exactly when its operation lists it: what    *)
(* the inbox suppresses was applied, and nothing is applied behind its     *)
(* back.                                                                   *)
THEOREM RepositoryInboxAgrees == RepositorySpec => []InboxAgrees
<1> DEFINE I == RInv /\ InboxAgrees
<1>1. RepositoryInit => I
  BY RepositoryStart
<1>2. I /\ [RepositoryNext]_repositoryVars => I'
  BY RepositoryStep, UnchangedStep, InboxStep
<1>3. I => InboxAgrees
  OBVIOUS
<1> QED
  BY <1>1, <1>2, <1>3, PTL DEF RepositorySpec
==========================================================================
