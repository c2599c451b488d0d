----------------------- MODULE RepositoryHistoryProofs -----------------------
(***************************************************************************)
(* What an operation's row tells of its past, for any sequence of calls of *)
(* the repository: every call leaves a row alone, begins it, or carries it *)
(* one move further. From this follow the audit trail, the history that is *)
(* never rewritten, the single move of an event, and that a conflict is    *)
(* never silent.                                                           *)
(***************************************************************************)
EXTENDS RepositoryProofs, SequenceTheorems

(* Row n continues r by one move of the table. A move made for an event of *)
(* the bank is the event's first one in this row.                          *)
OneMove(r, n) ==
    \E a \in AuditEvent :
        /\ n.audit = Append(r.audit, a)
        /\ a.old = r.status
        /\ a.new = n.status
        /\ a.new \in TRANSITIONS[a.old]
        /\ (a.source = "callback" /\ a.event \in Events)
                => a.event \in n.callbacks \ r.callbacks

SameStory(r, n) == n.audit = r.audit /\ n.status = r.status

CarriedOn(r, n) ==
    /\ n.terms = r.terms
    /\ n.error = r.error
    /\ r.ext # NoExt => n.ext # NoExt
    /\ r.callbacks \subseteq n.callbacks
    /\ SameStory(r, n) \/ OneMove(r, n)

RowCarriedOn(o) ==
    IF Registered(o)
    THEN Registered(o)' /\ CarriedOn(record[o], record'[o])
    ELSE Registered(o)' => \E terms \in Terms : record'[o] = NewRecord(terms)

RowsCarriedOn == \A o \in Ops : RowCarriedOn(o)

-----------------------------------------------------------------------------
(* One row.                                                                *)

LEMMA SameRow == \A r : CarriedOn(r, r)
  BY DEF CarriedOn, SameStory

\* A move on behalf of anybody but the bank.
LEMMA MoveCarriesOn ==
    ASSUME NEW r \in IntegrationRecord, NEW to \in TRANSITIONS[r.status],
           NEW source \in Sources, NEW ext \in MaybeExt,
           NEW event \in Events \cup {NoEvent},
           source # "callback" \/ event = NoEvent
    PROVE  CarriedOn(r, Moved(r, to, source, ext, event))
<1> DEFINE a == [old |-> r.status, new |-> to, source |-> source, ext |-> ext, event |-> event]
           n == Moved(r, to, source, ext, event)
<1>1. r.status \in Status /\ to \in Status
  BY Table DEF IntegrationRecord
<1>2. a \in AuditEvent
  BY <1>1 DEF AuditEvent
<1>3. /\ n.audit = Append(r.audit, a) /\ n.status = to /\ n.terms = r.terms
      /\ n.error = r.error /\ n.callbacks = r.callbacks /\ (r.ext # NoExt => n.ext # NoExt)
  BY DEF Moved, IntegrationRecord
<1>4. ~(a.source = "callback" /\ a.event \in Events)
  BY NoEventAssumption
<1> HIDE DEF n
<1>5. OneMove(r, n)
  BY <1>2, <1>3, <1>4 DEF OneMove
<1> QED
  BY <1>3, <1>5 DEF CarriedOn, n

LEMMA TransitionCarriesOn ==
    ASSUME NEW r \in IntegrationRecord, NEW to \in Status, Permitted(r, to),
           NEW source \in Sources, NEW ext \in MaybeExt
    PROVE  CarriedOn(r, TransitionRecord(r, to, source, ext, NoEvent))
<1>1. CASE to = r.status
  BY <1>1, SameRow DEF TransitionRecord
<1>2. CASE to # r.status
  BY <1>2, MoveCarriesOn DEF TransitionRecord, Permitted, CanMove
<1> QED
  BY <1>1, <1>2

\* The first delivery of an event the row does not list yet.
LEMMA DeliveryCarriesOn ==
    ASSUME NEW r \in IntegrationRecord, NEW to \in Status, Permitted(r, to),
           NEW ext \in MaybeExt, NEW event \in Events, event \notin r.callbacks
    PROVE  CarriedOn(r, Received(TransitionRecord(r, to, "callback", ext, event), event))
<1> DEFINE t == TransitionRecord(r, to, "callback", ext, event)
           n == Received(t, event)
           a == [old |-> r.status, new |-> to, source |-> "callback", ext |-> ext, event |-> event]
<1>1. CASE to = r.status
  <2>1. n = [r EXCEPT !.callbacks = @ \cup {event}]
    BY <1>1 DEF TransitionRecord, Received
  <2>2. /\ n.terms = r.terms /\ n.error = r.error /\ n.ext = r.ext /\ n.audit = r.audit /\ n.status = r.status
        /\ n.callbacks = r.callbacks \cup {event}
    BY <2>1 DEF IntegrationRecord
  <2> QED
    BY <2>2 DEF CarriedOn, SameStory
<1>2. CASE to # r.status
  <2>1. to \in TRANSITIONS[r.status] /\ r.status \in Status
    BY <1>2 DEF Permitted, CanMove, IntegrationRecord
  <2>2. a \in AuditEvent
    BY <2>1 DEF AuditEvent, Sources
  <2>3. t = Moved(r, to, "callback", ext, event)
    BY <1>2 DEF TransitionRecord
  <2>4. /\ t.audit = Append(r.audit, a) /\ t.status = to /\ t.terms = r.terms
        /\ t.error = r.error
        /\ t.callbacks = r.callbacks /\ (r.ext # NoExt => t.ext # NoExt)
        /\ t \in IntegrationRecord
    <3>1. "callback" \in Sources
      BY DEF Sources
    <3>2. t \in IntegrationRecord
      BY <3>1, <2>3, MovedFields
    <3> QED
      BY <2>3, <3>2 DEF Moved, IntegrationRecord
  <2> HIDE DEF t
  <2>5. /\ n.audit = Append(r.audit, a) /\ n.status = to /\ n.terms = r.terms
        /\ n.error = r.error
        /\ n.callbacks = r.callbacks \cup {event} /\ (r.ext # NoExt => n.ext # NoExt)
    BY <2>4 DEF Received, IntegrationRecord
  <2> HIDE DEF n
  <2>6. OneMove(r, n)
    BY <2>1, <2>2, <2>5 DEF OneMove
  <2> QED
    BY <2>5, <2>6 DEF CarriedOn, n, t
<1> QED
  BY <1>1, <1>2

-----------------------------------------------------------------------------
(* The table.                                                              *)

LEMMA WriteCarriesOn ==
    ASSUME RepositoryTypeOK, NEW o \in Ops, Registered(o),
           NEW n \in IntegrationRecord, CarriedOn(record[o], n),
           record' = [record EXCEPT ![o] = n]
    PROVE  RowsCarriedOn
<1> SUFFICES ASSUME NEW q \in Ops PROVE RowCarriedOn(q)
  BY DEF RowsCarriedOn
<1>1. record'[q] = IF q = o THEN n ELSE record[q]
  BY DEF RepositoryTypeOK
<1>2. CASE q = o
  BY <1>1, <1>2, NoRecordIsNone DEF RowCarriedOn, Registered
<1>3. CASE q # o
  BY <1>1, <1>3, SameRow DEF RowCarriedOn, Registered
<1> QED
  BY <1>2, <1>3

LEMMA TableUntouched ==
    ASSUME record' = record
    PROVE  RowsCarriedOn
  BY SameRow DEF RowsCarriedOn, RowCarriedOn, Registered

LEMMA RegisterCarriesOn ==
    ASSUME RepositoryTypeOK, NEW o \in Ops, NEW terms \in Terms, Register(o, terms)
    PROVE  RowsCarriedOn
<1> SUFFICES ASSUME NEW q \in Ops PROVE RowCarriedOn(q)
  BY DEF RowsCarriedOn
<1>1. record'[q] = IF q = o THEN RowAfterRegister(o, terms) ELSE record[q]
  BY DEF RepositoryTypeOK, Register
<1>2. CASE q = o /\ ~Registered(o)
  BY <1>1, <1>2 DEF RowCarriedOn, RowAfterRegister, Registered
<1>3. CASE q # o \/ Registered(o)
  <2>1. record'[q] = record[q]
    BY <1>1, <1>3 DEF RowAfterRegister
  <2> QED
    BY <2>1, SameRow DEF RowCarriedOn, Registered
<1> QED
  BY <1>2, <1>3

LEMMA ClaimCarriesOn ==
    ASSUME RInv, NEW o \in Ops, ClaimSend(o)
    PROVE  RowsCarriedOn
<1> DEFINE c == Attempted(record[o])
           n == Moved(c, "sending", "send-claim", NoExt, NoEvent)
<1>1. Registered(o) /\ record[o].status = "ready_to_send" /\ record[o] \in IntegrationRecord
  BY RowType DEF ClaimSend, Claimable, RInv
<1>2. /\ c \in IntegrationRecord /\ c.status = "ready_to_send"
      /\ c.terms = record[o].terms /\ c.error = record[o].error /\ c.ext = record[o].ext
      /\ c.callbacks = record[o].callbacks /\ c.audit = record[o].audit
  BY <1>1 DEF Attempted, IntegrationRecord
<1>3. /\ "sending" \in TRANSITIONS["ready_to_send"] /\ "sending" \in Status
      /\ "send-claim" \in Sources /\ NoExt \in MaybeExt
  BY DEF TRANSITIONS, Status, Sources, MaybeExt
<1>4. record' = [record EXCEPT ![o] = n]
  BY DEF ClaimSend
<1> HIDE DEF c
<1>5. n \in IntegrationRecord
  BY <1>2, <1>3, MovedFields
<1>6. CarriedOn(c, n)
  BY <1>2, <1>3, MoveCarriesOn
<1> HIDE DEF n
<1>7. CarriedOn(record[o], n)
  BY <1>1, <1>2, <1>6 DEF CarriedOn, SameStory, OneMove
<1> QED
  BY <1>1, <1>4, <1>5, <1>7, WriteCarriesOn DEF RInv

LEMMA RecoverCarriesOn ==
    ASSUME RepositoryTypeOK, RecoverSending
    PROVE  RowsCarriedOn
<1> SUFFICES ASSUME NEW q \in Ops PROVE RowCarriedOn(q)
  BY DEF RowsCarriedOn
<1> DEFINE n == Moved(record[q], "outcome_unknown", "startup_recovery", NoExt, NoEvent)
<1>1. record'[q] = IF Sending(q) THEN n ELSE record[q]
  BY DEF RecoverSending
<1>2. CASE Sending(q)
  <2>1. Registered(q) /\ record[q] \in IntegrationRecord /\ record[q].status = "sending"
    BY <1>2, RowType DEF Sending
  <2>2. /\ "outcome_unknown" \in TRANSITIONS["sending"] /\ "outcome_unknown" \in Status
        /\ "startup_recovery" \in Sources /\ NoExt \in MaybeExt
    BY DEF TRANSITIONS, Status, Sources, MaybeExt
  <2>3. n \in IntegrationRecord
    BY <2>1, <2>2, MovedFields
  <2>4. CarriedOn(record[q], n)
    BY <2>1, <2>2, MoveCarriesOn
  <2> HIDE DEF n
  <2> QED
    BY <1>1, <1>2, <2>1, <2>3, <2>4, NoRecordIsNone DEF RowCarriedOn, Registered
<1>3. CASE ~Sending(q)
  BY <1>1, <1>3, SameRow DEF RowCarriedOn, Registered
<1> QED
  BY <1>2, <1>3

\* Half of InboxAgrees, and all that a stale save leaves of it: an event row r
\* of o lists was received for o.
ReceivedFor(r, o) == \A e \in Events \cap r.callbacks :
                        inbox[e] # NoCallback /\ inbox[e].op = o

ListedAreReceived == \A o \in Ops : Registered(o) => ReceivedFor(record[o], o)

LEMMA AgreedAreReceived ==
    ASSUME InboxAgrees
    PROVE  ListedAreReceived
  BY DEF InboxAgrees, ListedAreReceived, ReceivedFor

LEMMA ReceivedStep ==
    ASSUME RInv, ListedAreReceived, [RepositoryNext]_repositoryVars
    PROVE  ListedAreReceived'
<1>1. \A e \in Events, o \in Ops :
            e \in Applied(o) => inbox[e] # NoCallback /\ inbox[e].op = o
  BY DEF ListedAreReceived, ReceivedFor, Applied
<1>2. SUFFICES \A e \in Events, o \in Ops :
            e \in Applied(o)' => inbox'[e] # NoCallback /\ inbox'[e].op = o
  BY DEF ListedAreReceived, ReceivedFor, Applied
<1>3. CASE AppliedKept /\ inbox' = inbox
  BY <1>1, <1>3 DEF AppliedKept
<1>4. ASSUME NEW c \in Callbacks,
             inbox[c.event] = NoCallback, inbox' = [inbox EXCEPT ![c.event] = c],
             \A q \in Ops : Applied(q)' =
                    IF q = c.op THEN Applied(q) \cup {c.event} ELSE Applied(q),
             NEW e \in Events, NEW o \in Ops, e \in Applied(o)'
      PROVE  inbox'[e] # NoCallback /\ inbox'[e].op = o
  <2>1. inbox \in [Events -> Callbacks \cup {NoCallback}]
    BY DEF RInv, RepositoryTypeOK
  <2>2. c.event \in Events /\ c.op \in Ops /\ c # NoCallback
    BY CallbackType
  <2> QED
    BY <1>1, <1>4, <2>1, <2>2
<1> QED
  BY <1>3, <1>4, AppliedSteps

LEMMA CallbackCarriesOn ==
    ASSUME RepositoryTypeOK, ListedAreReceived, NEW c \in Callbacks, ApplyCallback(c)
    PROVE  RowsCarriedOn
<1>1. /\ c.event \in Events /\ c.op \in Ops
      /\ c.status \in Status /\ c.ext \in MaybeExt
  BY CallbackType
<1>2. Registered(c.op) /\ record[c.op] \in IntegrationRecord
  BY <1>1, RowType DEF ApplyCallback
<1>3. CASE FirstDelivery(c)
  <2> DEFINE t == TransitionRecord(record[c.op], c.status, "callback", c.ext, c.event)
             n == Received(t, c.event)
  <2>1. c.event \notin record[c.op].callbacks
    BY <1>1, <1>2, <1>3 DEF FirstDelivery, ListedAreReceived, ReceivedFor
  <2>2. Permitted(record[c.op], c.status) /\ record' = [record EXCEPT ![c.op] = n]
    BY <1>3 DEF FirstDelivery
  <2>3. CarriedOn(record[c.op], n)
    BY <1>1, <1>2, <2>1, <2>2, DeliveryCarriesOn
  <2>4. "callback" \in Sources
    BY DEF Sources
  <2>5. t \in IntegrationRecord
    BY <1>1, <1>2, <2>4, TransitionRecordFields
  <2> HIDE DEF t
  <2>6. n \in IntegrationRecord
    BY <1>1, <2>5 DEF Received, IntegrationRecord
  <2> HIDE DEF n
  <2> QED
    BY <1>1, <1>2, <2>2, <2>3, <2>6, WriteCarriesOn
<1>4. CASE Redelivery(c)
  BY <1>4, TableUntouched DEF Redelivery, repositoryVars
<1>5. CASE ConflictingDelivery(c) /\ CanMove(record[c.op], "manual_check")
  <2> DEFINE n == Moved(record[c.op], "manual_check", "callback_conflict", c.ext, c.event)
  <2>1. record' = [record EXCEPT ![c.op] = n]
    BY <1>5 DEF ConflictingDelivery
  <2>2. "manual_check" \in Status /\ "callback_conflict" \in Sources
    BY DEF Status, Sources
  <2>3. n \in IntegrationRecord
    BY <1>1, <1>2, <2>2, MovedFields
  <2>4. CarriedOn(record[c.op], n)
    BY <1>1, <1>2, <1>5, <2>2, MoveCarriesOn DEF CanMove
  <2> HIDE DEF n
  <2> QED
    BY <1>1, <1>2, <2>1, <2>3, <2>4, WriteCarriesOn
<1>6. CASE ConflictingDelivery(c) /\ ~CanMove(record[c.op], "manual_check")
  BY <1>6, TableUntouched DEF ConflictingDelivery
<1> QED
  BY <1>3, <1>4, <1>5, <1>6 DEF ApplyCallback

(* Every call of the repository carries every row on.                      *)
LEMMA StepCarriesOn ==
    ASSUME RInv, ListedAreReceived, [RepositoryNext]_repositoryVars
    PROVE  RowsCarriedOn
<1> USE DEF RInv
<1>1. CASE \E o \in Ops, terms \in Terms : Register(o, terms)
  BY <1>1, RegisterCarriesOn
<1>2. CASE \E o \in Ops, call \in Calls :
                Transition(o, call.to, call.source, call.ext, NoEvent)
  <2>1. PICK o \in Ops, call \in Calls :
                Transition(o, call.to, call.source, call.ext, NoEvent)
    BY <1>2
  <2> DEFINE n == TransitionRecord(record[o], call.to, call.source, call.ext, NoEvent)
  <2>2. call.to \in Status /\ call.source \in Sources /\ call.ext \in MaybeExt
    BY CallsAssumption
  <2>3. /\ Registered(o) /\ Permitted(record[o], call.to)
        /\ record' = [record EXCEPT ![o] = n]
    BY <2>1 DEF Transition
  <2>4. record[o] \in IntegrationRecord
    BY <2>3, RowType
  <2>5. n \in IntegrationRecord
    BY <2>2, <2>4, TransitionRecordFields
  <2>6. CarriedOn(record[o], n)
    BY <2>2, <2>3, <2>4, TransitionCarriesOn
  <2> HIDE DEF n
  <2> QED
    BY <2>3, <2>5, <2>6, WriteCarriesOn
<1>3. CASE \E o \in Ops : ClaimSend(o)
  BY <1>3, ClaimCarriesOn
<1>4. CASE RecoverSending
  BY <1>4, RecoverCarriesOn
<1>5. CASE \E c \in Callbacks : ApplyCallback(c)
  BY <1>5, CallbackCarriesOn
<1>6. CASE UNCHANGED repositoryVars
  BY <1>6, TableUntouched DEF repositoryVars
<1> QED
  BY <1>1, <1>2, <1>3, <1>4, <1>5, <1>6 DEF RepositoryNext

-----------------------------------------------------------------------------
(* The audit trail of a row.                                               *)
Before(r, i) == IF i = 1 THEN "prepared" ELSE r.audit[i - 1].new

Story(r) ==
    /\ \A i \in DOMAIN r.audit :
            /\ r.audit[i].old = Before(r, i)
            /\ r.audit[i].new \in TRANSITIONS[r.audit[i].old]
    /\ r.status = Before(r, Len(r.audit) + 1)

\* The events of the bank that moved the row are listed, and each moved it once.
MovedBy(r, i, e) == r.audit[i].source = "callback" /\ r.audit[i].event = e

EventsOnce(r) ==
    \A e \in Events :
        /\ \A i \in DOMAIN r.audit : MovedBy(r, i, e) => e \in r.callbacks
        /\ \A i, j \in DOMAIN r.audit : (MovedBy(r, i, e) /\ MovedBy(r, j, e)) => i = j

LEMMA NewStory ==
    ASSUME NEW terms \in Terms
    PROVE  Story(NewRecord(terms)) /\ EventsOnce(NewRecord(terms))
<1> DEFINE n == NewRecord(terms)
<1>1. n.audit = <<>> /\ n.status = "prepared"
  BY DEF NewRecord
<1> HIDE DEF n
<1>2. DOMAIN n.audit = {} /\ Len(n.audit) = 0
  BY <1>1
<1> QED
  BY <1>1, <1>2 DEF Story, EventsOnce, Before, n

LEMMA AuditGrows ==
    ASSUME NEW r \in IntegrationRecord, NEW a \in AuditEvent, NEW s,
           s = Append(r.audit, a)
    PROVE  /\ r.audit \in Seq(AuditEvent) /\ Len(r.audit) \in Nat
           /\ Len(s) = Len(r.audit) + 1
           /\ DOMAIN s = DOMAIN r.audit \cup {Len(r.audit) + 1}
           /\ DOMAIN r.audit = 1 .. Len(r.audit)
           /\ \A i \in DOMAIN r.audit : s[i] = r.audit[i]
           /\ s[Len(r.audit) + 1] = a
<1>1. r.audit \in Seq(AuditEvent)
  BY DEF IntegrationRecord
<1> QED
  BY <1>1

\* One more move, on whosever behalf.
LEMMA StoryMoves ==
    ASSUME NEW r \in IntegrationRecord, NEW n, NEW a \in AuditEvent, Story(r),
           n.audit = Append(r.audit, a), a.old = r.status, a.new = n.status,
           a.new \in TRANSITIONS[a.old]
    PROVE  Story(n)
<1> DEFINE m == Len(r.audit)
<1>1. /\ m \in Nat /\ Len(n.audit) = m + 1
      /\ DOMAIN n.audit = DOMAIN r.audit \cup {m + 1}
      /\ DOMAIN r.audit = 1 .. m
      /\ \A i \in DOMAIN r.audit : n.audit[i] = r.audit[i]
      /\ n.audit[m + 1] = a
  BY AuditGrows
<1> HIDE DEF m
<1>2. ASSUME NEW i \in 1 .. (m + 1) PROVE Before(n, i) = Before(r, i)
  <2>1. i = 1 \/ i - 1 \in DOMAIN r.audit
    BY <1>1
  <2> QED
    BY <1>1, <2>1 DEF Before
<1>3. ASSUME NEW i \in DOMAIN n.audit
      PROVE  /\ n.audit[i].old = Before(n, i)
             /\ n.audit[i].new \in TRANSITIONS[n.audit[i].old]
  <2>1. CASE i \in DOMAIN r.audit
    <3>1. n.audit[i] = r.audit[i] /\ Before(n, i) = Before(r, i)
      BY <1>1, <1>2, <2>1
    <3> QED
      BY <2>1, <3>1 DEF Story
  <2>2. CASE i = m + 1
    <3>1. n.audit[i] = a /\ Before(n, i) = Before(r, i)
      BY <1>1, <1>2, <2>2
    <3>2. Before(r, i) = r.status
      BY <2>2 DEF Story, m
    <3> QED
      BY <3>1, <3>2
  <2> QED
    BY <1>1, <2>1, <2>2
<1>4. n.status = Before(n, Len(n.audit) + 1)
  <2>1. Before(n, m + 2) = n.audit[m + 1].new
    BY <1>1 DEF Before
  <2> QED
    BY <1>1, <2>1
<1> QED
  BY <1>3, <1>4 DEF Story

LEMMA StoryGoesOn ==
    ASSUME NEW r \in IntegrationRecord, NEW n, CarriedOn(r, n), Story(r)
    PROVE  Story(n)
<1>1. CASE SameStory(r, n)
  BY <1>1 DEF SameStory, Story, Before
<1>2. CASE OneMove(r, n)
  BY <1>2, StoryMoves DEF OneMove
<1> QED
  BY <1>1, <1>2 DEF CarriedOn

LEMMA EventsStayOnce ==
    ASSUME NEW r \in IntegrationRecord, NEW n, CarriedOn(r, n), EventsOnce(r)
    PROVE  EventsOnce(n)
<1>1. r.callbacks \subseteq n.callbacks
  BY DEF CarriedOn
<1>2. CASE SameStory(r, n)
  BY <1>1, <1>2 DEF SameStory, EventsOnce, MovedBy
<1>3. CASE OneMove(r, n)
  <2>1. PICK a \in AuditEvent :
            /\ n.audit = Append(r.audit, a)
            /\ (a.source = "callback" /\ a.event \in Events)
                    => a.event \in n.callbacks \ r.callbacks
    BY <1>3 DEF OneMove
  <2> DEFINE m == Len(r.audit)
  <2>2. /\ DOMAIN n.audit = DOMAIN r.audit \cup {m + 1}
        /\ \A i \in DOMAIN r.audit : n.audit[i] = r.audit[i]
        /\ n.audit[m + 1] = a
    BY <2>1, AuditGrows
  <2> HIDE DEF m
  <2> SUFFICES ASSUME NEW e \in Events
               PROVE  /\ \A i \in DOMAIN n.audit : MovedBy(n, i, e) => e \in n.callbacks
                      /\ \A i, j \in DOMAIN n.audit :
                              (MovedBy(n, i, e) /\ MovedBy(n, j, e)) => i = j
    BY DEF EventsOnce
  <2>3. ASSUME NEW i \in DOMAIN r.audit, MovedBy(n, i, e)
        PROVE  MovedBy(r, i, e) /\ e \in r.callbacks
    BY <2>2, <2>3 DEF MovedBy, EventsOnce
  <2>4. MovedBy(n, m + 1, e) => e \in n.callbacks \ r.callbacks
    BY <2>1, <2>2 DEF MovedBy
  <2>5. \A i \in DOMAIN n.audit : MovedBy(n, i, e) => e \in n.callbacks
    BY <1>1, <2>2, <2>3, <2>4
  <2>6. ASSUME NEW i \in DOMAIN n.audit, NEW j \in DOMAIN n.audit,
               MovedBy(n, i, e), MovedBy(n, j, e)
        PROVE  i = j
    <3>1. CASE i \in DOMAIN r.audit /\ j \in DOMAIN r.audit
      BY <2>3, <2>6, <3>1 DEF EventsOnce
    <3>2. CASE i = m + 1 /\ j = m + 1
      BY <3>2
    <3>3. CASE i \in DOMAIN r.audit /\ j = m + 1
      BY <2>3, <2>4, <2>6, <3>3
    <3>4. CASE i = m + 1 /\ j \in DOMAIN r.audit
      BY <2>3, <2>4, <2>6, <3>4
    <3> QED
      BY <2>2, <3>1, <3>2, <3>3, <3>4
  <2> QED
    BY <2>5, <2>6
<1> QED
  BY <1>2, <1>3 DEF CarriedOn

-----------------------------------------------------------------------------
(* The invariant: types and claims, the inbox, the stories of all rows.    *)
RowsTell == \A o \in Ops : Registered(o) => Story(record[o]) /\ EventsOnce(record[o])

HistoryInv == RInv /\ InboxAgrees /\ RowsTell

LEMMA HistoryStart ==
    ASSUME RepositoryInit
    PROVE  HistoryInv
  BY RepositoryStart DEF RepositoryInit, HistoryInv, RowsTell, Registered

LEMMA RowsGoOn ==
    ASSUME RepositoryTypeOK, RowsTell, RowsCarriedOn
    PROVE  RowsTell'
<1> SUFFICES ASSUME NEW o \in Ops, Registered(o)'
             PROVE  Story(record'[o]) /\ EventsOnce(record'[o])
  BY DEF RowsTell, Story, EventsOnce, Before, MovedBy
<1>1. CASE Registered(o)
  <2>1. record[o] \in IntegrationRecord
    BY <1>1, RowType
  <2>2. CarriedOn(record[o], record'[o])
    BY <1>1 DEF RowsCarriedOn, RowCarriedOn
  <2> QED
    BY <1>1, <2>1, <2>2, StoryGoesOn, EventsStayOnce DEF RowsTell
<1>2. CASE ~Registered(o)
  <2>1. PICK terms \in Terms : record'[o] = NewRecord(terms)
    BY <1>2 DEF RowsCarriedOn, RowCarriedOn
  <2> QED
    BY <2>1, NewStory
<1> QED
  BY <1>1, <1>2

LEMMA HistoryStep ==
    ASSUME HistoryInv, [RepositoryNext]_repositoryVars
    PROVE  HistoryInv'
<1>1. RInv' /\ InboxAgrees'
  BY RepositoryStep, UnchangedStep, InboxStep DEF HistoryInv
<1>2. RowsTell'
  BY AgreedAreReceived, StepCarriesOn, RowsGoOn DEF HistoryInv, RInv
<1> QED
  BY <1>1, <1>2 DEF HistoryInv

LEMMA HistoryTold ==
    ASSUME HistoryInv
    PROVE  AuditTellsStatus /\ EventMovesOnce
<1>1. AuditTellsStatus
  BY DEF HistoryInv, RowsTell, Story, Before, AuditTellsStatus
<1>2. ASSUME NEW e \in Events, NEW o1 \in Ops, NEW o2 \in Ops,
             Registered(o1), Registered(o2),
             NEW i \in DOMAIN record[o1].audit, NEW j \in DOMAIN record[o2].audit,
             MovedBy(record[o1], i, e), MovedBy(record[o2], j, e)
      PROVE  o1 = o2 /\ i = j
  <2>1. e \in record[o1].callbacks /\ e \in record[o2].callbacks
    BY <1>2 DEF HistoryInv, RowsTell, EventsOnce
  <2>2. inbox[e].op = o1 /\ inbox[e].op = o2
    BY <1>2, <2>1 DEF HistoryInv, InboxAgrees
  <2> QED
    BY <1>2, <2>2 DEF HistoryInv, RowsTell, EventsOnce
<1>3. EventMovesOnce
  <2>1. ASSUME NEW e \in Events,
               NEW o1 \in {o \in Ops : Registered(o)}, NEW o2 \in {o \in Ops : Registered(o)},
               NEW i \in DOMAIN record[o1].audit, NEW j \in DOMAIN record[o2].audit
        PROVE  LET a == record[o1].audit[i]
                   b == record[o2].audit[j]
               IN  (a.event = e /\ b.event = e /\ a.source = b.source
                       /\ a.source = "callback") => (o1 = o2 /\ i = j)
    BY <1>2 DEF MovedBy
  <2> QED
    BY <2>1, Zenon DEF EventMovesOnce
<1> QED
  BY <1>1, <1>3

(* The audit trail of an operation is a path through the table from        *)
(* prepared to its status, whoever calls whatever.                         *)
THEOREM RepositoryAuditTells == RepositorySpec => []AuditTellsStatus
<1>1. RepositoryInit => HistoryInv
  BY HistoryStart
<1>2. HistoryInv /\ [RepositoryNext]_repositoryVars => HistoryInv'
  BY HistoryStep
<1>3. HistoryInv => AuditTellsStatus
  BY HistoryTold
<1> QED
  BY <1>1, <1>2, <1>3, PTL DEF RepositorySpec

(* An event of the bank moves one operation, once, however often it is     *)
(* delivered and whatever else it is reused for.                           *)
THEOREM RepositoryEventMovesOnce == RepositorySpec => []EventMovesOnce
<1>1. RepositoryInit => HistoryInv
  BY HistoryStart
<1>2. HistoryInv /\ [RepositoryNext]_repositoryVars => HistoryInv'
  BY HistoryStep
<1>3. HistoryInv => EventMovesOnce
  BY HistoryTold
<1> QED
  BY <1>1, <1>2, <1>3, PTL DEF RepositorySpec

-----------------------------------------------------------------------------
(* What a step does to the past.                                           *)

LEMMA CarriedKeepsHistory ==
    ASSUME NEW r \in IntegrationRecord, NEW n \in IntegrationRecord, CarriedOn(r, n)
    PROVE  /\ Len(r.audit) <= Len(n.audit)
           /\ SubSeq(n.audit, 1, Len(r.audit)) = r.audit
           /\ Permitted(r, n.status)
<1>1. r.audit \in Seq(AuditEvent)
  BY DEF IntegrationRecord
<1>2. CASE SameStory(r, n)
  BY <1>1, <1>2 DEF SameStory, Permitted
<1>3. CASE OneMove(r, n)
  <2>1. PICK a \in AuditEvent :
            /\ n.audit = Append(r.audit, a) /\ a.old = r.status /\ a.new = n.status
            /\ a.new \in TRANSITIONS[a.old]
    BY <1>3 DEF OneMove
  <2>2. SubSeq(Append(r.audit, a), 1, Len(r.audit)) = r.audit
    BY <1>1, AppendProperties
  <2> QED
    BY <1>1, <2>1, <2>2 DEF Permitted, CanMove
<1> QED
  BY <1>2, <1>3 DEF CarriedOn

LEMMA RowKeepsHistory ==
    ASSUME RepositoryTypeOK, RepositoryTypeOK', RowsCarriedOn, NEW o \in Ops, Registered(o)
    PROVE  KeepsHistory(record[o], record'[o]) /\ record'[o].error = record[o].error
<1>1. Registered(o)' /\ CarriedOn(record[o], record'[o])
  BY DEF RowsCarriedOn, RowCarriedOn
<1>2. record[o] \in IntegrationRecord /\ record'[o] \in IntegrationRecord
  BY <1>1 DEF RepositoryTypeOK, Registered
<1> QED
  BY <1>1, <1>2, CarriedKeepsHistory DEF CarriedOn, KeepsHistory, Registered

(* No call of the repository rewrites the past of an operation: not its    *)
(* fingerprint, not its external id, not an audit event, not an event it   *)
(* has listed.                                                             *)
THEOREM RepositoryKeepsHistory == RepositorySpec => HistoryKept
<1>1. RepositoryInit => HistoryInv
  BY HistoryStart
<1>2. HistoryInv /\ [RepositoryNext]_repositoryVars => HistoryInv'
  BY HistoryStep
<1> DEFINE Kept == \A o \in Ops : Registered(o) => KeepsHistory(record[o], record'[o])
<1>3. HistoryInv /\ HistoryInv' /\ [RepositoryNext]_repositoryVars => [Kept]_repositoryVars
  <2> SUFFICES ASSUME HistoryInv, HistoryInv', [RepositoryNext]_repositoryVars,
                      NEW o \in Ops, Registered(o)
               PROVE  KeepsHistory(record[o], record'[o])
    OBVIOUS
  <2>1. RowsCarriedOn /\ RepositoryTypeOK /\ RepositoryTypeOK'
    BY AgreedAreReceived, StepCarriesOn DEF HistoryInv, RInv
  <2> QED
    BY <2>1, RowKeepsHistory
<1> HIDE DEF Kept
<1>4. RepositorySpec => [][Kept]_repositoryVars
  BY <1>1, <1>2, <1>3, PTL DEF RepositorySpec
<1> QED
  BY <1>4 DEF HistoryKept, Kept

-----------------------------------------------------------------------------
(* Conflicts.                                                              *)
Reviewed(o) == Registered(o) /\ record[o].status \in Terminal \cup {"manual_check"}

\* An event id with a conflict has a first payload.
ConflictsKnown == \A e \in conflicts : inbox[e] # NoCallback

LEMMA ReviewLasts ==
    ASSUME RepositoryTypeOK, RowsCarriedOn, NEW o \in Ops, Reviewed(o)
    PROVE  Reviewed(o)'
<1>1. Registered(o)' /\ CarriedOn(record[o], record'[o])
  BY DEF RowsCarriedOn, RowCarriedOn, Reviewed
<1>2. record[o].status \in Status
  BY RowType DEF Reviewed
<1>3. CASE record'[o].status = record[o].status
  BY <1>1, <1>3 DEF Reviewed
<1>4. CASE record'[o].status \in TRANSITIONS[record[o].status]
  <2>1. record[o].status = "manual_check"
    BY <1>2, <1>4 DEF Reviewed, Terminal
  <2>2. TRANSITIONS["manual_check"] \subseteq Terminal
    BY DEF TRANSITIONS, Terminal, Status
  <2> QED
    BY <1>1, <1>4, <2>1, <2>2 DEF Reviewed
<1> QED
  BY <1>1, <1>3, <1>4 DEF CarriedOn, SameStory, OneMove

LEMMA ConflictIsReviewed ==
    ASSUME RepositoryTypeOK, NEW c \in Callbacks, ApplyCallback(c), ConflictingDelivery(c)
    PROVE  Reviewed(c.op)'
<1>1. /\ c.op \in Ops /\ Registered(c.op)
      /\ record[c.op] \in IntegrationRecord /\ record[c.op].status \in Status
  BY CallbackType, RowType DEF ApplyCallback
<1>2. CASE CanMove(record[c.op], "manual_check")
  <2> DEFINE n == Moved(record[c.op], "manual_check", "callback_conflict", c.ext, c.event)
  <2>1. record'[c.op] = n
    BY <1>1, <1>2 DEF ConflictingDelivery, RepositoryTypeOK
  <2>2. n.status = "manual_check" /\ n \in IntegrationRecord
    <3>1. /\ "manual_check" \in Status /\ "callback_conflict" \in Sources
          /\ c.ext \in MaybeExt /\ c.event \in Events
      BY CallbackType DEF Status, Sources
    <3> QED
      BY <1>1, <3>1, MovedFields
  <2> HIDE DEF n
  <2> QED
    BY <2>1, <2>2, NoRecordIsNone DEF Reviewed, Registered
<1>3. CASE ~CanMove(record[c.op], "manual_check")
  <2>1. record' = record
    BY <1>3 DEF ConflictingDelivery
  <2>2. record[c.op].status \in Terminal \cup {"manual_check"}
    BY <1>1, <1>3 DEF CanMove, Status, TRANSITIONS, Terminal
  <2> QED
    BY <1>1, <2>1, <2>2 DEF Reviewed, Registered
<1> QED
  BY <1>2, <1>3

ConflictInv == HistoryInv /\ ConflictsKnown /\ ConflictIsNeverSilent

LEMMA ConflictStep ==
    ASSUME ConflictInv, [RepositoryNext]_repositoryVars
    PROVE  ConflictsKnown' /\ ConflictIsNeverSilent'
<1>1. RepositoryTypeOK /\ RowsCarriedOn
  BY AgreedAreReceived, StepCarriesOn DEF ConflictInv, HistoryInv, RInv
<1>2. ASSUME conflicts' = conflicts,
             \A e \in Events : inbox[e] # NoCallback => inbox'[e] = inbox[e]
      PROVE  ConflictsKnown' /\ ConflictIsNeverSilent'
  <2> SUFFICES ASSUME NEW e \in conflicts
               PROVE  /\ inbox'[e] # NoCallback
                      /\ \E c \in Callbacks : c.event = e /\ c # inbox'[e] /\ Reviewed(c.op)'
    BY <1>2 DEF ConflictsKnown, ConflictIsNeverSilent, Reviewed
  <2>1. e \in Events /\ inbox[e] # NoCallback /\ inbox'[e] = inbox[e]
    BY <1>1, <1>2 DEF RepositoryTypeOK, ConflictInv, ConflictsKnown
  <2>2. PICK c \in Callbacks : c.event = e /\ c # inbox[e] /\ Reviewed(c.op)
    BY DEF ConflictInv, ConflictIsNeverSilent, Reviewed
  <2>3. Reviewed(c.op)'
    BY <1>1, <2>2, ReviewLasts, CallbackType
  <2> QED
    BY <2>1, <2>2, <2>3
<1>3. ASSUME NEW c \in Callbacks, ApplyCallback(c), ConflictingDelivery(c)
      PROVE  ConflictsKnown' /\ ConflictIsNeverSilent'
  <2>1. /\ conflicts' = conflicts \cup {c.event} /\ inbox' = inbox
        /\ inbox[c.event] \notin {NoCallback, c}
    BY <1>3 DEF ConflictingDelivery
  <2>3. Reviewed(c.op)'
    BY <1>1, <1>3, ConflictIsReviewed
  <2>4. ASSUME NEW e \in conflicts
        PROVE  /\ inbox'[e] # NoCallback
               /\ \E d \in Callbacks : d.event = e /\ d # inbox'[e] /\ Reviewed(d.op)'
    <3>1. inbox[e] # NoCallback
      BY DEF ConflictInv, ConflictsKnown
    <3>2. PICK d \in Callbacks : d.event = e /\ d # inbox[e] /\ Reviewed(d.op)
      BY DEF ConflictInv, ConflictIsNeverSilent, Reviewed
    <3>3. Reviewed(d.op)'
      BY <1>1, <3>2, ReviewLasts, CallbackType
    <3> QED
      BY <2>1, <3>1, <3>2, <3>3
  <2>5. ASSUME NEW e \in conflicts'
        PROVE  /\ inbox'[e] # NoCallback
               /\ \E d \in Callbacks : d.event = e /\ d # inbox'[e] /\ Reviewed(d.op)'
    <3>1. CASE e \in conflicts
      BY <2>4, <3>1
    <3>2. CASE e = c.event
      BY <2>1, <2>3, <3>2
    <3> QED
      BY <2>1, <3>1, <3>2
  <2> QED
    BY <2>5 DEF ConflictsKnown, ConflictIsNeverSilent, Reviewed
<1>4. CASE \E o \in Ops, terms \in Terms : Register(o, terms)
  BY <1>2, <1>4 DEF Register
<1>5. CASE \E o \in Ops, call \in Calls :
                Transition(o, call.to, call.source, call.ext, NoEvent)
  BY <1>2, <1>5 DEF Transition
<1>6. CASE \E o \in Ops : ClaimSend(o)
  BY <1>2, <1>6 DEF ClaimSend
<1>7. CASE RecoverSending
  BY <1>2, <1>7 DEF RecoverSending
<1>8. ASSUME NEW c \in Callbacks, ApplyCallback(c)
      PROVE  ConflictsKnown' /\ ConflictIsNeverSilent'
  <2>1. CASE FirstDelivery(c)
    <3>1. inbox[c.event] = NoCallback /\ inbox' = [inbox EXCEPT ![c.event] = c]
      BY <2>1 DEF FirstDelivery
    <3>2. \A e \in Events : inbox[e] # NoCallback => inbox'[e] = inbox[e]
      BY <1>1, <3>1 DEF RepositoryTypeOK
    <3> QED
      BY <1>2, <2>1, <3>2 DEF FirstDelivery
  <2>2. CASE Redelivery(c)
    BY <1>2, <2>2 DEF Redelivery, repositoryVars
  <2>3. CASE ConflictingDelivery(c)
    BY <1>3, <1>8, <2>3
  <2> QED
    BY <1>8, <2>1, <2>2, <2>3 DEF ApplyCallback
<1>9. CASE UNCHANGED repositoryVars
  BY <1>2, <1>9 DEF repositoryVars
<1> QED
  BY <1>4, <1>5, <1>6, <1>7, <1>8, <1>9 DEF RepositoryNext

(* An operation named by a conflicting payload is under review or closed,  *)
(* for good: nothing that is under way for it takes it back to work.       *)
THEOREM RepositoryConflictsAreSeen == RepositorySpec => []ConflictIsNeverSilent
<1>1. RepositoryInit => ConflictInv
  BY HistoryStart DEF RepositoryInit, ConflictInv, ConflictsKnown, ConflictIsNeverSilent
<1>2. ConflictInv /\ [RepositoryNext]_repositoryVars => ConflictInv'
  BY HistoryStep, ConflictStep DEF ConflictInv
<1>3. ConflictInv => ConflictIsNeverSilent
  BY DEF ConflictInv
<1> QED
  BY <1>1, <1>2, <1>3, PTL DEF RepositorySpec

-----------------------------------------------------------------------------
(* The table has no cycle: every move climbs, and there are six steps.     *)
Height == [prepared |-> 0, ready_to_send |-> 1, sending |-> 2, outcome_unknown |-> 3,
           sent |-> 3, accepted |-> 4, manual_check |-> 5,
           executed |-> 6, rejected |-> 6, returned |-> 6]

Short(r) == Len(r.audit) <= Height[r.status]

LEMMA MovesClimb ==
    /\ \A s \in Status : Height[s] \in 0 .. 6
    /\ \A s \in Status : \A t \in TRANSITIONS[s] : t \in Status /\ Height[s] < Height[t]
  BY DEF Status, TRANSITIONS, Height

LEMMA StaysShort ==
    ASSUME NEW r \in IntegrationRecord, NEW n, CarriedOn(r, n), Short(r)
    PROVE  Short(n)
<1>1. r.status \in Status
  BY DEF IntegrationRecord
<1>2. CASE SameStory(r, n)
  BY <1>2 DEF SameStory, Short
<1>3. CASE OneMove(r, n)
  <2>1. PICK a \in AuditEvent :
            /\ n.audit = Append(r.audit, a) /\ a.old = r.status /\ a.new = n.status
            /\ a.new \in TRANSITIONS[a.old]
    BY <1>3 DEF OneMove
  <2>2. Len(n.audit) = Len(r.audit) + 1 /\ Len(r.audit) \in Nat
    BY <2>1, AuditGrows
  <2>3. Height[r.status] < Height[n.status] /\ n.status \in Status
    BY <1>1, <2>1, MovesClimb
  <2>4. Height[r.status] \in Int /\ Height[n.status] \in Int
    BY <1>1, <2>3, MovesClimb
  <2> QED
    BY <2>2, <2>3, <2>4 DEF Short
<1> QED
  BY <1>2, <1>3 DEF CarriedOn

LEMMA StartsShort == \A terms \in Terms : Short(NewRecord(terms))
  BY DEF Short, NewRecord, Height

LEMMA ShortIsSix ==
    ASSUME NEW r \in IntegrationRecord, Short(r)
    PROVE  Len(r.audit) <= 6
<1>1. Height[r.status] \in 0 .. 6 /\ Len(r.audit) \in Nat
  BY MovesClimb DEF IntegrationRecord
<1> QED
  BY <1>1 DEF Short

RowsShort == \A o \in Ops : Registered(o) => Short(record[o])

LEMMA RowsStayShort ==
    ASSUME RepositoryTypeOK, RowsShort, RowsCarriedOn, NEW o \in Ops, Registered(o)'
    PROVE  Short(record'[o])
<1>1. CASE Registered(o)
  <2>1. record[o] \in IntegrationRecord /\ CarriedOn(record[o], record'[o])
    BY <1>1, RowType DEF RowsCarriedOn, RowCarriedOn
  <2> QED
    BY <1>1, <2>1, StaysShort DEF RowsShort
<1>2. CASE ~Registered(o)
  BY <1>2, StartsShort DEF RowsCarriedOn, RowCarriedOn
<1> QED
  BY <1>1, <1>2
=============================================================================
