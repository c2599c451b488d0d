----------------------- MODULE IntegrationRepository -----------------------
(***************************************************************************)
(* SQLiteIntegrationRepository (repository.py): the payment_operations and *)
(* callback_inbox tables and the operations on them. Every operation that  *)
(* decides something takes the writer lock first (BEGIN IMMEDIATE) and     *)
(* commits or rolls back as a whole, so each one is an atomic step here,   *)
(* whichever process or thread runs it; a fault or a storage error before  *)
(* the commit leaves the tables as they were and is no step at all.        *)
(*                                                                         *)
(* RepositorySpec lets any client call any operation at any time, with two *)
(* exceptions the service module deals with: save(), which overwrites a    *)
(* row with a snapshot the caller read earlier, and get(), which changes   *)
(* nothing.                                                                *)
(***************************************************************************)
EXTENDS PaymentDomain

CONSTANTS
    Callbacks,   \* callbacks that may arrive, in any order, any number of times
    Calls,       \* calls of transition(): where to, in whose name, which external id
    NoRecord,    \* no row in payment_operations
    NoCallback   \* no row in callback_inbox

\* A callback's payload is the record itself: payload_hash covers the
\* operation, the status, the external id and the message. A callback that
\* came without an event id is given one derived from its payload.
ASSUME CallbacksAssumption ==
    Callbacks \subseteq [event : Events, op : Ops, status : Status, ext : MaybeExt]
ASSUME CallsAssumption ==
    Calls \subseteq [to : Status, source : Sources, ext : MaybeExt]
ASSUME NoRecordAssumption == NoRecord \notin IntegrationRecord
ASSUME NoCallbackAssumption == NoCallback \notin Callbacks

VARIABLES
    record,      \* payment_operations: the row of each operation
    inbox,       \* callback_inbox: the first payload each event id came with
    conflicts    \* callback_inbox: event ids with conflict = 1

repositoryVars == <<record, inbox, conflicts>>

RepositoryTypeOK ==
    /\ record \in [Ops -> IntegrationRecord \cup {NoRecord}]
    /\ inbox \in [Events -> Callbacks \cup {NoCallback}]
    /\ conflicts \in SUBSET Events

RepositoryInit ==
    /\ record = [o \in Ops |-> NoRecord]
    /\ inbox = [e \in Events |-> NoCallback]
    /\ conflicts = {}

Registered(o) == record[o] # NoRecord

-----------------------------------------------------------------------------
(* register: INSERT OR IGNORE, then read the row back. The row that is     *)
(* already there wins; comparing its fingerprint is the caller's affair.   *)
\* Mutant: INSERT OR REPLACE.
RegisterReplaces(o, terms) == NewRecord(terms)

RowAfterRegister(o, terms) ==
    IF Registered(o) THEN record[o] ELSE NewRecord(terms)

Register(o, terms) ==
    /\ record' = [record EXCEPT ![o] = RowAfterRegister(o, terms)]
    /\ UNCHANGED <<inbox, conflicts>>

(* transition: read, transition_record and write in one transaction.       *)
Transition(o, to, source, ext, event) ==
    /\ Registered(o)
    /\ Permitted(record[o], to)
    /\ record' = [record EXCEPT ![o] = TransitionRecord(record[o], to, source, ext, event)]
    /\ UNCHANGED <<inbox, conflicts>>

(* transition raises TransitionError and rolls back.                       *)
Refused(o, to) == Registered(o) /\ ~Permitted(record[o], to)

\* Mutant: a claim in progress may be taken over, as with a lease.
ClaimableAgain(o) == Registered(o) /\ record[o].status \in {"ready_to_send", "sending"}

(* claim_send: the compare-and-set that grants the external call once.     *)
Claimable(o) == Registered(o) /\ record[o].status = "ready_to_send"

Attempted(r) == [r EXCEPT !.attempts = @ + 1]

ClaimSend(o) ==
    /\ Claimable(o)
    /\ record' = [record EXCEPT ![o] =
                    Moved(Attempted(record[o]), "sending", "send-claim", NoExt, NoEvent)]
    /\ UNCHANGED <<inbox, conflicts>>

(* recover_sending: every operation still in sending, in one transaction.  *)
Sending(o) == Registered(o) /\ record[o].status = "sending"

\* Mutant: unfinished claims go back to the queue.
RequeueSending ==
    /\ record' = [o \in Ops |->
                    IF Sending(o)
                    THEN Moved(record[o], "ready_to_send", "startup_recovery",
                               NoExt, NoEvent)
                    ELSE record[o]]
    /\ UNCHANGED <<inbox, conflicts>>

RecoverSending ==
    /\ record' = [o \in Ops |->
                    IF Sending(o)
                    THEN Moved(record[o], "outcome_unknown", "startup_recovery",
                               NoExt, NoEvent)
                    ELSE record[o]]
    /\ UNCHANGED <<inbox, conflicts>>

(* save: all columns except the fingerprint are taken from the snapshot.   *)
\* Mutant: the audit column is forgotten.
SaveWithoutAudit(o, snapshot) ==
    /\ record' = [record EXCEPT ![o] = [snapshot EXCEPT !.terms = record[o].terms,
                                                       !.audit = record[o].audit]]
    /\ UNCHANGED <<inbox, conflicts>>

Save(o, snapshot) ==
    /\ record' = [record EXCEPT ![o] = [snapshot EXCEPT !.terms = record[o].terms]]
    /\ UNCHANGED <<inbox, conflicts>>

-----------------------------------------------------------------------------
(* apply_callback: the inbox row and the status change in one commit. An   *)
(* illegal first delivery raises before the inbox row is written, so the   *)
(* same event may be delivered again later.                                *)
Received(r, event) == [r EXCEPT !.callbacks = @ \cup {event}]

\* Mutant: the bank is always right, the table is not consulted.
DeliverAnyStatus(c) ==
    /\ inbox[c.event] = NoCallback
    /\ record' = [record EXCEPT ![c.op] =
                    Received(TransitionRecord(record[c.op], c.status, "callback", c.ext, c.event),
                             c.event)]
    /\ inbox' = [inbox EXCEPT ![c.event] = c]
    /\ UNCHANGED conflicts

\* Mutant: the event is remembered in the operation only.
DeliverWithoutInbox(c) ==
    /\ Permitted(record[c.op], c.status)
    /\ c.event \notin record[c.op].callbacks
    /\ record' = [record EXCEPT ![c.op] =
                    Received(TransitionRecord(record[c.op], c.status, "callback", c.ext, c.event),
                             c.event)]
    /\ UNCHANGED <<inbox, conflicts>>

\* Mutant: an event is known by its payload, not by its id.
DeliverByPayload(c) ==
    /\ inbox[c.event] # c
    /\ Permitted(record[c.op], c.status)
    /\ record' = [record EXCEPT ![c.op] =
                    Received(TransitionRecord(record[c.op], c.status, "callback", c.ext, c.event),
                             c.event)]
    /\ inbox' = [inbox EXCEPT ![c.event] = c]
    /\ UNCHANGED conflicts

FirstDelivery(c) ==
    /\ inbox[c.event] = NoCallback
    /\ Permitted(record[c.op], c.status)
    /\ record' = [record EXCEPT ![c.op] =
                    Received(TransitionRecord(record[c.op], c.status, "callback", c.ext, c.event),
                             c.event)]
    /\ inbox' = [inbox EXCEPT ![c.event] = c]
    /\ UNCHANGED conflicts

Redelivery(c) ==
    /\ inbox[c.event] = c
    /\ UNCHANGED repositoryVars

\* The event id is known with another payload. The operation the new payload
\* names goes to manual_check when the table allows it.
\* Mutant: the newer payload replaces the processed one.
ConflictReplaces(c) ==
    /\ inbox[c.event] \notin {NoCallback, c}
    /\ record' = IF CanMove(record[c.op], "manual_check")
                 THEN [record EXCEPT ![c.op] =
                         Moved(record[c.op], "manual_check", "callback_conflict", c.ext, c.event)]
                 ELSE record
    /\ inbox' = [inbox EXCEPT ![c.event] = c]
    /\ conflicts' = conflicts \cup {c.event}

\* Mutant: the conflict is marked under the operation's id.
ConflictMarksOperation(c) ==
    /\ inbox[c.event] \notin {NoCallback, c}
    /\ record' = IF CanMove(record[c.op], "manual_check")
                 THEN [record EXCEPT ![c.op] =
                         Moved(record[c.op], "manual_check", "callback_conflict", c.ext, c.event)]
                 ELSE record
    /\ conflicts' = conflicts \cup {c.op}
    /\ UNCHANGED inbox

\* Mutant: the conflict is marked, the operation goes on.
ConflictOnlyMarked(c) ==
    /\ inbox[c.event] \notin {NoCallback, c}
    /\ conflicts' = conflicts \cup {c.event}
    /\ UNCHANGED <<record, inbox>>

ConflictingDelivery(c) ==
    /\ inbox[c.event] \notin {NoCallback, c}
    /\ record' = IF CanMove(record[c.op], "manual_check")
                 THEN [record EXCEPT ![c.op] =
                         Moved(record[c.op], "manual_check", "callback_conflict", c.ext, c.event)]
                 ELSE record
    /\ conflicts' = conflicts \cup {c.event}
    /\ UNCHANGED inbox

ApplyCallback(c) ==
    /\ Registered(c.op)
    /\ \/ FirstDelivery(c)
       \/ Redelivery(c)
       \/ ConflictingDelivery(c)

-----------------------------------------------------------------------------
RepositoryNext ==
    \/ \E o \in Ops, terms \in Terms : Register(o, terms)
    \/ \E o \in Ops, call \in Calls :
            Transition(o, call.to, call.source, call.ext, NoEvent)
    \/ \E o \in Ops : ClaimSend(o)
    \/ RecoverSending
    \/ \E c \in Callbacks : ApplyCallback(c)

RepositorySpec == RepositoryInit /\ [][RepositoryNext]_repositoryVars

-----------------------------------------------------------------------------
(* The audit trail tells the operation's whole story: it starts at         *)
(* prepared, each event continues where the previous one ended, every      *)
(* event is a move of TRANSITIONS, and the last one leads to the status.   *)
AuditTellsStatus ==
    \A o \in Ops : Registered(o) =>
        LET audit == record[o].audit
            Before(i) == IF i = 1 THEN "prepared" ELSE audit[i - 1].new
        IN  /\ \A i \in DOMAIN audit :
                    /\ audit[i].old = Before(i)
                    /\ audit[i].new \in TRANSITIONS[audit[i].old]
            /\ record[o].status = Before(Len(audit) + 1)

(* The claim is granted at most once in the life of an operation, and the  *)
(* attempt counter says whether it was: whatever else happens, an          *)
(* operation that was claimed is never again waiting to be claimed.        *)
ClaimedOnce ==
    \A o \in Ops : Registered(o) =>
        /\ record[o].attempts \in {0, 1}
        /\ record[o].attempts = 1 => record[o].status \notin {"prepared", "ready_to_send"}

(* The inbox and the operations agree: an event the inbox reports as       *)
(* processed is in the callback_ids of its operation, so the redeliveries  *)
(* the inbox suppresses were really applied; and no operation lists an     *)
(* event the inbox would let through a second time.                        *)
InboxAgrees ==
    \A e \in Events, o \in Ops :
        (inbox[e] # NoCallback /\ inbox[e].op = o)
            <=> (Registered(o) /\ e \in record[o].callbacks)

(* One event moves one operation at most once, whatever is redelivered.    *)
EventMovesOnce ==
    \A e \in Events :
        \A o1, o2 \in {o \in Ops : Registered(o)} :
            \A i \in DOMAIN record[o1].audit, j \in DOMAIN record[o2].audit :
                LET a == record[o1].audit[i]
                    b == record[o2].audit[j]
                IN  (a.event = e /\ b.event = e /\ a.source = b.source
                        /\ a.source = "callback") => (o1 = o2 /\ i = j)

(* An event id that came back with another payload is never accepted in    *)
(* silence (docs/failure-model.md:12): an operation the other payload      *)
(* named is under review or closed, and whatever was under way for it - a  *)
(* claim, an answer, a recovery, a lookup - does not put it back to work.  *)
(* A closed operation stays closed; there the mark is all there is.        *)
ConflictIsNeverSilent ==
    \A e \in conflicts :
        \E c \in Callbacks :
            /\ c.event = e /\ c # inbox[e]
            /\ Registered(c.op)
            /\ record[c.op].status \in Terminal \cup {"manual_check"}

(* No step rewrites history: an operation is never deleted, its            *)
(* fingerprint never changes, its audit trail only grows, an external id   *)
(* it has is not forgotten, and a status that changes follows the table.   *)
KeepsHistory(r, n) ==
    /\ n # NoRecord
    /\ n.terms = r.terms
    /\ r.ext # NoExt => n.ext # NoExt
    /\ r.callbacks \subseteq n.callbacks
    /\ Len(r.audit) <= Len(n.audit)
    /\ SubSeq(n.audit, 1, Len(r.audit)) = r.audit
    /\ Permitted(r, n.status)

HistoryKept ==
    [][\A o \in Ops : Registered(o) => KeepsHistory(record[o], record'[o])]_repositoryVars
=============================================================================
