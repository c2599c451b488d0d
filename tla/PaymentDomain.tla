--------------------------- MODULE PaymentDomain ---------------------------
(***************************************************************************)
(* The values of domain.py that the control plane decides on: the statuses *)
(* of a payment operation, the table of permitted transitions, the audit   *)
(* trail and the durable integration record, with the one function every   *)
(* status change goes through (repository.py, transition_record).          *)
(*                                                                         *)
(* What is abstracted: a payment's immutable fields are one value, its     *)
(* fingerprint (a member of Terms); last_message, timestamps and the       *)
(* document and request references are wording or copies and are left out; *)
(* last_error keeps only whether the adapter raised.                       *)
(***************************************************************************)
EXTENDS Naturals, Sequences

CONSTANTS
    Ops,      \* operation ids: "upp-payment:" and the document reference
    Terms,    \* business fingerprints
    Events,   \* ids of bank callbacks, sent by the bank or derived from the payload
    ExtIds,   \* external ids a bank can give to a payment
    NoExt,    \* no external id (None)
    NoEvent   \* no event id (None): the transition is not a callback's

ASSUME NoExtAssumption == NoExt \notin ExtIds
ASSUME NoEventAssumption == NoEvent \notin Events

Status == {"prepared", "ready_to_send", "sending", "outcome_unknown", "sent",
           "accepted", "executed", "rejected", "returned", "manual_check"}

TRANSITIONS == [
    prepared        |-> {"ready_to_send", "manual_check"},
    ready_to_send   |-> {"sending", "manual_check"},
    sending         |-> {"outcome_unknown", "sent", "accepted", "rejected", "manual_check"},
    outcome_unknown |-> {"accepted", "executed", "rejected", "returned", "manual_check"},
    sent            |-> {"accepted", "rejected", "manual_check"},
    accepted        |-> {"executed", "rejected", "returned", "manual_check"},
    executed        |-> {},
    rejected        |-> {},
    returned        |-> {},
    manual_check    |-> {"executed", "rejected", "returned"}]

Terminal == {s \in Status : TRANSITIONS[s] = {}}

\* Who moved an operation. The first three are written by the repository
\* itself, the others by the service through transition().
Sources == {"send-claim", "startup_recovery", "callback_conflict",
            "callback", "1c", "bank_adapter", "bank_status_lookup",
            "manual_resolution"}

MaybeExt == ExtIds \cup {NoExt}

AuditEvent == [old : Status, new : Status, source : Sources,
               ext : MaybeExt, event : Events \cup {NoEvent}]

IntegrationRecord ==
    [terms     : Terms,
     status    : Status,
     ext       : MaybeExt,
     attempts  : Nat,
     error     : {"none", "adapter_raised"},
     callbacks : SUBSET Events,
     audit     : Seq(AuditEvent)]

\* A newly registered operation.
NewRecord(terms) ==
    [terms |-> terms, status |-> "prepared", ext |-> NoExt, attempts |-> 0,
     error |-> "none", callbacks |-> {}, audit |-> <<>>]

CanMove(r, to) == to \in TRANSITIONS[r.status]

\* transition_record for a permitted move. An external id is stored only when
\* the caller has one; the audit event keeps what the caller passed.
Moved(r, to, source, ext, event) ==
    [r EXCEPT !.status = to,
              !.ext    = IF ext = NoExt THEN @ ELSE ext,
              !.audit  = Append(@, [old |-> r.status, new |-> to, source |-> source,
                                    ext |-> ext, event |-> event])]

\* transition_record for a move to the present status: nothing happens. The
\* third case, a move the table forbids, raises TransitionError and has no
\* value; callers guard it with CanMove.
TransitionRecord(r, to, source, ext, event) ==
    IF to = r.status THEN r ELSE Moved(r, to, source, ext, event)

Permitted(r, to) == to = r.status \/ CanMove(r, to)
=============================================================================
