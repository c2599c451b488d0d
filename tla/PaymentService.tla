--------------------------- MODULE PaymentService ---------------------------
(***************************************************************************)
(* PaymentService (service.py) run by several workers that share one       *)
(* SQLite database, against a bank behind an unreliable connection. A      *)
(* worker is a process, or a thread of the HTTP runtime's pool: the        *)
(* repository serialises both. Between two repository calls of a worker    *)
(* anything may happen: other workers, callbacks, the bank, a crash of     *)
(* this or another worker and its restart, which runs recover_sending.     *)
(*                                                                         *)
(* One action is one repository call, one adapter call or one answer of    *)
(* the adapter, with the local decisions that follow it. A read that only  *)
(* builds the caller's answer is folded into the step before it. A storage *)
(* error or an injected fault inside a repository call rolls it back and   *)
(* ends the handler: GiveUp.                                               *)
(*                                                                         *)
(* The bank is external: it commits at most one payment per operation,     *)
(* moves it between statuses on its own, and answers lookups. Callbacks    *)
(* are not tied to it here: any callback of the set Callbacks may arrive   *)
(* at any time, again and again, in any order, even before the operation   *)
(* exists (then get() raises KeyError and nothing happens).                *)
(***************************************************************************)
EXTENDS IntegrationRepository

CONSTANTS
    Workers,          \* processes or threads that run PaymentService
    Payments,         \* payments a caller may submit
    NoPayment,
    NoDecision,
    ExtIdOf,          \* the external id the bank gives to an operation
    BankStatuses,     \* statuses the bank's own ledger may show
    Resolutions,      \* statuses operators decide on; the table refuses most of them
    AdapterMayRaise,  \* TRUE for HTTPBankAdapter; FALSE for an adapter that always answers
    LookupSupported   \* capabilities.status_lookup = "supported"

\* bik stands for what payment_envelope sends and the fingerprint omits.
ASSUME PaymentsAssumption ==
    \A p \in Payments : DOMAIN p = {"op", "terms", "bik"} /\ p.op \in Ops /\ p.terms \in Terms
ASSUME NoPaymentAssumption == NoPayment \notin Payments
ASSUME ExtIdOfAssumption == ExtIdOf \in [Ops -> ExtIds]
ASSUME BankStatusesAssumption == BankStatuses \subseteq Status
ASSUME ResolutionsAssumption == Resolutions \subseteq Status
ASSUME FlagsAssumption == {AdapterMayRaise, LookupSupported} \subseteq BOOLEAN

\* Statuses a lookup may resolve an operation to.
BankReports == {"accepted", "executed", "rejected", "returned"}

\* What reconcile_unknown and resolve_manual are about to write.
Decision == [op : Ops, to : Status,
             source : {"bank_status_lookup", "manual_resolution"}, ext : MaybeExt]
ASSUME NoDecisionAssumption == NoDecision \notin Decision

\* Every way the service calls transition().
ServiceCalls ==
    {[to |-> "ready_to_send", source |-> "1c", ext |-> NoExt]}
    \cup [to : {"sent"}, source : {"bank_adapter"}, ext : ExtIds]
    \cup [to : BankReports, source : {"bank_status_lookup"}, ext : ExtIds]
    \cup [to : Resolutions, source : {"manual_resolution"}, ext : {NoExt}]
ASSUME ServiceCallsAssumption == ServiceCalls \subseteq Calls

VARIABLES
    pc,         \* pc[w]: the repository or adapter call the worker makes next
    request,    \* request[w]: the payment it is sending
    seen,       \* seen[w]: the row it read and is going to save back
    decision,   \* decision[w]: the transition it decided on outside a transaction
    calls,      \* calls[o]: how often adapter.send was called for the operation
    wire,       \* requests on their way to the bank
    bank        \* bank[o]: the status of the bank's own row, or "absent"

localVars == <<request, seen, decision>>
bankVars == <<calls, wire, bank>>
vars == <<record, inbox, conflicts, pc, request, seen, decision, calls, wire, bank>>

SendSteps == {"transition", "reread", "claim", "send", "await", "read_error",
              "save_error", "read_answer", "persist_sent"}
DecisionSteps == {"lookup", "apply"}
Steps == SendSteps \cup DecisionSteps

LocalTypeOK ==
    /\ pc \in [Workers -> Steps \cup {"down", "idle"}]
    /\ request \in [Workers -> Payments \cup {NoPayment}]
    /\ seen \in [Workers -> IntegrationRecord \cup {NoRecord}]
    /\ decision \in [Workers -> Decision \cup {NoDecision}]
    \* a worker holds exactly what its next step needs
    /\ \A w \in Workers :
        /\ pc[w] \in SendSteps <=> request[w] # NoPayment
        /\ pc[w] \in DecisionSteps <=> decision[w] # NoDecision
        /\ pc[w] = "save_error" <=> seen[w] # NoRecord

BankTypeOK ==
    /\ calls \in [Ops -> Nat]
    /\ wire \in SUBSET Payments
    /\ bank \in [Ops -> BankStatuses \cup {"absent"}]

TypeOK == RepositoryTypeOK /\ LocalTypeOK /\ BankTypeOK

(* No service exists before its constructor has run recover_sending.       *)
Init ==
    /\ RepositoryInit
    /\ pc = [w \in Workers |-> "down"]
    /\ request = [w \in Workers |-> NoPayment]
    /\ seen = [w \in Workers |-> NoRecord]
    /\ decision = [w \in Workers |-> NoDecision]
    /\ calls = [o \in Ops |-> 0]
    /\ wire = {}
    /\ bank = [o \in Ops |-> "absent"]

Goto(w, step) ==
    /\ pc' = [pc EXCEPT ![w] = step]
    /\ UNCHANGED localVars

(* The handler returns or raises to its caller: what it held is gone.      *)
Return(w) ==
    /\ pc' = [pc EXCEPT ![w] = "idle"]
    /\ request' = [request EXCEPT ![w] = NoPayment]
    /\ seen' = [seen EXCEPT ![w] = NoRecord]
    /\ decision' = [decision EXCEPT ![w] = NoDecision]

AnyUp == \E w \in Workers : pc[w] # "down"

Op(w) == request[w].op

-----------------------------------------------------------------------------
(* Start and restart of a process: PaymentService.__init__, once for all   *)
(* the threads ws that will serve it.                                      *)
ComeUp(ws) ==
    /\ \A w \in ws : pc[w] = "down"
    /\ pc' = [w \in Workers |-> IF w \in ws THEN "idle" ELSE pc[w]]
    /\ UNCHANGED localVars

\* Mutant: the constructor does not recover.
StartWithoutRecovery(ws) ==
    /\ ComeUp(ws)
    /\ UNCHANGED <<repositoryVars, bankVars>>

Start(ws) ==
    /\ RecoverSending
    /\ ComeUp(ws)
    /\ UNCHANGED bankVars

Crash(ws) ==
    /\ \A w \in ws : pc[w] # "down"
    /\ pc' = [w \in Workers |-> IF w \in ws THEN "down" ELSE pc[w]]
    /\ request' = [w \in Workers |-> IF w \in ws THEN NoPayment ELSE request[w]]
    /\ seen' = [w \in Workers |-> IF w \in ws THEN NoRecord ELSE seen[w]]
    /\ decision' = [w \in Workers |-> IF w \in ws THEN NoDecision ELSE decision[w]]
    /\ UNCHANGED <<repositoryVars, bankVars>>

(* A repository call fails and is rolled back, or a lookup gives no usable *)
(* answer; the exception reaches the caller.                               *)
GiveUp(w) ==
    /\ pc[w] \in Steps \ {"send", "await"}
    /\ Return(w)
    /\ UNCHANGED <<repositoryVars, bankVars>>

-----------------------------------------------------------------------------
(* send, and prepare as its first part.                                    *)

\* Statuses for which send() has nothing to do.
AlreadySent == {"sent", "accepted", "executed"}

\* Mutant: the fingerprint is not compared.
SubmitUnchecked(w, p) ==
    LET row == RowAfterRegister(p.op, p.terms)
    IN  /\ pc[w] = "idle"
        /\ Register(p.op, p.terms)
        /\ IF row.status \in AlreadySent
           THEN Return(w)
           ELSE /\ pc' = [pc EXCEPT ![w] =
                            IF row.status = "prepared" THEN "transition" ELSE "claim"]
                /\ request' = [request EXCEPT ![w] = p]
                /\ UNCHANGED <<seen, decision>>
        /\ UNCHANGED bankVars

\* register; a different fingerprint raises DuplicatePaymentError, a prepared
\* operation is moved on, one that was sent is returned, any other is claimed.
Submit(w, p) ==
    LET row == RowAfterRegister(p.op, p.terms)
    IN  /\ pc[w] = "idle"
        /\ Register(p.op, p.terms)
        /\ IF row.terms # p.terms \/ row.status \in AlreadySent
           THEN Return(w)
           ELSE /\ pc' = [pc EXCEPT ![w] =
                            IF row.status = "prepared" THEN "transition" ELSE "claim"]
                /\ request' = [request EXCEPT ![w] = p]
                /\ UNCHANGED <<seen, decision>>
        /\ UNCHANGED bankVars

MoveToReady(w) ==
    /\ pc[w] = "transition"
    /\ \/ /\ Transition(Op(w), "ready_to_send", "1c", NoExt, NoEvent)
          /\ Goto(w, "claim")
       \/ /\ Refused(Op(w), "ready_to_send")
          /\ Goto(w, "reread")
          /\ UNCHANGED repositoryVars
    /\ UNCHANGED bankVars

\* After the refused transition: the newer state decides. prepared here would
\* raise the TransitionError again.
Reread(w) ==
    /\ pc[w] = "reread"
    /\ IF record[Op(w)].status \in AlreadySent \cup {"prepared"}
       THEN Return(w)
       ELSE Goto(w, "claim")
    /\ UNCHANGED <<repositoryVars, bankVars>>

\* Mutant: the answer of claim_send is ignored.
ClaimIgnored(w) ==
    /\ pc[w] = "claim"
    /\ Goto(w, "send")
    /\ ClaimSend(Op(w)) \/ (~Claimable(Op(w)) /\ UNCHANGED repositoryVars)
    /\ UNCHANGED bankVars

Claim(w) ==
    /\ pc[w] = "claim"
    /\ \/ ClaimSend(Op(w)) /\ Goto(w, "send")
       \/ ~Claimable(Op(w)) /\ Return(w) /\ UNCHANGED repositoryVars
    /\ UNCHANGED bankVars

CallAdapter(w) ==
    /\ pc[w] = "send"
    /\ calls' = [calls EXCEPT ![Op(w)] = @ + 1]
    /\ wire' = wire \cup {request[w]}
    /\ Goto(w, "await")
    /\ UNCHANGED <<repositoryVars, bank>>

AdapterReturns(w) ==
    /\ pc[w] = "await"
    /\ request[w] \notin wire
    /\ bank[Op(w)] # "absent"
    /\ Goto(w, "read_answer")
    /\ UNCHANGED <<repositoryVars, bankVars>>

\* Mutant: no timeout, only a request that got through can fail.
AdapterRefuses(w) ==
    /\ AdapterMayRaise
    /\ pc[w] = "await"
    /\ request[w] \notin wire /\ bank[Op(w)] # "absent"
    /\ Goto(w, "read_error")
    /\ UNCHANGED <<repositoryVars, bankVars>>

\* Timeout, lost request, lost or unreadable answer, refusal by the bank.
AdapterRaises(w) ==
    /\ AdapterMayRaise
    /\ pc[w] = "await"
    /\ Goto(w, "read_error")
    /\ UNCHANGED <<repositoryVars, bankVars>>

ReadAfterError(w) ==
    /\ pc[w] = "read_error"
    /\ pc' = [pc EXCEPT ![w] = "save_error"]
    /\ seen' = [seen EXCEPT ![w] = [record[Op(w)] EXCEPT !.error = "adapter_raised"]]
    /\ UNCHANGED <<repositoryVars, request, decision, bankVars>>

\* Mutant: a failed send is put back to be retried.
SaveErrorForRetry(w) ==
    /\ pc[w] = "save_error"
    /\ Save(Op(w), [seen[w] EXCEPT !.status = "ready_to_send"])
    /\ Return(w)
    /\ UNCHANGED bankVars

SaveError(w) ==
    /\ pc[w] = "save_error"
    /\ Save(Op(w), seen[w])
    /\ Return(w)
    /\ UNCHANGED bankVars

\* A callback may have moved the operation while the answer was on its way.
ReadAnswer(w) ==
    /\ pc[w] = "read_answer"
    /\ IF Sending(Op(w)) THEN Goto(w, "persist_sent") ELSE Return(w)
    /\ UNCHANGED <<repositoryVars, bankVars>>

\* Mutant: sent is written without asking the table again.
PersistSentAnyway(w) ==
    /\ pc[w] = "persist_sent"
    /\ record' = [record EXCEPT ![Op(w)] =
                    Moved(record[Op(w)], "sent", "bank_adapter", ExtIdOf[Op(w)], NoEvent)]
    /\ Return(w)
    /\ UNCHANGED <<inbox, conflicts, bankVars>>

\* A refused transition raises to the caller and changes nothing: GiveUp.
PersistSent(w) ==
    /\ pc[w] = "persist_sent"
    /\ Transition(Op(w), "sent", "bank_adapter", ExtIdOf[Op(w)], NoEvent)
    /\ Return(w)
    /\ UNCHANGED bankVars

-----------------------------------------------------------------------------
(* reconcile_unknown: read, look up, transition - three separate moments.  *)
Reconcile(w, o) ==
    /\ pc[w] = "idle"
    /\ LookupSupported
    /\ Registered(o)
    /\ record[o].status = "outcome_unknown"
    /\ pc' = [pc EXCEPT ![w] = "lookup"]
    /\ decision' = [decision EXCEPT ![w] =
                      [op |-> o, to |-> "outcome_unknown",
                       source |-> "bank_status_lookup", ext |-> NoExt]]
    /\ UNCHANGED <<repositoryVars, request, seen, bankVars>>

\* Mutant: any answer is taken for a resolution.
LookupUnchecked(w) ==
    LET o == decision[w].op
    IN  /\ pc[w] = "lookup"
        /\ pc' = [pc EXCEPT ![w] = "apply"]
        /\ decision' = [decision EXCEPT ![w] =
                          [decision[w] EXCEPT !.to = bank[o], !.ext = ExtIdOf[o]]]
        /\ UNCHANGED <<repositoryVars, request, seen, bankVars>>

\* Mutant: a payment the bank does not know is taken for rejected.
LookupAbsentIsRejected(w) ==
    LET o == decision[w].op
    IN  /\ pc[w] = "lookup"
        /\ bank[o] \in BankReports \cup {"absent"}
        /\ pc' = [pc EXCEPT ![w] = "apply"]
        /\ decision' = [decision EXCEPT ![w] =
                          [decision[w] EXCEPT
                              !.to = IF bank[o] = "absent" THEN "rejected" ELSE bank[o],
                              !.ext = ExtIdOf[o]]]
        /\ UNCHANGED <<repositoryVars, request, seen, bankVars>>

Lookup(w) ==
    LET o == decision[w].op
    IN  /\ pc[w] = "lookup"
        /\ bank[o] \in BankReports
        /\ pc' = [pc EXCEPT ![w] = "apply"]
        /\ decision' = [decision EXCEPT ![w] =
                          [decision[w] EXCEPT !.to = bank[o], !.ext = ExtIdOf[o]]]
        /\ UNCHANGED <<repositoryVars, request, seen, bankVars>>

\* Mutant: the operator's decision is taken in any status.
ResolveUnchecked(w, o, to) ==
    /\ pc[w] = "idle"
    /\ Registered(o)
    /\ pc' = [pc EXCEPT ![w] = "apply"]
    /\ decision' = [decision EXCEPT ![w] =
                      [op |-> o, to |-> to, source |-> "manual_resolution", ext |-> NoExt]]
    /\ UNCHANGED <<repositoryVars, request, seen, bankVars>>

(* resolve_manual: read, then transition to what the operator decided.     *)
Resolve(w, o, to) ==
    /\ pc[w] = "idle"
    /\ Registered(o)
    /\ record[o].status = "manual_check"
    /\ pc' = [pc EXCEPT ![w] = "apply"]
    /\ decision' = [decision EXCEPT ![w] =
                      [op |-> o, to |-> to, source |-> "manual_resolution", ext |-> NoExt]]
    /\ UNCHANGED <<repositoryVars, request, seen, bankVars>>

\* A refused transition raises to the caller and changes nothing: GiveUp.
ApplyDecision(w) ==
    LET d == decision[w]
    IN  /\ pc[w] = "apply"
        /\ Transition(d.op, d.to, d.source, d.ext, NoEvent)
        /\ Return(w)
        /\ UNCHANGED bankVars

-----------------------------------------------------------------------------
(* callback: an existence check and one transaction, in any running        *)
(* worker's process.                                                       *)
ReceiveCallback(c) ==
    /\ AnyUp
    /\ ApplyCallback(c)
    /\ UNCHANGED <<pc, localVars, bankVars>>

-----------------------------------------------------------------------------
(* The bank, external: commit_payment keeps the first payment of an        *)
(* operation and refuses or repeats any other request for it.              *)
BankCommit(p) ==
    /\ p \in wire
    /\ wire' = wire \ {p}
    /\ IF bank[p.op] = "absent"
       THEN \E s \in BankStatuses : bank' = [bank EXCEPT ![p.op] = s]
       ELSE UNCHANGED bank
    /\ UNCHANGED <<repositoryVars, pc, localVars, calls>>

LoseRequest(p) ==
    /\ AdapterMayRaise
    /\ p \in wire
    /\ wire' = wire \ {p}
    /\ UNCHANGED <<repositoryVars, pc, localVars, calls, bank>>

BankMoves(o) ==
    /\ bank[o] # "absent"
    /\ \E s \in BankStatuses : bank' = [bank EXCEPT ![o] = s]
    /\ UNCHANGED <<repositoryVars, pc, localVars, calls, wire>>

-----------------------------------------------------------------------------
\* The steps a running worker takes without anybody asking it to.
Continue(w) ==
    \/ MoveToReady(w) \/ Reread(w) \/ Claim(w) \/ CallAdapter(w)
    \/ AdapterReturns(w) \/ AdapterRaises(w) \/ ReadAfterError(w) \/ SaveError(w)
    \/ ReadAnswer(w) \/ PersistSent(w) \/ Lookup(w) \/ ApplyDecision(w)
    \/ GiveUp(w)

Asked(w) ==
    \/ \E p \in Payments : Submit(w, p)
    \/ \E o \in Ops : Reconcile(w, o)
    \/ \E o \in Ops, to \in Resolutions : Resolve(w, o, to)

Environment ==
    \/ \E c \in Callbacks : ReceiveCallback(c)
    \/ \E p \in Payments : BankCommit(p) \/ LoseRequest(p)
    \/ \E o \in Ops : BankMoves(o)

\* The threads of one process, or a worker that is a process of its own.
Processes == (SUBSET Workers) \ {{}}

Next ==
    \/ \E ws \in Processes : Start(ws) \/ Crash(ws)
    \/ \E w \in Workers : Asked(w) \/ Continue(w)
    \/ Environment

Spec == Init /\ [][Next]_vars

-----------------------------------------------------------------------------
(* The external effect is requested at most once per operation, by any     *)
(* number of workers, submissions, crashes, restarts and errors.           *)
AtMostOneExternalSend == \A o \in Ops : calls[o] <= 1

(* The claim is durable before the bank can hear of the payment, and no    *)
(* later step - a restart, a callback, a stale save - puts a payment that  *)
(* may have left back among those waiting to be sent.                      *)
SentIsClaimed ==
    \A o \in Ops : calls[o] > 0 =>
        /\ Registered(o)
        /\ record[o].attempts = 1
        /\ record[o].status \notin {"prepared", "ready_to_send"}
        /\ \E i \in DOMAIN record[o].audit : record[o].audit[i].source = "send-claim"

(* The bank is only ever asked to pay what was registered, although every  *)
(* caller of send() brings a payment of its own.                           *)
SentAsRegistered ==
    \A p \in wire : Registered(p.op) /\ record[p.op].terms = p.terms

(* prepare() cannot see prepared after its own transition was refused, so  *)
(* the re-raise of service.py is unreachable.                              *)
RefusedIsNotPrepared ==
    \A w \in Workers : pc[w] = "reread" => record[Op(w)].status # "prepared"

(* Only a claimed operation is ever in a status that speaks of a call to   *)
(* the bank, and a status taken from the bank's answer or from a lookup    *)
(* belongs to an operation that was really sent.                           *)
EvidenceNeedsSend ==
    \A o \in Ops : Registered(o) =>
        /\ record[o].status \in {"sending", "outcome_unknown", "sent"}
                => record[o].attempts = 1
        /\ \A i \in DOMAIN record[o].audit :
                record[o].audit[i].source \in {"bank_adapter", "bank_status_lookup"}
                    => calls[o] = 1

(* Two workers never hold the claim of the same operation: whoever is      *)
(* between its claim and the end of its send() is alone there.             *)
Holding == {"send", "await", "read_error", "save_error", "read_answer", "persist_sent"}

OneHolder ==
    \A v, w \in Workers :
        (pc[v] \in Holding /\ pc[w] \in Holding /\ Op(v) = Op(w)) => v = w

(* A failed send writes back a row it read earlier, and that may lose      *)
(* history (run lost_update). It is the only step that may, and it comes   *)
(* at most once in the life of an operation: the error it records stays,   *)
(* and with it everything the row tells from then on.                      *)
HistoryLostOnce ==
    [][\A o \in Ops : Registered(o) =>
            /\ record[o].error = "adapter_raised" => record'[o].error = "adapter_raised"
            /\ record'[o].error = record[o].error => KeepsHistory(record[o], record'[o])]_vars

(* An answer of the bank that came by callback is not lost to the sender   *)
(* that lost the response (docs/failure-model.md:8): an operation that has *)
(* left sending does not return to it.                                     *)
EvidenceNotOverwritten ==
    [][\A o \in Ops :
            (Registered(o) /\ record[o].attempts = 1 /\ record[o].status # "sending")
                => record'[o].status # "sending"]_vars

(* A person's decision is applied only to an operation that is waiting for *)
(* one, although the check and the transition are separate.                *)
ManualDecisionOnlyInReview ==
    [][\A o \in Ops : Registered(o) /\ record'[o] # record[o] =>
            LET new == record'[o].audit
            IN  (Len(new) > Len(record[o].audit) /\ new[Len(new)].source = "manual_resolution")
                    => record[o].status = "manual_check"]_vars

(* A lookup resolves only what is still unknown when its answer is written *)
(* (service.py:202, "resolved after unknown external outcome").            *)
LookupOnlyResolvesUnknown ==
    [][\A o \in Ops : Registered(o) /\ record'[o] # record[o] =>
            LET new == record'[o].audit
            IN  (Len(new) > Len(record[o].audit) /\ new[Len(new)].source = "bank_status_lookup")
                    => record[o].status = "outcome_unknown"]_vars

(* One operation is one payment: workers that are sending the same         *)
(* operation are sending the same envelope.                                *)
SameOperationSameEnvelope ==
    \A v, w \in Workers :
        (request[v] # NoPayment /\ request[w] # NoPayment /\ Op(v) = Op(w))
            => request[v] = request[w]

-----------------------------------------------------------------------------
(* The service keeps the abstract lifecycle.                               *)
Phase(o) ==
    IF ~Registered(o) THEN "unknown"
    ELSE CASE record[o].status \in {"prepared", "ready_to_send"} -> "waiting"
           [] record[o].status = "manual_check" -> "review"
           [] record[o].status \in Terminal -> "closed"
           [] OTHER -> "working"

Authorised == {o \in Ops : Registered(o) /\ record[o].attempts = 1 /\ calls[o] = 0}

Lifecycle == INSTANCE PaymentLifecycle
                WITH phase <- [o \in Ops |-> Phase(o)], authorised <- Authorised

LifecycleSpec == Lifecycle!Spec

-----------------------------------------------------------------------------
(* Every handler that has begun ends, unless its process dies first. The   *)
(* fairness this needs is stated where the threads are (PaymentSystem).    *)
HandlersEnd ==
    \A w \in Workers : pc[w] \in Steps ~> pc[w] \notin Steps
=============================================================================
