---------------------------- MODULE PaymentSystem ----------------------------
(***************************************************************************)
(* The running system: the HTTP runtime (http_runtime.py) with its pool of *)
(* threads over one PaymentService, the HTTP adapter (adapters.py), and    *)
(* the bank emulator, whose callbacks come back through n8n.               *)
(*                                                                         *)
(* A step of a thread is a step of PaymentService; this module joins to it *)
(* what it does to the requests on their way to the bank, the bank's       *)
(* answers and the answers to clients. The bank of PaymentService is a     *)
(* view of the emulator's ledger: ServiceSpec states that the whole        *)
(* implements it, so what holds there of any bank and any callbacks holds  *)
(* here.                                                                   *)
(*                                                                         *)
(* The runtime is one process: its threads start and die together. A       *)
(* request that comes in waits for a free thread; waiting submissions are  *)
(* their clients' delay, waiting callbacks stay in posted. Nobody retries: *)
(* n8n and the emulator send each request once.                            *)
(*                                                                         *)
(* test_mode and desired_status are attributes of the one adapter. Every   *)
(* submission overwrites them on the event loop before a thread takes it,  *)
(* even one that will be refused, and a thread reads them when it posts.   *)
(* So whatever a client has asked for may go with whatever payment is      *)
(* posted next: PostPayment takes any mode and any status.                 *)
(*                                                                         *)
(* Payments with one op and one terms but another bik are real here, too:  *)
(* the fingerprint normalises the blanks of the purpose, which contains    *)
(* the client's run_id, and the envelope does not.                         *)
(***************************************************************************)
EXTENDS BankEmulator

CONSTANTS
    Terms, ExtIds, NoExt, NoEvent, NoRecord, NoCallback, NoDecision, Calls,
    Threads,         \* bound: the threads of the runtime's pool
    NoRequest,       \* nothing on its way to the bank
    LookupSupported

VARIABLES
    record, inbox, conflicts,            \* the service's tables
    pc, request, seen, decision,         \* its handlers, one per thread
    calls,                               \* calls of adapter.send
    requests,                            \* how a payment on its way to the bank was posted
    told                                 \* operations a submission of which was answered 200

bankView == [o \in Ops |-> IF Committed(o) THEN ledger[o].status ELSE "absent"]
wireView == {p \in Payments : requests[p] # NoRequest}

Service == INSTANCE PaymentService
    WITH Workers <- Threads, Events <- EventIds, Callbacks <- BankCallbacks,
         BankStatuses <- BankStatuses, Resolutions <- {}, AdapterMayRaise <- TRUE,
         bank <- bankView, wire <- wireView

tables == <<record, inbox, conflicts>>
threads == <<pc, request, seen, decision, calls>>
systemVars == <<emulatorVars, tables, threads, requests, told>>

ASSUME ThreadsAssumption == Threads # {}

\* bound: clients and testers ask for statuses the control plane knows; any
\* other one is refused as a callback and resolves no lookup.
ASSUME StatusesAssumption == BankStatuses \subseteq Service!Status

\* What the service assumes of its constants holds of those of the system.
ASSUME ServiceAssumption ==
    /\ \A p \in Payments : DOMAIN p = {"op", "terms", "bik"} /\ p.terms \in Terms
    /\ ExtIdOf \in [Ops -> ExtIds]
    /\ LookupSupported \in BOOLEAN
    /\ Service!ServiceCalls \subseteq Calls
    /\ Calls \subseteq [to : Service!Status, source : Service!Sources, ext : Service!MaybeExt]
    \* what is absent is none of what may be present
    /\ NoExt \notin ExtIds
    /\ NoEvent \notin EventIds
    /\ NoRecord \notin Service!IntegrationRecord
    /\ NoCallback \notin BankCallbacks
    /\ NoDecision \notin Service!Decision

\* What HTTPBankAdapter.send adds to a payment.
Request == [mode : Modes, desired : DesiredStatuses]
ASSUME NoRequestAssumption == NoRequest \notin Request

SystemTypeOK ==
    /\ EmulatorTypeOK
    /\ requests \in [Payments -> Request \cup {NoRequest}]
    /\ told \in SUBSET Ops
    \* a payment is on the wire, in the emulator's hands or answered: never twice
    /\ \A p \in Payments : requests[p] # NoRequest =>
            /\ p \notin replies
            /\ \A h \in Handlers : handler[h].owes # p

SystemInit ==
    /\ EmulatorInit
    /\ requests = [p \in Payments |-> NoRequest]
    /\ told = {}
    /\ Service!Init

-----------------------------------------------------------------------------
(* The process: create_app builds the runtime, whose service recovers.     *)
StartRuntime ==
    /\ UNCHANGED <<emulatorVars, requests, told>>
    /\ Service!Start(Threads)

CrashRuntime ==
    /\ UNCHANGED <<emulatorVars, requests, told>>
    /\ Service!Crash(Threads)

-----------------------------------------------------------------------------
(* POST /v1/payments. The client is told 200 with the record that send()   *)
(* returns, and 502 when it raises.                                        *)
\* Mutant: an operation that is ready counts as submitted.
TellAlways(w, o) == told' = told \cup {o}

Tell(w, o) == told' = IF pc'[w] = "idle" THEN told \cup {o} ELSE told

\* send() raises for another fingerprint, so 502 "external outcome unknown" is
\* also what the client of a refused duplicate hears.
SubmitPayment(w, p) ==
    /\ UNCHANGED <<emulatorVars, requests>>
    /\ Service!Submit(w, p)
    /\ IF record'[p.op].terms = p.terms THEN Tell(w, p.op) ELSE UNCHANGED told

\* Steps of send() after which it may return the record.
MayReturn(w) ==
    /\ UNCHANGED <<emulatorVars, requests>>
    /\ \/ Service!Claim(w)
       \/ Service!ReadAnswer(w)
       \/ Service!PersistSent(w)
       \/ Service!Reread(w) /\ record[request[w].op].status # "prepared"
    /\ Tell(w, request[w].op)

\* Steps that go on, or end in an exception.
GoesOn(w) ==
    /\ UNCHANGED <<emulatorVars, requests, told>>
    /\ \/ Service!MoveToReady(w)
       \/ Service!Reread(w) /\ record[request[w].op].status = "prepared"
       \/ Service!ReadAfterError(w)
       \/ Service!SaveError(w)
       \/ Service!GiveUp(w)

\* HTTPBankAdapter.send: the request leaves with whatever the adapter's
\* attributes hold.
\* Mutant: the payment, too, is an attribute of the adapter.
PostSharedPayment(w) ==
    /\ pc[w] = "send"
    /\ \E v \in Threads, r \in Request :
        /\ request[v] # NoPayment
        /\ requests' = [requests EXCEPT ![request[v]] = r]
    /\ calls' = [calls EXCEPT ![request[w].op] = @ + 1]
    /\ pc' = [pc EXCEPT ![w] = "await"]
    /\ UNCHANGED <<emulatorVars, tables, request, seen, decision, told>>

PostPayment(w) ==
    /\ pc[w] = "send"
    /\ \E r \in Request : requests' = [requests EXCEPT ![request[w]] = r]
    /\ UNCHANGED <<emulatorVars, told>>
    /\ Service!CallAdapter(w)

\* The response has arrived, or the adapter's timeout, a broken connection or
\* an error status ends the call.
AdapterReturns(w) ==
    /\ request[w] \in replies
    /\ UNCHANGED <<emulatorVars, requests, told>>
    /\ Service!AdapterReturns(w)

AdapterRaises(w) ==
    /\ UNCHANGED <<emulatorVars, requests, told>>
    /\ Service!AdapterRaises(w)

-----------------------------------------------------------------------------
(* POST /v1/payments/{operation_id}/recover: reconcile_unknown in a pool   *)
(* thread; the bank's loop must be free to answer the lookup.              *)
\* Mutant: an operation without an external id is not looked up.
RecoverKnownToBank(w, o) ==
    /\ UNCHANGED <<emulatorVars, requests, told>>
    /\ Service!Reconcile(w, o)
    /\ record[o].ext # NoExt

Recover(w, o) ==
    /\ UNCHANGED <<emulatorVars, requests, told>>
    /\ Service!Reconcile(w, o)

LookupPayment(w) ==
    /\ LoopFree
    /\ UNCHANGED <<emulatorVars, requests, told>>
    /\ Service!Lookup(w)

ApplyLookup(w) ==
    /\ UNCHANGED <<emulatorVars, requests, told>>
    /\ Service!ApplyDecision(w)

-----------------------------------------------------------------------------
(* POST /v1/callbacks, behind n8n's callback workflow. A callback needs a  *)
(* thread, is applied or refused by one transaction, and is answered: n8n  *)
(* turns 409 and 422 into an error of its own.                             *)
ThreadFree == \E w \in Threads : pc[w] = "idle"

\* The event id is known with another payload: CallbackConflictError, 409.
Conflicting(c) == inbox[c.event] \notin {NoCallback, c}

\* No such operation, or a status the table does not allow now: 422.
RefusedCallback(c) ==
    \/ ~Service!Registered(c.op)
    \/ inbox[c.event] = NoCallback /\ ~Service!Permitted(record[c.op], c.status)

\* Mutant: the conflict is answered like any processed callback.
CodeIgnoringConflict(c) == IF RefusedCallback(c) THEN "failed" ELSE "200"

CodeOf(c) == IF RefusedCallback(c) \/ Conflicting(c) THEN "failed" ELSE "200"

ServeCallback(x) ==
    /\ ThreadFree
    /\ Answered(x, CodeOf(x.callback))
    /\ UNCHANGED <<ledger, attempts, replies, had, requests, told>>
    /\ \/ Service!ReceiveCallback(x.callback)
       \/ RefusedCallback(x.callback) /\ UNCHANGED <<tables, threads>>

\* n8n fails, a connection breaks, the runtime is down: the emulator's wait
\* ends without a 200.
LoseCallback(x) ==
    /\ Lost(x)
    /\ UNCHANGED <<ledger, attempts, replies, had, tables, threads, requests, told>>

-----------------------------------------------------------------------------
(* The bank's side.                                                        *)
BankReceives(h, p) ==
    /\ requests[p] # NoRequest
    /\ Submit(h, p, requests[p].mode, requests[p].desired)
    /\ requests' = [requests EXCEPT ![p] = NoRequest]
    /\ UNCHANGED <<tables, threads, told>>

\* Lost, or answered with an error.
LoseRequest(p) ==
    /\ requests[p] # NoRequest
    /\ requests' = [requests EXCEPT ![p] = NoRequest]
    /\ UNCHANGED <<emulatorVars, tables, threads, told>>

BankWorks(h) ==
    /\ HandlerStep(h)
    /\ UNCHANGED <<tables, threads, requests, told>>

TesterSetsStatus(h) ==
    /\ SetStatusAny(h)
    /\ UNCHANGED <<tables, threads, requests, told>>

-----------------------------------------------------------------------------
\* What a thread does without anybody asking it to.
ThreadStep(w) ==
    \/ MayReturn(w) \/ GoesOn(w) \/ PostPayment(w) \/ AdapterReturns(w)
    \/ AdapterRaises(w) \/ LookupPayment(w) \/ ApplyLookup(w)

SystemNext ==
    \/ StartRuntime \/ CrashRuntime
    \/ \E w \in Threads :
        \/ \E p \in Payments : SubmitPayment(w, p)
        \/ \E o \in Ops : Recover(w, o)
        \/ ThreadStep(w)
    \/ \E x \in posted : ServeCallback(x) \/ LoseCallback(x)
    \/ \E h \in Handlers :
        \/ \E p \in Payments : BankReceives(h, p)
        \/ BankWorks(h) \/ TesterSetsStatus(h)
    \/ \E p \in Payments : LoseRequest(p)

SystemSpec == SystemInit /\ [][SystemNext]_systemVars

-----------------------------------------------------------------------------
(* The parts together implement the payment service over an arbitrary bank *)
(* with arbitrary callbacks: the emulator is a bank, what it posts are     *)
(* callbacks, and the runtime runs nothing but the service.                *)
ServiceSpec == Service!Spec

(* The bank holds one claimed operation's payment: registered with these   *)
(* terms, and the very envelope of the thread that posted it, whoever else *)
(* was submitting the same operation through the one shared adapter.       *)
BankHoldsWhatWasSent ==
    \A o \in Ops : Committed(o) =>
        /\ Service!Registered(o)
        /\ record[o].terms = ledger[o].payment.terms
        /\ record[o].attempts = 1
        /\ \A w \in Threads :
                (pc[w] \in Service!Holding /\ request[w].op = o)
                    => request[w] = ledger[o].payment

(* If the emulator has recorded that a callback was answered with 200, the *)
(* control plane processed exactly this status under this event id, even   *)
(* if the id was used for two statuses.                                    *)
AcknowledgedIsProcessed ==
    \A e \in EventIds, s \in ToldStatuses : attempts[<<e, s>>] = "200" =>
        inbox[e] # NoCallback /\ inbox[e].status = s

(* A client that was told 200 need not submit again: its operation is      *)
(* never again waiting to be sent.                                         *)
AnsweredIsUnderWay ==
    \A o \in told : record[o].status \notin {"prepared", "ready_to_send"}

(* What comes from the bank's side is the bank's: sent stands for a        *)
(* payment its ledger holds, and the statuses of callbacks and lookups are *)
(* statuses the ledger has shown, or one of the two that                   *)
(* conflicting_callback makes up - although a second submission may change *)
(* what the first one asks the bank to show, and a row read before a       *)
(* callback may be saved after it.                                         *)
StatusCameFromBank ==
    \A o \in Ops : Service!Registered(o) =>
        \A i \in DOMAIN record[o].audit :
            LET a == record[o].audit[i]
            IN  /\ a.source = "bank_adapter" => Committed(o)
                /\ a.source = "bank_status_lookup" => a.new \in had[o]
                /\ a.source = "callback" =>
                        \/ a.new \in had[o]
                        \/ /\ "conflicting_callback" \in Modes
                           /\ Committed(o) /\ a.event = AcceptedId(o)

-----------------------------------------------------------------------------
(* Fairness. A pool thread goes on: the adapter's timeout ends a call that *)
(* gets no answer, and GiveUp a call to the database that fails. asyncio   *)
(* runs what is ready in order, so a coroutine or task that the emulator's *)
(* loop could go on with again and again is not passed over for ever.      *)
(* Nobody is obliged to answer: LoseCallback, LoseRequest and GiveUp are   *)
(* always possible.                                                        *)
FairSystemSpec ==
    /\ SystemSpec
    /\ \A w \in Threads : WF_systemVars(ThreadStep(w))
    /\ \A h \in Handlers : SF_systemVars(BankWorks(h))

(* Every handler of the service ends, unless its process dies first.       *)
HandlersEnd == Service!HandlersEnd

(* Every request the emulator has begun is finished and its loop is free   *)
(* again, although the runtime it calls back may be waiting for it with    *)
(* all of its threads, or be down.                                         *)
EmulatorRequestsEnd == RequestsEnd

(* A claim that survived a crash does not stay sending, if the runtime is  *)
(* started again.                                                          *)
StrandedClaimIsClassified ==
    WF_systemVars(StartRuntime) =>
        \A o \in Ops :
            (Service!Sending(o) /\ ~Service!AnyUp) ~> ~Service!Sending(o)

(* An unknown outcome of a payment the bank holds is resolved, if the      *)
(* runtime is started again, somebody keeps asking for the recovery, the   *)
(* lookups are not always unlucky, and testers stop setting statuses: each *)
(* set_status holds the loop that has to answer the lookup.                *)
Unknown(o) == Service!Registered(o) /\ record[o].status = "outcome_unknown"

UnknownIsResolved ==
    (/\ <>[]LoopFree
     /\ WF_systemVars(StartRuntime)
     /\ \A w \in Threads :
            /\ SF_systemVars(\E o \in Ops : Recover(w, o))
            /\ SF_systemVars(LookupPayment(w))
            /\ SF_systemVars(ApplyLookup(w)))
    => \A o \in Ops : (Committed(o) /\ Unknown(o)) ~> ~Unknown(o)
=============================================================================
