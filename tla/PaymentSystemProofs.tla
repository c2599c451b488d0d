------------------------ MODULE PaymentSystemProofs ------------------------
(***************************************************************************)
(* The running system is an emulator and a payment service: whatever the   *)
(* whole does is a step of each part, or leaves the part as it was. So     *)
(* what is proved of the parts alone (BankEmulatorProofs and, as Proved,   *)
(* ServiceHistoryProofs) holds of them here, and what the whole promises   *)
(* follows from both.                                                      *)
(***************************************************************************)
EXTENDS PaymentSystem, BankEmulatorProofs, TLAPS

RequestsOK == requests \in [Payments -> Request \cup {NoRequest}]

LEMMA RequestsInvariant == SystemSpec => []RequestsOK
<1>1. SystemInit => RequestsOK
  BY DEF SystemInit, RequestsOK
<1>2. RequestsOK /\ [SystemNext]_systemVars => RequestsOK'
  <2> SUFFICES ASSUME RequestsOK, [SystemNext]_systemVars PROVE RequestsOK'
    OBVIOUS
  <2>1. ASSUME NEW w \in Threads, PostPayment(w) PROVE RequestsOK'
    BY <2>1 DEF PostPayment, RequestsOK
  <2>2. ASSUME NEW h \in Handlers, NEW p \in Payments, BankReceives(h, p) PROVE RequestsOK'
    BY <2>2 DEF BankReceives, RequestsOK
  <2>3. ASSUME NEW p \in Payments, LoseRequest(p) PROVE RequestsOK'
    BY <2>3 DEF LoseRequest, RequestsOK
  <2>4. CASE requests' = requests
    BY <2>4 DEF RequestsOK
  <2>5. ASSUME NEW w \in Threads, ThreadStep(w), ~PostPayment(w) PROVE requests' = requests
    BY <2>5 DEF ThreadStep, MayReturn, GoesOn, AdapterReturns, AdapterRaises,
                LookupPayment, ApplyLookup
  <2>6. ASSUME NEW h \in Handlers, BankWorks(h) \/ TesterSetsStatus(h)
        PROVE requests' = requests
    BY <2>6 DEF BankWorks, TesterSetsStatus
  <2>7. ASSUME NEW x \in posted, ServeCallback(x) \/ LoseCallback(x)
        PROVE requests' = requests
    BY <2>7 DEF ServeCallback, LoseCallback
  <2>8. ASSUME NEW w \in Threads, NEW p \in Payments, SubmitPayment(w, p)
        PROVE requests' = requests
    BY <2>8 DEF SubmitPayment
  <2>9. ASSUME NEW w \in Threads, NEW o \in Ops, Recover(w, o) PROVE requests' = requests
    BY <2>9 DEF Recover
  <2>10. CASE StartRuntime \/ CrashRuntime
    BY <2>4, <2>10 DEF StartRuntime, CrashRuntime
  <2>11. CASE UNCHANGED systemVars
    BY <2>4, <2>11 DEF systemVars
  <2> QED
    BY <2>1, <2>2, <2>3, <2>4, <2>5, <2>6, <2>7, <2>8, <2>9, <2>10, <2>11
       DEF SystemNext
<1> QED
  BY <1>1, <1>2, PTL DEF SystemSpec

-----------------------------------------------------------------------------
(* The emulator in the system.                                             *)
LEMMA EmulatorStep ==
    RequestsOK /\ [SystemNext]_systemVars => [EmulatorNext]_emulatorVars
<1> SUFFICES ASSUME RequestsOK, [SystemNext]_systemVars PROVE [EmulatorNext]_emulatorVars
  OBVIOUS
<1>1. ASSUME NEW h \in Handlers, NEW p \in Payments, BankReceives(h, p) PROVE EmulatorNext
  <2>1. requests[p] \in Request
    BY <1>1 DEF BankReceives, RequestsOK
  <2>2. SubmitAny(h)
    BY <1>1, <2>1 DEF BankReceives, Request, SubmitAny
  <2> QED
    BY <2>2 DEF EmulatorNext
<1>2. ASSUME NEW h \in Handlers, BankWorks(h) \/ TesterSetsStatus(h) PROVE EmulatorNext
  BY <1>2 DEF BankWorks, TesterSetsStatus, EmulatorNext
<1>3. ASSUME NEW x \in posted, ServeCallback(x) PROVE EmulatorNext
  <2>1. CodeOf(x.callback) \in Outcomes
    BY DEF CodeOf, Outcomes
  <2>2. Webhook(x)
    BY <1>3, <2>1 DEF ServeCallback, Webhook
  <2> QED
    BY <2>2 DEF EmulatorNext
<1>4. ASSUME NEW x \in posted, LoseCallback(x) PROVE EmulatorNext
  <2>1. Webhook(x)
    BY <1>4 DEF LoseCallback, Webhook
  <2> QED
    BY <2>1 DEF EmulatorNext
<1>5. ASSUME NEW w \in Threads, ThreadStep(w) PROVE UNCHANGED emulatorVars
  BY <1>5 DEF ThreadStep, MayReturn, GoesOn, PostPayment, AdapterReturns, AdapterRaises,
              LookupPayment, ApplyLookup
<1>6. ASSUME NEW w \in Threads, NEW p \in Payments, SubmitPayment(w, p)
      PROVE UNCHANGED emulatorVars
  BY <1>6 DEF SubmitPayment
<1>7. ASSUME NEW w \in Threads, NEW o \in Ops, Recover(w, o) PROVE UNCHANGED emulatorVars
  BY <1>7 DEF Recover
<1>8. ASSUME NEW p \in Payments, LoseRequest(p) PROVE UNCHANGED emulatorVars
  BY <1>8 DEF LoseRequest
<1>9. CASE StartRuntime \/ CrashRuntime
  BY <1>9 DEF StartRuntime, CrashRuntime
<1>10. CASE UNCHANGED systemVars
  BY <1>10 DEF systemVars
<1> QED
  BY <1>1, <1>2, <1>3, <1>4, <1>5, <1>6, <1>7, <1>8, <1>9, <1>10 DEF SystemNext

(* The system runs nothing but the emulator on the bank's side.            *)
THEOREM SystemRunsEmulator == SystemSpec => EmulatorSpec
<1>1. SystemInit => EmulatorInit
  BY DEF SystemInit
<1> QED
  BY <1>1, EmulatorStep, RequestsInvariant, PTL DEF SystemSpec, EmulatorSpec

(* What is proved of any emulator therefore holds in the system.           *)
COROLLARY SystemAnswersAreCommitted ==
    SystemSpec => [](EmulatorTypeOK /\ AnsweredIsCommitted /\ TravellerIsAccountedFor)
<1> QED
  BY SystemRunsEmulator, EmulatorTypeCorrect, AnswersAreCommitted, TravellersAreRecorded, PTL

-----------------------------------------------------------------------------
(* The service in the system.                                              *)
LEMMA ServiceInit == SystemInit => Service!Init
BY DEF SystemInit

\* The runtime's own actions are the service's by definition.
LEMMA RuntimeIsService ==
    ASSUME StartRuntime \/ CrashRuntime
    PROVE  Service!Next
<1>1. Threads \in Service!Processes
  BY ThreadsAssumption DEF Service!Processes
<1>2. Service!Start(Threads) \/ Service!Crash(Threads)
  BY DEF StartRuntime, CrashRuntime
<1> QED
  BY <1>1, <1>2 DEF Service!Next

LEMMA RequestIsService ==
    ASSUME NEW w \in Threads,
           \/ \E p \in Payments : SubmitPayment(w, p)
           \/ \E o \in Ops : Recover(w, o)
    PROVE  Service!Next
<1>1. Service!Asked(w)
  BY DEF SubmitPayment, Recover, Service!Asked
<1> QED
  BY <1>1 DEF Service!Next

LEMMA ThreadIsService ==
    ASSUME NEW w \in Threads, ThreadStep(w)
    PROVE  Service!Next
<1>1. Service!Continue(w)
  BY DEF ThreadStep, MayReturn, GoesOn, PostPayment, AdapterReturns, AdapterRaises,
         LookupPayment, ApplyLookup, Service!Continue
<1> QED
  BY <1>1 DEF Service!Next

\* The tables and threads of the service, with the bank and the wire of the
\* emulator, are left alone.
LEMMA ServiceUntouched ==
    ASSUME UNCHANGED <<tables, threads>>, bankView' = bankView, wireView' = wireView
    PROVE  UNCHANGED Service!vars
BY DEF Service!vars, tables, threads

LEMMA CallbackIsService ==
    ASSUME EmulatorTypeOK, NEW x \in posted, ServeCallback(x)
    PROVE  Service!Next \/ UNCHANGED Service!vars
<1>1. x.callback \in BankCallbacks
  BY DEF EmulatorTypeOK
<1>2. CASE Service!ReceiveCallback(x.callback)
  BY <1>1, <1>2 DEF Service!Next, Service!Environment
<1>3. CASE UNCHANGED <<tables, threads>>
  <2>1. UNCHANGED <<ledger, requests>>
    BY DEF ServeCallback
  <2>2. bankView' = bankView /\ wireView' = wireView
    BY <2>1 DEF bankView, wireView, Committed
  <2> QED
    BY <1>3, <2>2, ServiceUntouched
<1> QED
  BY <1>2, <1>3 DEF ServeCallback

\* The emulator's ledger as a bank: what an operation's row says.
LEMMA BankViewStep ==
    ASSUME EmulatorTypeOK, NEW o \in Ops, NEW row, row # NoRow,
           ledger' = [ledger EXCEPT ![o] = row]
    PROVE  bankView' = [bankView EXCEPT ![o] = row.status]
<1>1. \A q \in Ops : ledger'[q] = IF q = o THEN row ELSE ledger[q]
  BY DEF EmulatorTypeOK
<1>2. \A q \in Ops : bankView[q] = IF ledger[q] # NoRow THEN ledger[q].status ELSE "absent"
  BY DEF bankView, Committed
<1>3. bankView' = [q \in Ops |-> IF ledger'[q] # NoRow THEN ledger'[q].status ELSE "absent"]
  BY DEF bankView, Committed
<1>4. bankView = [q \in Ops |-> bankView[q]]
  BY DEF bankView
<1>5. \A q \in Ops : (IF ledger'[q] # NoRow THEN ledger'[q].status ELSE "absent")
                        = IF q = o THEN row.status ELSE bankView[q]
  BY <1>1, <1>2
<1>6. bankView' = [q \in Ops |-> IF q = o THEN row.status ELSE bankView[q]]
  BY <1>3, <1>5
<1>7. [bankView EXCEPT ![o] = row.status]
        = [q \in Ops |-> IF q = o THEN row.status ELSE bankView[q]]
  BY <1>4
<1> QED
  BY <1>6, <1>7

LEMMA CommittedIsPresent ==
    ASSUME EmulatorTypeOK, NEW o \in Ops, Committed(o)
    PROVE  bankView[o] = ledger[o].status /\ bankView[o] # "absent"
<1>1. ledger[o].status \in BankStatuses
  BY DEF EmulatorTypeOK, Committed
<1>2. "absent" \notin BankStatuses
  BY StatusesAssumption DEF Service!Status
<1> QED
  BY <1>1, <1>2 DEF bankView

LEMMA WireViewStep ==
    ASSUME RequestsOK, NEW p \in Payments, requests[p] # NoRequest,
           requests' = [requests EXCEPT ![p] = NoRequest]
    PROVE  p \in wireView /\ wireView' = wireView \ {p}
BY DEF RequestsOK, wireView

LEMMA ReceiptIsService ==
    ASSUME EmulatorTypeOK, RequestsOK, NEW h \in Handlers, NEW p \in Payments,
           BankReceives(h, p)
    PROVE  Service!Next
<1> DEFINE row == RowAfterCommit(p, requests[p].desired)
<1>1. requests[p] \in Request
  BY DEF BankReceives, RequestsOK
<1>2. p.op \in Ops /\ row \in Row /\ row # NoRow
  BY <1>1, SubmissionType, RowIsNoRow DEF Request
<1>3. p \in wireView /\ wireView' = wireView \ {p}
  BY WireViewStep DEF BankReceives
<1>4. ledger' = [ledger EXCEPT ![p.op] = row]
  BY DEF BankReceives, Submit
<1>5. bankView' = [bankView EXCEPT ![p.op] = row.status]
  BY <1>2, <1>4, BankViewStep
<1>6. CASE Committed(p.op)
  <2>1. row = ledger[p.op]
    BY <1>6 DEF RowAfterCommit
  <2>2. bankView[p.op] = row.status /\ bankView[p.op] # "absent"
    BY <1>2, <1>6, <2>1, CommittedIsPresent
  <2>3. bankView' = bankView
    BY <1>5, <2>2 DEF bankView
  <2> QED
    BY <1>3, <2>2, <2>3 DEF BankReceives, tables, threads, Service!BankCommit,
       Service!repositoryVars, Service!localVars, Service!Environment, Service!Next
<1>7. CASE ~Committed(p.op)
  <2>1. bankView[p.op] = "absent"
    BY <1>2, <1>7 DEF bankView
  <2>2. row.status \in BankStatuses
    BY <1>2 DEF Row
  <2> HIDE DEF row
  <2>3. Service!BankCommit(p)
    BY <1>3, <1>5, <2>1, <2>2 DEF BankReceives, tables, threads, Service!BankCommit,
       Service!repositoryVars, Service!localVars
  <2> QED
    BY <2>3 DEF Service!Environment, Service!Next
<1> QED
  BY <1>6, <1>7

LEMMA LossIsService ==
    ASSUME RequestsOK, NEW p \in Payments, LoseRequest(p)
    PROVE  Service!Next
<1>1. p \in wireView /\ wireView' = wireView \ {p}
  BY WireViewStep DEF LoseRequest
<1>2. bankView' = bankView
  BY DEF LoseRequest, emulatorVars, bankView, Committed
<1>3. Service!LoseRequest(p)
  BY <1>1, <1>2 DEF LoseRequest, tables, threads, Service!LoseRequest,
     Service!repositoryVars, Service!localVars
<1> QED
  BY <1>3 DEF Service!Environment, Service!Next

LEMMA TesterIsService ==
    ASSUME EmulatorTypeOK, NEW h \in Handlers, TesterSetsStatus(h)
    PROVE  Service!Next
<1>1. PICK o \in Ops, s \in SettableStatuses :
        /\ Committed(o)
        /\ ledger' = [ledger EXCEPT ![o].status = s]
  BY DEF TesterSetsStatus, SetStatusAny, SetStatus
<1> DEFINE row == [ledger[o] EXCEPT !.status = s]
<1>2. ledger[o] \in Row
  BY <1>1 DEF EmulatorTypeOK, Committed, Row
<1>3. row \in Row /\ row.status = s /\ s \in BankStatuses
  BY <1>2 DEF Row, BankStatuses
<1>4. row # NoRow
  BY <1>3, RowIsNoRow
<1>5. ledger' = [ledger EXCEPT ![o] = row]
  BY <1>1
<1> HIDE DEF row
<1>6. bankView' = [bankView EXCEPT ![o] = s]
  BY <1>3, <1>4, <1>5, BankViewStep
<1>7. bankView[o] # "absent"
  BY <1>1, CommittedIsPresent
<1>8. wireView' = wireView
  BY DEF TesterSetsStatus, wireView
<1>9. Service!BankMoves(o)
  BY <1>3, <1>6, <1>7, <1>8 DEF TesterSetsStatus, tables, threads, Service!BankMoves,
     Service!repositoryVars, Service!localVars
<1> QED
  BY <1>9 DEF Service!Environment, Service!Next

LEMMA BankWorkIsNothing ==
    ASSUME NEW h \in Handlers, BankWorks(h)
    PROVE  UNCHANGED Service!vars
<1>1. UNCHANGED <<ledger, requests>>
  BY DEF BankWorks, HandlerStep, WakeUp, AnswerNow, PostCallback, CallbackAnswered,
         CallbackTimesOut, RecordCallback
<1>2. bankView' = bankView /\ wireView' = wireView
  BY <1>1 DEF bankView, wireView, Committed
<1> QED
  BY <1>2, ServiceUntouched DEF BankWorks

LEMMA ServiceStep ==
    EmulatorTypeOK /\ RequestsOK /\ [SystemNext]_systemVars => [Service!Next]_(Service!vars)
<1> SUFFICES ASSUME EmulatorTypeOK, RequestsOK, [SystemNext]_systemVars
             PROVE  [Service!Next]_(Service!vars)
  OBVIOUS
<1>1. CASE UNCHANGED systemVars
  <2>1. bankView' = bankView /\ wireView' = wireView
    BY <1>1 DEF systemVars, emulatorVars, bankView, wireView, Committed
  <2> QED
    BY <1>1, <2>1, ServiceUntouched DEF systemVars
<1>2. ASSUME NEW x \in posted, LoseCallback(x) PROVE UNCHANGED Service!vars
  <2>1. UNCHANGED <<ledger, requests>>
    BY <1>2 DEF LoseCallback
  <2>2. bankView' = bankView /\ wireView' = wireView
    BY <2>1 DEF bankView, wireView, Committed
  <2> QED
    BY <1>2, <2>2, ServiceUntouched DEF LoseCallback
<1> QED
  BY <1>1, <1>2, RuntimeIsService, RequestIsService, ThreadIsService, CallbackIsService,
     ReceiptIsService, LossIsService, TesterIsService, BankWorkIsNothing DEF SystemNext

(* The HTTP runtime, n8n and the emulator together implement the payment   *)
(* service over an arbitrary bank with arbitrary callbacks, for any number *)
(* of threads, handlers, operations and payments.                          *)
THEOREM SystemImplementsService == SystemSpec => ServiceSpec
<1>1. SystemSpec => []EmulatorTypeOK
  BY SystemRunsEmulator, EmulatorTypeCorrect, PTL
<1> QED
  BY <1>1, ServiceInit, ServiceStep, RequestsInvariant, PTL
     DEF SystemSpec, ServiceSpec, Service!Spec

-----------------------------------------------------------------------------
(* What is proved of the service over any bank, used for this one. Proved  *)
(* is Service with its theorems; the two are the same, definition by       *)
(* definition.                                                             *)
Proved == INSTANCE ServiceHistoryProofs
    WITH Workers <- Threads, Events <- EventIds, Callbacks <- BankCallbacks,
         BankStatuses <- BankStatuses, Resolutions <- {}, AdapterMayRaise <- TRUE,
         bank <- bankView, wire <- wireView

LEMMA SameStatuses ==
    /\ Proved!Status = Service!Status /\ Proved!Sources = Service!Sources
    /\ Proved!MaybeExt = Service!MaybeExt
    /\ Proved!IntegrationRecord = Service!IntegrationRecord
    /\ Proved!Decision = Service!Decision
    /\ Proved!ServiceCalls = Service!ServiceCalls
BY DEF Proved!Status, Service!Status, Proved!Sources, Service!Sources,
       Proved!MaybeExt, Service!MaybeExt, Proved!AuditEvent, Service!AuditEvent,
       Proved!IntegrationRecord, Service!IntegrationRecord,
       Proved!Decision, Service!Decision, Proved!ServiceCalls, Service!ServiceCalls,
       Proved!BankReports, Service!BankReports, Proved!Terminal, Service!Terminal,
       Proved!TRANSITIONS, Service!TRANSITIONS

\* The assumptions of the service's modules.
LEMMA ServiceAssumptions ==
    /\ Proved!NoExtAssumption /\ Proved!NoEventAssumption
    /\ Proved!CallbacksAssumption /\ Proved!CallsAssumption
    /\ Proved!NoRecordAssumption /\ Proved!NoCallbackAssumption
    /\ Proved!PaymentsAssumption /\ Proved!NoPaymentAssumption
    /\ Proved!ExtIdOfAssumption /\ Proved!BankStatusesAssumption
    /\ Proved!ResolutionsAssumption /\ Proved!FlagsAssumption /\ Proved!NoDecisionAssumption
    /\ Proved!ServiceCallsAssumption
<1>1. Proved!NoExtAssumption /\ Proved!NoEventAssumption
  BY ServiceAssumption DEF Proved!NoExtAssumption, Proved!NoEventAssumption
<1>2. Proved!CallbacksAssumption
  <2>1. ToldStatuses \subseteq Proved!Status
    BY StatusesAssumption, SameStatuses DEF ToldStatuses, Proved!Status
  <2>2. \A o \in Ops : ExtIdOf[o] \in Proved!MaybeExt
    BY ServiceAssumption DEF Proved!MaybeExt
  <2> QED
    BY <2>1, <2>2 DEF Proved!CallbacksAssumption, BankCallbacks, Callback
<1>3. Proved!CallsAssumption /\ Proved!ServiceCallsAssumption
  BY ServiceAssumption, SameStatuses
  DEF Proved!CallsAssumption, Proved!ServiceCallsAssumption
<1>4. Proved!NoRecordAssumption /\ Proved!NoCallbackAssumption /\ Proved!NoDecisionAssumption
  BY ServiceAssumption, SameStatuses
  DEF Proved!NoRecordAssumption, Proved!NoCallbackAssumption, Proved!NoDecisionAssumption
<1>5. Proved!PaymentsAssumption /\ Proved!NoPaymentAssumption
  BY ServiceAssumption, EmulatorAssumption
  DEF Proved!PaymentsAssumption, Proved!NoPaymentAssumption
<1>6. /\ Proved!ExtIdOfAssumption /\ Proved!BankStatusesAssumption
      /\ Proved!ResolutionsAssumption /\ Proved!FlagsAssumption
  BY ServiceAssumption, StatusesAssumption, SameStatuses
  DEF Proved!ExtIdOfAssumption, Proved!BankStatusesAssumption,
      Proved!ResolutionsAssumption, Proved!FlagsAssumption
<1> QED
  BY <1>1, <1>2, <1>3, <1>4, <1>5, <1>6

LEMMA SameNext == Service!Next <=> Proved!Next
BY DEF Service!ComeUp, Proved!ComeUp, Service!Start, Proved!Start,
       Service!Crash, Proved!Crash, Service!GiveUp, Proved!GiveUp,
       Service!Submit, Proved!Submit, Service!MoveToReady, Proved!MoveToReady,
       Service!Reread, Proved!Reread, Service!Claim, Proved!Claim,
       Service!CallAdapter, Proved!CallAdapter, Service!AdapterReturns,
       Proved!AdapterReturns, Service!AdapterRaises, Proved!AdapterRaises,
       Service!ReadAfterError, Proved!ReadAfterError, Service!SaveError,
       Proved!SaveError, Service!ReadAnswer, Proved!ReadAnswer,
       Service!PersistSent, Proved!PersistSent, Service!Reconcile,
       Proved!Reconcile, Service!Lookup, Proved!Lookup, Service!Resolve,
       Proved!Resolve, Service!ApplyDecision, Proved!ApplyDecision,
       Service!ReceiveCallback, Proved!ReceiveCallback, Service!BankCommit,
       Proved!BankCommit, Service!LoseRequest, Proved!LoseRequest,
       Service!BankMoves, Proved!BankMoves, Service!Continue, Proved!Continue,
       Service!Asked, Proved!Asked, Service!Environment, Proved!Environment,
       Service!Processes, Proved!Processes, Service!Next, Proved!Next,
       Service!Goto, Proved!Goto, Service!Return, Proved!Return, Service!Op,
       Proved!Op, Service!AlreadySent, Proved!AlreadySent, Service!SendSteps,
       Proved!SendSteps, Service!DecisionSteps, Proved!DecisionSteps,
       Service!Steps, Proved!Steps, Service!BankReports, Proved!BankReports,
       Service!Registered, Proved!Registered, Service!RowAfterRegister,
       Proved!RowAfterRegister, Service!Register, Proved!Register,
       Service!Transition, Proved!Transition, Service!Refused, Proved!Refused,
       Service!Claimable, Proved!Claimable, Service!Attempted, Proved!Attempted,
       Service!ClaimSend, Proved!ClaimSend, Service!Sending, Proved!Sending,
       Service!RecoverSending, Proved!RecoverSending, Service!Save, Proved!Save,
       Service!Received, Proved!Received, Service!FirstDelivery,
       Proved!FirstDelivery, Service!Redelivery, Proved!Redelivery,
       Service!ConflictingDelivery, Proved!ConflictingDelivery,
       Service!ApplyCallback, Proved!ApplyCallback, Service!Status,
       Proved!Status, Service!TRANSITIONS, Proved!TRANSITIONS, Service!Terminal,
       Proved!Terminal, Service!NewRecord, Proved!NewRecord, Service!CanMove,
       Proved!CanMove, Service!Moved, Proved!Moved, Service!TransitionRecord,
       Proved!TransitionRecord, Service!Permitted, Proved!Permitted,
       Service!localVars, Proved!localVars, Service!bankVars, Proved!bankVars,
       Service!repositoryVars, Proved!repositoryVars, Service!AnyUp, Proved!AnyUp,
       Service!Holding, Proved!Holding, Service!vars, Proved!vars

LEMMA SameStep == [Service!Next]_(Service!vars) <=> [Proved!Next]_(Proved!vars)
<1>1. (Service!vars' = Service!vars) <=> (Proved!vars' = Proved!vars)
  BY DEF Service!vars, Proved!vars
<1> QED
  BY <1>1, SameNext

\* What holds in every state of the system by what is proved of its parts.
Known == EmulatorTypeOK /\ LedgerInv /\ RequestsOK /\ Proved!ServiceInv

LEMMA SystemRunsService == SystemSpec => Proved!Spec
<1>1. Service!Init <=> Proved!Init
  BY DEF Service!Init, Proved!Init, Service!RepositoryInit, Proved!RepositoryInit
<1>2. ServiceSpec => Proved!Spec
  BY <1>1, SameStep, PTL DEF ServiceSpec, Service!Spec, Proved!Spec
<1> QED
  BY <1>2, SystemImplementsService, PTL

LEMMA SystemKnown == SystemSpec => []Known
<1>1. Proved!Spec => []Proved!ServiceInv
  BY Proved!ServiceInvariant, ServiceAssumptions, PTL
<1>2. SystemSpec => [](EmulatorTypeOK /\ LedgerInv)
  BY SystemRunsEmulator, EmulatorTypeCorrect, LedgerInvariant, PTL
<1> QED
  BY <1>1, <1>2, SystemRunsService, RequestsInvariant, PTL DEF Known

LEMMA KnownStep == Known /\ [SystemNext]_systemVars => [Proved!Next]_(Proved!vars)
BY ServiceStep, SameStep DEF Known

(* The running system pays an operation at most once: through n8n, a pool  *)
(* of threads, timeouts, lost requests and restarts of the runtime.        *)
THEOREM SystemPaysOnce == SystemSpec => []Service!AtMostOneExternalSend
<1>1. Proved!AtMostOneExternalSend <=> Service!AtMostOneExternalSend
  BY DEF Proved!AtMostOneExternalSend, Service!AtMostOneExternalSend
<1>2. Proved!ServiceInv => Proved!AtMostOneExternalSend
  <2> SUFFICES ASSUME Proved!ServiceInv, NEW o \in Ops
               PROVE  calls[o] <= 1
    BY DEF Proved!AtMostOneExternalSend
  <2>1. calls[o] = 0 \/ calls[o] = 1
    BY DEF Proved!ServiceInv, Proved!IInv, Proved!ClaimInv, Proved!CallsClaimed
  <2> QED
    BY <2>1
<1> QED
  BY <1>1, <1>2, SystemKnown, PTL DEF Known

(* What is proved of the service over any bank holds of the running        *)
(* system: one thread holds an operation's claim, the claim is durable     *)
(* before the bank hears of the payment, what travels is what was          *)
(* registered, the trail tells the status, and an event of the bank moves  *)
(* one operation once, however often n8n delivers it.                      *)
THEOREM SystemKeepsTheService ==
    SystemSpec => [](/\ Service!OneHolder /\ Service!SentIsClaimed
                     /\ Service!SentAsRegistered /\ Service!AuditTellsStatus
                     /\ Service!EventMovesOnce)
<1>1. Proved!Spec => [](/\ Proved!OneHolder /\ Proved!SentIsClaimed
                        /\ Proved!SentAsRegistered /\ Proved!AuditTellsStatus
                        /\ Proved!EventMovesOnce)
  BY ServiceAssumptions, Proved!HoldersAreUnique, Proved!SendsAreClaimed,
     Proved!RegisteredTermsAreSent, Proved!ServiceAuditTells, Proved!ServiceEventMovesOnce,
     PTL
<1>2. Proved!OneHolder => Service!OneHolder
  BY DEF Proved!OneHolder, Service!OneHolder, Proved!Holding, Service!Holding,
         Proved!Op, Service!Op
<1>3. Proved!SentIsClaimed => Service!SentIsClaimed
  BY DEF Proved!SentIsClaimed, Service!SentIsClaimed, Proved!Registered, Service!Registered
<1>4. Proved!SentAsRegistered => Service!SentAsRegistered
  BY DEF Proved!SentAsRegistered, Service!SentAsRegistered,
         Proved!Registered, Service!Registered
<1>5. Proved!AuditTellsStatus => Service!AuditTellsStatus
  BY DEF Proved!AuditTellsStatus, Service!AuditTellsStatus,
         Proved!Registered, Service!Registered, Proved!TRANSITIONS, Service!TRANSITIONS
<1>6. Proved!EventMovesOnce => Service!EventMovesOnce
  BY DEF Proved!EventMovesOnce, Service!EventMovesOnce,
         Proved!Registered, Service!Registered
<1> QED
  BY <1>1, <1>2, <1>3, <1>4, <1>5, <1>6, SystemRunsService, PTL

(* Nor does the running system lose history more than once per operation,  *)
(* and then in a stale save.                                               *)
THEOREM SystemLosesHistoryOnce == SystemSpec => Service!HistoryLostOnce
<1> DEFINE Kept ==
        \A o \in Ops : Service!Registered(o) =>
            /\ record[o].error = "adapter_raised" => record'[o].error = "adapter_raised"
            /\ record'[o].error = record[o].error
                    => Service!KeepsHistory(record[o], record'[o])
        ProvedKept ==
        \A o \in Ops : Proved!Registered(o) =>
            /\ record[o].error = "adapter_raised" => record'[o].error = "adapter_raised"
            /\ record'[o].error = record[o].error
                    => Proved!KeepsHistory(record[o], record'[o])
<1>1. Proved!Spec => [][ProvedKept]_(Proved!vars)
  BY ServiceAssumptions, Proved!StaleSaveIsTheOnlyLoss, PTL DEF Proved!HistoryLostOnce
<1>2. [ProvedKept]_(Proved!vars) => [Kept]_(Service!vars)
  BY DEF Proved!Registered, Service!Registered, Proved!KeepsHistory, Service!KeepsHistory,
         Proved!Permitted, Service!Permitted, Proved!CanMove, Service!CanMove,
         Proved!TRANSITIONS, Service!TRANSITIONS, Proved!vars, Service!vars
<1> HIDE DEF Kept, ProvedKept
<1>3. SystemSpec => [][Kept]_(Service!vars)
  BY <1>1, <1>2, SystemRunsService, PTL
<1> QED
  BY <1>3 DEF Service!HistoryLostOnce, Kept

(* No conflict passes in silence in it, though its adapter raises: the     *)
(* operation a conflicting payload names waits for a person, is closed, or *)
(* shows that its send failed.                                             *)
THEOREM SystemConflictsAreSeenOrLost ==
    SystemSpec => [](\A e \in conflicts : \E c \in BankCallbacks :
                        /\ c.event = e /\ c # inbox[e] /\ Service!Registered(c.op)
                        /\ \/ record[c.op].status \in Service!Terminal \cup {"manual_check"}
                           \/ record[c.op].error = "adapter_raised")
<1> DEFINE Seen ==
        \A e \in conflicts : \E c \in BankCallbacks :
            /\ c.event = e /\ c # inbox[e] /\ Service!Registered(c.op)
            /\ \/ record[c.op].status \in Service!Terminal \cup {"manual_check"}
               \/ record[c.op].error = "adapter_raised"
        ProvedSeen ==
        \A e \in conflicts : \E c \in BankCallbacks :
            /\ c.event = e /\ c # inbox[e] /\ Proved!Registered(c.op)
            /\ \/ record[c.op].status \in Proved!Terminal \cup {"manual_check"}
               \/ record[c.op].error = "adapter_raised"
<1>1. Proved!Spec => []ProvedSeen
  BY ServiceAssumptions, Proved!ConflictsAreSeenOrLost
<1>2. ProvedSeen => Seen
  <2>1. Proved!Terminal = Service!Terminal
    BY DEF Proved!Terminal, Service!Terminal, Proved!Status, Service!Status,
           Proved!TRANSITIONS, Service!TRANSITIONS
  <2>2. \A o : Proved!Registered(o) <=> Service!Registered(o)
    BY DEF Proved!Registered, Service!Registered
  <2> QED
    BY <2>1, <2>2
<1> HIDE DEF Seen, ProvedSeen
<1>3. SystemSpec => []Seen
  BY <1>1, <1>2, SystemRunsService, PTL
<1> QED
  BY <1>3 DEF Seen

(* The system only goes on: no thread's handler goes back and no request   *)
(* of the emulator comes further from its end, whatever is lost, delayed   *)
(* or waits for what; a crash ends handlers, and does not delay them.      *)
THEOREM SystemOnlyGoesOn ==
    SystemSpec =>
        [][/\ \A w \in Threads : pc[w] \in Service!Steps =>
                pc'[w] = pc[w] \/ Proved!Left(pc'[w]) < Proved!Left(pc[w])
           /\ \A h \in Handlers : handler[h].phase # "idle" =>
                LeftOf(handler'[h]) <= LeftOf(handler[h])]_systemVars
<1> DEFINE ThreadsGoOn ==
        \A w \in Threads : pc[w] \in Service!Steps =>
            pc'[w] = pc[w] \/ Proved!Left(pc'[w]) < Proved!Left(pc[w])
        ProvedGoOn ==
        \A w \in Threads : pc[w] \in Proved!Steps =>
            /\ pc'[w] = pc[w] \/ Proved!Left(pc'[w]) < Proved!Left(pc[w])
            /\ Proved!Continue(w) => Proved!Left(pc'[w]) < Proved!Left(pc[w])
        HandlersGoOn ==
        \A h \in Handlers : handler[h].phase # "idle" =>
            LeftOf(handler'[h]) <= LeftOf(handler[h])
        NoneGoBack ==
        /\ \A w \in Threads : pc[w] \in Service!Steps =>
                pc'[w] = pc[w] \/ Proved!Left(pc'[w]) < Proved!Left(pc[w])
        /\ \A h \in Handlers : handler[h].phase # "idle" =>
                LeftOf(handler'[h]) <= LeftOf(handler[h])
<1>1. Proved!Spec => [][ProvedGoOn]_(Proved!vars)
  BY ServiceAssumptions, Proved!HandlersOnlyGoOn
<1>2. ProvedGoOn => ThreadsGoOn
  <2>1. Service!Steps = Proved!Steps
    BY DEF Service!Steps, Proved!Steps, Service!SendSteps, Proved!SendSteps,
           Service!DecisionSteps, Proved!DecisionSteps
  <2> QED
    BY <2>1
<1>3. UNCHANGED Proved!vars => ThreadsGoOn
  BY DEF Proved!vars
<1>4. EmulatorTypeOK /\ [EmulatorNext]_emulatorVars => HandlersGoOn
  BY BusyGoesOn
<1>5. ThreadsGoOn /\ HandlersGoOn => NoneGoBack
  OBVIOUS
<1> HIDE DEF ThreadsGoOn, ProvedGoOn, HandlersGoOn, NoneGoBack
<1>6. Known /\ [SystemNext]_systemVars => HandlersGoOn
  BY <1>4, EmulatorStep DEF Known
<1>7. SystemSpec => [][ThreadsGoOn]_(Proved!vars)
  BY <1>1, <1>2, SystemRunsService, PTL
<1>8. SystemSpec => [][NoneGoBack]_systemVars
  BY <1>3, <1>5, <1>6, <1>7, SystemKnown, PTL DEF SystemSpec
<1> QED
  BY <1>8 DEF NoneGoBack

(* If nobody asks the bank for the status sending, only what was claimed   *)
(* speaks of a call, and the bank's answers stand in the trails of what    *)
(* was sent.                                                               *)
THEOREM SystemEvidenceIsEarned ==
    ASSUME "sending" \notin DesiredStatuses
    PROVE  SystemSpec => []Service!EvidenceNeedsSend
<1>1. Proved!HonestCallbacks
  BY EmulatorAssumption DEF Proved!HonestCallbacks, BankCallbacks, Callback, ToldStatuses,
     BankStatuses
<1>2. Proved!Spec => []Proved!EvidenceNeedsSend
  BY <1>1, ServiceAssumptions, Proved!EvidenceIsEarned
<1>3. Proved!EvidenceNeedsSend => Service!EvidenceNeedsSend
  BY DEF Proved!EvidenceNeedsSend, Service!EvidenceNeedsSend,
         Proved!Registered, Service!Registered
<1> QED
  BY <1>2, <1>3, SystemRunsService, PTL

-----------------------------------------------------------------------------
(* The whole system's types: what is on the wire is nowhere else.          *)

\* An operation the ledger holds was called for, and so claimed.
LEMMA CommittedIsClaimed ==
    ASSUME Known, NEW o \in Ops, Committed(o)
    PROVE  /\ calls[o] = 1
           /\ Proved!Registered(o) /\ record[o].attempts = 1
<1>1. bankView[o] # "absent"
  BY CommittedIsPresent DEF Known
<1>2. calls[o] = 1
  BY <1>1 DEF Known, Proved!ServiceInv, Proved!ToldInv, Proved!BankAsked
<1> QED
  BY <1>2 DEF Known, Proved!ServiceInv, Proved!IInv, Proved!ClaimInv, Proved!CallsClaimed

LEMMA OnTheWireIsNew ==
    ASSUME Known, NEW p \in wireView
    PROVE  p.op \in Ops /\ ~Committed(p.op)
<1>1. p \in Payments /\ p.op \in Ops
  BY EmulatorAssumption DEF wireView
<1>2. bankView[p.op] = "absent"
  BY DEF Known, Proved!ServiceInv, Proved!WireIsFirst
<1> QED
  BY <1>1, <1>2, CommittedIsPresent DEF Known

ToldOK == told \in SUBSET Ops

LEMMA TellStep ==
    ASSUME [SystemNext]_systemVars
    PROVE  \/ told' = told
           \/ \E w \in Threads, p \in Payments :
                /\ SubmitPayment(w, p) /\ record'[p.op].terms = p.terms
                /\ pc'[w] = "idle" /\ told' = told \cup {p.op}
           \/ \E w \in Threads :
                /\ MayReturn(w)
                /\ pc'[w] = "idle" /\ told' = told \cup {request[w].op}
<1>1. CASE StartRuntime \/ CrashRuntime \/ UNCHANGED systemVars
  BY <1>1 DEF StartRuntime, CrashRuntime, systemVars
<1>2. ASSUME NEW w \in Threads, NEW p \in Payments, SubmitPayment(w, p)
      PROVE  \/ told' = told
             \/ /\ record'[p.op].terms = p.terms
                /\ pc'[w] = "idle" /\ told' = told \cup {p.op}
  BY <1>2 DEF SubmitPayment, Tell
<1>3. ASSUME NEW w \in Threads, MayReturn(w)
      PROVE  told' = told \/ (pc'[w] = "idle" /\ told' = told \cup {request[w].op})
  BY <1>3 DEF MayReturn, Tell
<1>4. ASSUME NEW w \in Threads, (ThreadStep(w) /\ ~MayReturn(w)) \/ \E o \in Ops : Recover(w, o)
      PROVE  told' = told
  BY <1>4 DEF ThreadStep, GoesOn, PostPayment, AdapterReturns, AdapterRaises,
              LookupPayment, ApplyLookup, Recover
<1>5. CASE \E x \in posted : ServeCallback(x) \/ LoseCallback(x)
  BY <1>5 DEF ServeCallback, LoseCallback
<1>6. CASE \E h \in Handlers :
              \/ \E p \in Payments : BankReceives(h, p)
              \/ BankWorks(h) \/ TesterSetsStatus(h)
  BY <1>6 DEF BankReceives, BankWorks, TesterSetsStatus
<1>7. CASE \E p \in Payments : LoseRequest(p)
  BY <1>7 DEF LoseRequest
<1> QED
  BY <1>1, <1>2, <1>3, <1>4, <1>5, <1>6, <1>7 DEF SystemNext

\* A thread that may return is sending an operation.
LEMMA ReturnerSends ==
    ASSUME Known, NEW w \in Threads, MayReturn(w)
    PROVE  pc[w] \in Proved!SendSteps /\ request[w] \in Payments /\ request[w].op \in Ops
<1>1. pc[w] \in Proved!SendSteps
  BY DEF MayReturn, Service!Claim, Service!ReadAnswer, Service!PersistSent, Service!Reread,
         Proved!SendSteps
<1> QED
  BY <1>1, EmulatorAssumption DEF Known, Proved!ServiceInv, Proved!IInv, Proved!LocalTypeOK

THEOREM SystemTypeCorrect == SystemSpec => []SystemTypeOK
<1>1. SystemInit => ToldOK
  BY DEF SystemInit, ToldOK
<1>2. Known /\ ToldOK /\ [SystemNext]_systemVars => ToldOK'
  BY TellStep, ReturnerSends, EmulatorAssumption DEF ToldOK
<1>3. Known /\ ToldOK => SystemTypeOK
  <2> SUFFICES ASSUME Known, ToldOK, NEW p \in Payments, requests[p] # NoRequest
               PROVE  p \notin replies /\ \A h \in Handlers : handler[h].owes # p
    BY DEF SystemTypeOK, Known, RequestsOK, ToldOK
  <2>1. ~Committed(p.op)
    BY OnTheWireIsNew DEF wireView
  <2> QED
    BY <2>1, EmulatorAssumption DEF Known, LedgerInv, StateHolds, Holds, Committed
<1> QED
  BY <1>1, <1>2, <1>3, SystemKnown, PTL DEF SystemSpec

-----------------------------------------------------------------------------
(* What the bank holds.                                                    *)
HeldAsSent(o) ==
    /\ ledger[o].payment.op = o
    /\ record[o].terms = ledger[o].payment.terms
    /\ \A w \in Threads :
            (pc[w] \in Proved!Called /\ request[w].op = o) => request[w] = ledger[o].payment

AllHeldAsSent == \A o \in Ops : Committed(o) => HeldAsSent(o)

\* A row of the ledger keeps its payment; a new one holds what has arrived.
LEMMA LedgerSteps ==
    ASSUME Known, [SystemNext]_systemVars, NEW o \in Ops, Committed(o)'
    PROVE  \/ Committed(o) /\ ledger'[o].payment = ledger[o].payment
           \/ \E p \in wireView :
                /\ p.op = o /\ ledger'[o].payment = p
                /\ UNCHANGED <<tables, threads>>
<1>1. CASE ledger' = ledger
  BY <1>1 DEF Committed
<1>2. ASSUME NEW h \in Handlers, NEW p \in Payments, BankReceives(h, p)
      PROVE  \/ Committed(o) /\ ledger'[o].payment = ledger[o].payment
             \/ /\ p \in wireView /\ p.op = o /\ ledger'[o].payment = p
                /\ UNCHANGED <<tables, threads>>
  <2> DEFINE row == RowAfterCommit(p, requests[p].desired)
  <2>1. p \in wireView /\ p.op \in Ops /\ ~Committed(p.op)
    BY <1>2, OnTheWireIsNew DEF wireView, BankReceives
  <2>2. row.payment = p
    BY <2>1 DEF RowAfterCommit
  <2>3. ledger' = [ledger EXCEPT ![p.op] = row]
    BY <1>2 DEF BankReceives, Submit
  <2> HIDE DEF row
  <2>4. ledger'[o] = IF o = p.op THEN row ELSE ledger[o]
    BY <2>3 DEF Known, EmulatorTypeOK
  <2> QED
    BY <1>2, <2>1, <2>2, <2>4 DEF BankReceives, Committed
<1>3. ASSUME NEW h \in Handlers, TesterSetsStatus(h)
      PROVE  Committed(o) /\ ledger'[o].payment = ledger[o].payment
  <2>1. PICK q \in Ops, s \in SettableStatuses :
            Committed(q) /\ ledger' = [ledger EXCEPT ![q].status = s]
    BY <1>3 DEF TesterSetsStatus, SetStatusAny, SetStatus
  <2>2. ledger'[o] = IF o = q THEN [ledger[q] EXCEPT !.status = s] ELSE ledger[o]
    BY <2>1 DEF Known, EmulatorTypeOK
  <2>3. ledger[q] \in Row
    BY <2>1 DEF Known, EmulatorTypeOK, Committed, Row
  <2> QED
    BY <2>1, <2>2, <2>3 DEF Committed, Row
<1>4. ASSUME NEW w \in Threads,
             \/ \E p \in Payments : SubmitPayment(w, p)
             \/ \E q \in Ops : Recover(w, q)
             \/ ThreadStep(w)
      PROVE  ledger' = ledger
  BY <1>4 DEF SubmitPayment, Recover, ThreadStep, MayReturn, GoesOn, PostPayment,
              AdapterReturns, AdapterRaises, LookupPayment, ApplyLookup, emulatorVars
<1>5. CASE StartRuntime \/ CrashRuntime \/ UNCHANGED systemVars
  BY <1>1, <1>5 DEF StartRuntime, CrashRuntime, systemVars, emulatorVars
<1>6. CASE \E x \in posted : ServeCallback(x) \/ LoseCallback(x)
  BY <1>1, <1>6 DEF ServeCallback, LoseCallback
<1>7. ASSUME NEW h \in Handlers, BankWorks(h)
      PROVE  ledger' = ledger
  BY <1>7 DEF BankWorks, HandlerStep, WakeUp, PostCallback, CallbackAnswered,
              CallbackTimesOut, RecordCallback
<1>8. CASE \E p \in Payments : LoseRequest(p)
  BY <1>1, <1>8 DEF LoseRequest, emulatorVars
<1> QED
  BY <1>1, <1>2, <1>3, <1>4, <1>5, <1>6, <1>7, <1>8 DEF SystemNext

LEMMA StaysHeldAsSent ==
    ASSUME Known, AllHeldAsSent, [SystemNext]_systemVars
    PROVE  AllHeldAsSent'
<1> SUFFICES ASSUME NEW o \in Ops, Committed(o)'
             PROVE  HeldAsSent(o)'
  BY DEF AllHeldAsSent
<1>1. CASE Committed(o) /\ ledger'[o].payment = ledger[o].payment
  <2>1. /\ HeldAsSent(o) /\ calls[o] = 1
        /\ Proved!Registered(o)
    BY <1>1, CommittedIsClaimed DEF AllHeldAsSent
  <2>2. [Proved!Next]_(Proved!vars) /\ Proved!IInv /\ Proved!ToldInv
    BY KnownStep DEF Known, Proved!ServiceInv
  <2>3. record'[o].terms = record[o].terms
    BY <2>1, <2>2, ServiceAssumptions, Proved!RowsSurvive DEF Proved!RowsKept, Proved!RowKept
  <2>4. ASSUME NEW w \in Threads, pc'[w] \in Proved!Called, request'[w].op = o
        PROVE  request'[w] = ledger[o].payment
    <3>1. request'[w] = request[w] /\ (pc[w] \in Proved!Called \/ Proved!CallAdapter(w))
      BY <2>2, <2>4, ServiceAssumptions, Proved!CalledFrom
    <3>2. ~Proved!CallAdapter(w)
      BY <2>1, <2>2, <2>4, <3>1
      DEF Proved!CallAdapter, Proved!IInv, Proved!ClaimInv, Proved!NotYetCalled, Proved!Op
    <3> QED
      BY <2>1, <2>4, <3>1, <3>2 DEF HeldAsSent
  <2> QED
    BY <1>1, <2>1, <2>3, <2>4 DEF HeldAsSent
<1>2. ASSUME NEW p \in wireView, p.op = o, ledger'[o].payment = p,
             UNCHANGED <<tables, threads>>
      PROVE  HeldAsSent(o)'
  <2>1. record[o].terms = p.terms
    BY <1>2 DEF Known, Proved!ServiceInv, Proved!IInv, Proved!ClaimInv, Proved!SentAsRegistered
  <2>2. \A w \in Threads :
            (pc[w] \in Proved!Called /\ request[w].op = o) => request[w] = p
    BY <1>2 DEF Known, Proved!ServiceInv, Proved!WireIsOwn, Proved!Op
  <2> QED
    BY <1>2, <2>1, <2>2 DEF HeldAsSent, tables, threads
<1> QED
  BY <1>1, <1>2, LedgerSteps

(* The bank holds, of a claimed operation, the envelope of the thread that *)
(* claimed it, and it is the payment that was registered; no thread that   *)
(* still waits for the answer has brought another one.                     *)
THEOREM SystemBankHoldsWhatWasSent == SystemSpec => []BankHoldsWhatWasSent
<1>1. SystemInit => AllHeldAsSent
  BY DEF SystemInit, EmulatorInit, AllHeldAsSent, Committed
<1>2. Known /\ AllHeldAsSent /\ [SystemNext]_systemVars => AllHeldAsSent'
  BY StaysHeldAsSent
<1>3. Known /\ AllHeldAsSent => BankHoldsWhatWasSent
  <2> SUFFICES ASSUME Known, AllHeldAsSent, NEW o \in Ops, Committed(o)
               PROVE  /\ Service!Registered(o)
                      /\ record[o].terms = ledger[o].payment.terms
                      /\ record[o].attempts = 1
                      /\ \A w \in Threads :
                            (pc[w] \in Service!Holding /\ request[w].op = o)
                                => request[w] = ledger[o].payment
    BY DEF BankHoldsWhatWasSent
  <2>1. Service!Registered(o) /\ record[o].attempts = 1 /\ calls[o] = 1
    BY CommittedIsClaimed DEF Service!Registered, Proved!Registered
  <2>2. HeldAsSent(o)
    BY DEF AllHeldAsSent
  <2>3. ASSUME NEW w \in Threads, pc[w] \in Service!Holding, request[w].op = o
        PROVE  pc[w] \in Proved!Called
    BY <2>1, <2>3
    DEF Known, Proved!ServiceInv, Proved!IInv, Proved!ClaimInv, Proved!NotYetCalled,
        Proved!Op, Proved!Called, Proved!Holding, Service!Holding
  <2> QED
    BY <2>1, <2>2, <2>3 DEF HeldAsSent
<1> QED
  BY <1>1, <1>2, <1>3, SystemKnown, PTL DEF SystemSpec

-----------------------------------------------------------------------------
(* Whoever was told 200 need not come again.                               *)
ToldIsUnderWay == \A o \in told : Proved!Past(o, Proved!Early)

LEMMA ReturnIsUnderWay ==
    ASSUME Known, NEW w \in Threads, MayReturn(w), pc'[w] = "idle",
           NEW o \in Ops, o = request[w].op
    PROVE  Proved!Past(o, Proved!Early)'
<1>1. o = Proved!Op(w)
  BY DEF Proved!Op
<1>2. \/ Proved!Claim(w) \/ Proved!ReadAnswer(w) \/ Proved!PersistSent(w)
      \/ Proved!Reread(w) /\ record[o].status # "prepared"
  BY DEF MayReturn, Service!Claim, Proved!Claim, Service!ReadAnswer, Proved!ReadAnswer,
         Service!PersistSent, Proved!PersistSent, Service!Reread, Proved!Reread,
         Service!Goto, Proved!Goto, Service!Return, Proved!Return, Service!Op, Proved!Op,
         Service!AlreadySent, Proved!AlreadySent, Service!Registered, Proved!Registered,
         Service!Transition, Proved!Transition, Service!Claimable, Proved!Claimable,
         Service!Attempted, Proved!Attempted, Service!ClaimSend, Proved!ClaimSend,
         Service!Sending, Proved!Sending, Service!TRANSITIONS, Proved!TRANSITIONS,
         Service!CanMove, Proved!CanMove, Service!Moved, Proved!Moved,
         Service!TransitionRecord, Proved!TransitionRecord, Service!Permitted,
         Proved!Permitted, Service!localVars, Proved!localVars, Service!bankVars,
         Proved!bankVars, Service!repositoryVars, Proved!repositoryVars
<1> QED
  BY <1>1, <1>2, ServiceAssumptions, Proved!ReturnedIsUnderWay DEF Known

LEMMA SubmissionIsUnderWay ==
    ASSUME Known, NEW w \in Threads, NEW p \in Payments, SubmitPayment(w, p),
           record'[p.op].terms = p.terms, pc'[w] = "idle"
    PROVE  Proved!Past(p.op, Proved!Early)'
<1>1. Proved!Submit(w, p)
  BY DEF SubmitPayment, Service!Submit, Proved!Submit, Service!Return, Proved!Return,
         Service!AlreadySent, Proved!AlreadySent, Service!RowAfterRegister,
         Proved!RowAfterRegister, Service!Register, Proved!Register,
         Service!Registered, Proved!Registered, Service!NewRecord, Proved!NewRecord,
         Service!bankVars, Proved!bankVars
<1> QED
  BY <1>1, ServiceAssumptions, Proved!SubmittedIsUnderWay DEF Known

LEMMA StaysUnderWay ==
    ASSUME Known, ToldOK, ToldIsUnderWay, [SystemNext]_systemVars
    PROVE  ToldIsUnderWay'
<1>1. ASSUME NEW o \in told PROVE Proved!Past(o, Proved!Early)'
  <2>1. [Proved!Next]_(Proved!vars) /\ Proved!IInv /\ Proved!ToldInv
    BY KnownStep DEF Known, Proved!ServiceInv
  <2>2. o \in Ops /\ Proved!Past(o, Proved!Early) /\ Proved!Early \in Proved!Waiting
    BY DEF ToldOK, ToldIsUnderWay, Proved!Early, Proved!Waiting
  <2> QED
    BY <2>1, <2>2, ServiceAssumptions, Proved!PastStays
<1>2. ASSUME NEW o \in told', o \notin told PROVE Proved!Past(o, Proved!Early)'
  <2>1. ASSUME NEW w \in Threads, NEW p \in Payments, SubmitPayment(w, p),
               record'[p.op].terms = p.terms, pc'[w] = "idle", o = p.op
        PROVE  Proved!Past(o, Proved!Early)'
    BY <2>1, SubmissionIsUnderWay
  <2>2. ASSUME NEW w \in Threads, MayReturn(w), pc'[w] = "idle", o = request[w].op
        PROVE  Proved!Past(o, Proved!Early)'
    BY <2>2, ReturnIsUnderWay, ReturnerSends
  <2> QED
    BY <1>2, <2>1, <2>2, TellStep
<1> QED
  BY <1>1, <1>2 DEF ToldIsUnderWay

(* What a client was told with 200 stays true: no step, not even a stale   *)
(* save of another thread, makes the operation wait to be sent again.      *)
THEOREM SystemAnsweredIsUnderWay == SystemSpec => []AnsweredIsUnderWay
<1>1. SystemInit => ToldOK /\ ToldIsUnderWay
  BY DEF SystemInit, ToldOK, ToldIsUnderWay
<1>2. Known /\ ToldOK /\ [SystemNext]_systemVars => ToldOK'
  BY TellStep, ReturnerSends, EmulatorAssumption DEF ToldOK
<1>3. Known /\ ToldOK /\ ToldIsUnderWay /\ [SystemNext]_systemVars => ToldIsUnderWay'
  BY StaysUnderWay
<1>4. ToldIsUnderWay => AnsweredIsUnderWay
  BY DEF ToldIsUnderWay, AnsweredIsUnderWay, Proved!Past, Proved!Early
<1> QED
  BY <1>1, <1>2, <1>3, <1>4, SystemKnown, PTL DEF SystemSpec

-----------------------------------------------------------------------------
(* What was answered with 200 was processed.                               *)
Processed(c) == inbox[c.event] # NoCallback /\ inbox[c.event].status = c.status

\* An answer that has been heard and not recorded yet.
HeardIsProcessed ==
    \A h \in Handlers : handler[h].heard = "200" =>
        handler[h].phase = "waiting" /\ Processed(Head(handler[h].todo))

LEMMA WaitingFor ==
    ASSUME Known, NEW h \in Handlers, handler[h].phase = "waiting"
    PROVE  Head(handler[h].todo) \in BankCallbacks
<1>1. handler[h].todo \in Seq(BankCallbacks) /\ handler[h].todo # <<>>
  BY DEF Known, EmulatorTypeOK, HandlerStates
<1> QED
  BY <1>1

LEMMA EventIsKnown == \A c \in BankCallbacks : c.event \in EventIds /\ c.status \in ToldStatuses
BY DEF BankCallbacks, Callback

LEMMA StaysProcessed ==
    ASSUME Known, [SystemNext]_systemVars, NEW c, c.event \in EventIds, Processed(c)
    PROVE  inbox'[c.event] = inbox[c.event]
<1>1. [Proved!Next]_(Proved!vars) /\ Proved!IInv
  BY KnownStep DEF Known, Proved!ServiceInv
<1> QED
  BY <1>1, ServiceAssumptions, Proved!InboxSteps DEF Processed

\* A callback that is served with 200 was applied, now or before.
LEMMA ServedIsProcessed ==
    ASSUME Known, NEW x \in posted, ServeCallback(x), CodeOf(x.callback) = "200"
    PROVE  inbox'[x.callback.event] = x.callback /\ x.callback # NoCallback
<1> DEFINE c == x.callback
<1>1. c \in BankCallbacks /\ c.event \in EventIds
  BY EventIsKnown DEF Known, EmulatorTypeOK
<1>2. ~RefusedCallback(c) /\ inbox[c.event] \in {NoCallback, c}
  BY DEF CodeOf, Conflicting
<1>3. Service!FirstDelivery(c) \/ Service!Redelivery(c)
  BY <1>2 DEF ServeCallback, Service!ReceiveCallback, Service!ApplyCallback,
              Service!ConflictingDelivery
<1>4. inbox \in [EventIds -> BankCallbacks \cup {NoCallback}]
  BY DEF Known, Proved!ServiceInv, Proved!IInv, Proved!RInv, Proved!RepositoryTypeOK
<1>5. inbox'[c.event] = c
  BY <1>1, <1>3, <1>4 DEF Service!FirstDelivery, Service!Redelivery, Service!repositoryVars
<1> QED
  BY <1>1, <1>5, ServiceAssumption

\* Only a callback that is served is answered.
LEMMA HeardFrom ==
    ASSUME Known, HeardIsProcessed, [SystemNext]_systemVars,
           NEW h \in Handlers, handler'[h].heard = "200"
    PROVE  \/ handler'[h] = handler[h]
           \/ \E x \in posted :
                /\ ServeCallback(x) /\ CodeOf(x.callback) = "200"
                /\ handler'[h].phase = "waiting" /\ Head(handler'[h].todo) = x.callback
<1>0. handler \in [Handlers -> HandlerStates]
  BY DEF Known, EmulatorTypeOK
\* A new piece of work has heard nothing.
<1>1. ASSUME NEW g \in Handlers, NEW s, s.heard = "nothing", handler' = [handler EXCEPT ![g] = s]
      PROVE  handler'[h] = handler[h]
  BY <1>0, <1>1
<1>2. ASSUME NEW g \in Handlers, NEW phase, NEW blocking, NEW todo, NEW owes,
             handler' = [handler EXCEPT ![g] = Busy(phase, blocking, todo, owes)]
      PROVE  handler'[h] = handler[h]
  <2> DEFINE s == Busy(phase, blocking, todo, owes)
  <2>1. s.heard = "nothing"
    BY DEF Busy
  <2>2. handler' = [handler EXCEPT ![g] = s]
    BY <1>2
  <2> HIDE DEF s
  <2> QED
    BY <1>1, <2>1, <2>2
<1>3. ASSUME NEW g \in Handlers, NEW p \in Payments, BankReceives(g, p)
      PROVE  handler'[h] = handler[h]
  <2> DEFINE todo == CallbacksOf(p, requests[p].mode, requests[p].desired)
  <2>1. \/ handler' = handler
        \/ handler' = [handler EXCEPT ![g] = Busy("sleeping", FALSE, todo, p)]
        \/ handler' = [handler EXCEPT ![g] = Busy("posting", TRUE, todo, p)]
        \/ handler' = [handler EXCEPT ![g] = Busy("posting", FALSE, todo, NoPayment)]
    BY <1>3 DEF BankReceives, Submit, AnswerNow, AnswerLater
  <2> HIDE DEF todo
  <2> QED
    BY <1>2, <2>1
<1>4. ASSUME NEW g \in Handlers, TesterSetsStatus(g)
      PROVE  handler'[h] = handler[h]
  <2>1. PICK o \in Ops, t \in SettableStatuses :
            \E event \in {<<o, t>>} \cup ChosenIds : SetStatus(g, o, t, event)
    BY <1>4 DEF TesterSetsStatus, SetStatusAny
  <2>2. \E todo : handler' = [handler EXCEPT ![g] = Busy("posting", TRUE, todo, NoPayment)]
    BY <2>1 DEF SetStatus
  <2> QED
    BY <1>2, <2>2
<1>5. ASSUME NEW g \in Handlers, BankWorks(g)
      PROVE  handler'[h] = handler[h]
  <2>1. CASE WakeUp(g)
    BY <1>2, <2>1 DEF WakeUp, AnswerNow
  <2>2. CASE PostCallback(g)
    <3>1. /\ handler[g].phase = "posting"
          /\ handler' = [handler EXCEPT ![g].phase = "waiting"]
      BY <2>2 DEF PostCallback
    <3>2. g # h
      BY <1>0, <3>1 DEF HandlerStates, HeardIsProcessed
    <3> QED
      BY <1>0, <3>1, <3>2
  <2>3. ASSUME NEW outcome, RecordCallback(g, outcome)
        PROVE  handler'[h] = handler[h]
    <3>1. Idle.heard = "nothing"
      BY DEF Idle
    <3> QED
      BY <1>1, <1>2, <2>3, <3>1 DEF RecordCallback
  <2> QED
    BY <1>5, <2>1, <2>2, <2>3 DEF BankWorks, HandlerStep, CallbackAnswered, CallbackTimesOut
<1>6. ASSUME NEW x \in posted, ServeCallback(x), handler'[h] # handler[h]
      PROVE  /\ CodeOf(x.callback) = "200"
             /\ handler'[h].phase = "waiting" /\ Head(handler'[h].todo) = x.callback
  <2>1. /\ WaitsFor(x) /\ x.by = h
        /\ handler' = [handler EXCEPT ![h].heard = CodeOf(x.callback)]
    BY <1>0, <1>6 DEF ServeCallback, Answered
  <2>2. /\ handler'[h].heard = CodeOf(x.callback)
        /\ handler'[h].phase = handler[h].phase /\ handler'[h].todo = handler[h].todo
    BY <1>0, <2>1 DEF HandlerStates
  <2> QED
    BY <2>1, <2>2 DEF WaitsFor
<1>7. CASE \E x \in posted : LoseCallback(x)
  BY <1>7 DEF LoseCallback, Lost
<1>8. ASSUME NEW w \in Threads,
             \/ \E p \in Payments : SubmitPayment(w, p)
             \/ \E o \in Ops : Recover(w, o)
             \/ ThreadStep(w)
      PROVE  handler' = handler
  BY <1>8 DEF SubmitPayment, Recover, ThreadStep, MayReturn, GoesOn, PostPayment,
              AdapterReturns, AdapterRaises, LookupPayment, ApplyLookup, emulatorVars
<1>9. CASE StartRuntime \/ CrashRuntime \/ UNCHANGED systemVars
            \/ \E p \in Payments : LoseRequest(p)
  BY <1>9 DEF StartRuntime, CrashRuntime, LoseRequest, systemVars, emulatorVars
<1> QED
  BY <1>3, <1>4, <1>5, <1>6, <1>7, <1>8, <1>9 DEF SystemNext

\* What is recorded is what was heard.
LEMMA RecordedFrom ==
    ASSUME Known, [SystemNext]_systemVars, NEW e \in EventIds, NEW s \in ToldStatuses,
           attempts'[<<e, s>>] = "200"
    PROVE  \/ attempts[<<e, s>>] = "200"
           \/ \E h \in Handlers :
                /\ handler[h].heard = "200" /\ handler[h].phase = "waiting"
                /\ Head(handler[h].todo).event = e /\ Head(handler[h].todo).status = s
<1>0. attempts \in [EventIds \X ToldStatuses -> Outcomes \cup {"no_row"}]
  BY DEF Known, EmulatorTypeOK
<1>1. ASSUME NEW h \in Handlers, NEW outcome, handler[h].phase = "waiting",
             RecordCallback(h, outcome)
      PROVE  \/ attempts[<<e, s>>] = "200"
             \/ /\ outcome = "200"
                /\ Head(handler[h].todo).event = e /\ Head(handler[h].todo).status = s
  <2> DEFINE c == Head(handler[h].todo)
  <2>1. c.event \in EventIds /\ c.status \in ToldStatuses
    BY <1>1, WaitingFor, EventIsKnown
  <2>2. attempts' = [attempts EXCEPT ![<<c.event, c.status>>] = outcome]
    BY <1>1 DEF RecordCallback
  <2> HIDE DEF c
  <2>3. CASE <<e, s>> = <<c.event, c.status>>
    BY <1>0, <2>1, <2>2, <2>3 DEF c
  <2>4. CASE <<e, s>> # <<c.event, c.status>>
    BY <1>0, <2>1, <2>2, <2>4
  <2> QED
    BY <2>3, <2>4
<1>2. ASSUME NEW h \in Handlers, BankWorks(h)
      PROVE  \/ attempts[<<e, s>>] = "200"
             \/ /\ handler[h].heard = "200" /\ handler[h].phase = "waiting"
                /\ Head(handler[h].todo).event = e /\ Head(handler[h].todo).status = s
  <2>1. CASE CallbackAnswered(h)
    BY <1>1, <2>1 DEF CallbackAnswered
  <2>2. CASE CallbackTimesOut(h)
    BY <1>1, <2>2 DEF CallbackTimesOut
  <2> QED
    BY <1>2, <2>1, <2>2 DEF BankWorks, HandlerStep, WakeUp, PostCallback
<1>3. CASE \E h \in Handlers :
              TesterSetsStatus(h) \/ \E p \in Payments : BankReceives(h, p)
  BY <1>3 DEF TesterSetsStatus, SetStatusAny, SetStatus, BankReceives, Submit
<1>4. CASE \E x \in posted : ServeCallback(x) \/ LoseCallback(x)
  BY <1>4 DEF ServeCallback, LoseCallback
<1>5. ASSUME NEW w \in Threads,
             \/ \E p \in Payments : SubmitPayment(w, p)
             \/ \E o \in Ops : Recover(w, o)
             \/ ThreadStep(w)
      PROVE  attempts' = attempts
  BY <1>5 DEF SubmitPayment, Recover, ThreadStep, MayReturn, GoesOn, PostPayment,
              AdapterReturns, AdapterRaises, LookupPayment, ApplyLookup, emulatorVars
<1>6. CASE StartRuntime \/ CrashRuntime \/ UNCHANGED systemVars
            \/ \E p \in Payments : LoseRequest(p)
  BY <1>6 DEF StartRuntime, CrashRuntime, LoseRequest, systemVars, emulatorVars
<1> QED
  BY <1>2, <1>3, <1>4, <1>5, <1>6 DEF SystemNext

AckInv == HeardIsProcessed /\ AcknowledgedIsProcessed

LEMMA AckStep == Known /\ AckInv /\ [SystemNext]_systemVars => AckInv'
<1> SUFFICES ASSUME Known, AckInv, [SystemNext]_systemVars PROVE AckInv'
  OBVIOUS
<1>1. ASSUME NEW h \in Handlers, handler'[h].heard = "200"
      PROVE  (handler[h].phase = "waiting" /\ Processed(Head(handler[h].todo)))'
  <2>1. CASE handler'[h] = handler[h]
    <3>1. handler[h].phase = "waiting" /\ Processed(Head(handler[h].todo))
      BY <1>1, <2>1 DEF AckInv, HeardIsProcessed
    <3>2. Head(handler[h].todo).event \in EventIds
      BY <3>1, WaitingFor, EventIsKnown
    <3> QED
      BY <2>1, <3>1, <3>2, StaysProcessed DEF Processed
  <2>2. ASSUME NEW x \in posted, ServeCallback(x), CodeOf(x.callback) = "200",
               handler'[h].phase = "waiting", Head(handler'[h].todo) = x.callback
        PROVE  Processed(Head(handler[h].todo))'
    BY <2>2, ServedIsProcessed DEF Processed
  <2> QED
    BY <1>1, <2>1, <2>2, HeardFrom DEF AckInv, HeardIsProcessed
<1>2. ASSUME NEW e \in EventIds, NEW s \in ToldStatuses, attempts'[<<e, s>>] = "200"
      PROVE  inbox'[e] # NoCallback /\ inbox'[e].status = s
  <2>1. inbox[e] # NoCallback /\ inbox[e].status = s
    BY <1>2, RecordedFrom DEF AckInv, AcknowledgedIsProcessed, HeardIsProcessed, Processed
  <2> DEFINE c == [event |-> e, status |-> s]
  <2>2. c.event = e /\ Processed(c)
    BY <2>1 DEF Processed
  <2> HIDE DEF c
  <2> QED
    BY <2>1, <2>2, StaysProcessed
<1> QED
  BY <1>1, <1>2 DEF AckInv, HeardIsProcessed, AcknowledgedIsProcessed

(* An attempt recorded with 200 means that this very status was processed  *)
(* under its event id, although n8n stands between, callbacks are lost and *)
(* repeated, and one id may be used for two statuses.                      *)
THEOREM SystemAcknowledgedIsProcessed == SystemSpec => []AcknowledgedIsProcessed
<1>1. SystemInit => AckInv
  <2> SUFFICES ASSUME SystemInit PROVE AckInv
    OBVIOUS
  <2>1. \A h \in Handlers : handler[h].heard = "nothing"
    BY DEF SystemInit, EmulatorInit, Idle
  <2>2. \A e \in EventIds, s \in ToldStatuses : attempts[<<e, s>>] = "no_row"
    BY DEF SystemInit, EmulatorInit
  <2> QED
    BY <2>1, <2>2 DEF AckInv, HeardIsProcessed, AcknowledgedIsProcessed
<1>2. AckInv => AcknowledgedIsProcessed
  BY DEF AckInv
<1> QED
  BY <1>1, <1>2, AckStep, SystemKnown, PTL DEF SystemSpec

-----------------------------------------------------------------------------
(* Where statuses come from.                                               *)

\* An audit event of o that tells a status of the bank's.
Founded(o, a) ==
    /\ a.source = "bank_adapter" => Committed(o)
    /\ a.source = "bank_status_lookup" => a.new \in had[o]
    /\ a.source = "callback" =>
            \/ a.new \in had[o]
            \/ "conflicting_callback" \in Modes /\ Committed(o) /\ a.event = AcceptedId(o)

(* Not only the rows: a row that is going to be saved back, a lookup that  *)
(* is going to be applied and an answer that is going to be persisted rest *)
(* on the ledger, too.                                                     *)
FoundedRows ==
    \A o \in Ops : Proved!Registered(o) => \A a \in Proved!Entries(record[o]) : Founded(o, a)

FoundedThreads ==
    \A w \in Threads :
        /\ pc[w] = "save_error" => \A a \in Proved!Entries(seen[w]) : Founded(Proved!Op(w), a)
        /\ (pc[w] = "apply" /\ decision[w].source = "bank_status_lookup")
                => decision[w].to \in had[decision[w].op]
        /\ pc[w] \in Proved!Answered => Committed(Proved!Op(w))

LEMMA HadStays ==
    ASSUME Known, [SystemNext]_systemVars, NEW o \in Ops
    PROVE  had[o] \subseteq had'[o] /\ (Committed(o) => Committed(o)')
<1>1. [EmulatorNext]_emulatorVars /\ EmulatorTypeOK
  BY EmulatorStep DEF Known
<1>2. had \in [Ops -> SUBSET BankStatuses] /\ ledger \in [Ops -> Row \cup {NoRow}]
  BY <1>1 DEF EmulatorTypeOK, Row
<1>3. ASSUME NEW h \in Handlers, SubmitAny(h)
      PROVE  had[o] \subseteq had'[o] /\ (Committed(o) => Committed(o)')
  <2>1. PICK p \in Payments, mode \in Modes, desired \in DesiredStatuses :
            Submit(h, p, mode, desired)
    BY <1>3 DEF SubmitAny
  <2> DEFINE row == RowAfterCommit(p, desired)
  <2>2. row \in Row /\ row # NoRow /\ p.op \in Ops
    BY <1>1, SubmissionType, RowIsNoRow
  <2>3. /\ ledger' = [ledger EXCEPT ![p.op] = row]
        /\ had' = [had EXCEPT ![p.op] = @ \cup {row.status}]
    BY <2>1 DEF Submit
  <2> HIDE DEF row
  <2> QED
    BY <1>2, <2>2, <2>3 DEF Committed
<1>4. ASSUME NEW h \in Handlers, SetStatusAny(h)
      PROVE  had[o] \subseteq had'[o] /\ (Committed(o) => Committed(o)')
  <2>1. PICK q \in Ops, t \in SettableStatuses :
            /\ Committed(q)
            /\ ledger' = [ledger EXCEPT ![q].status = t]
            /\ had' = [had EXCEPT ![q] = @ \cup {t}]
    BY <1>4 DEF SetStatusAny, SetStatus
  <2> DEFINE row == [ledger[q] EXCEPT !.status = t]
  <2>2. row \in Row /\ row # NoRow
    <3>1. ledger[q] \in Row
      BY <1>2, <2>1 DEF Committed
    <3>2. row \in Row
      BY <3>1 DEF Row, BankStatuses
    <3> QED
      BY <3>2, RowIsNoRow
  <2>3. ledger' = [ledger EXCEPT ![q] = row]
    BY <2>1
  <2> HIDE DEF row
  <2> QED
    BY <1>2, <2>1, <2>2, <2>3 DEF Committed
<1>5. CASE \/ \E h \in Handlers : HandlerStep(h)
           \/ \E x \in posted : Webhook(x)
           \/ UNCHANGED emulatorVars
  BY <1>5
  DEF HandlerStep, WakeUp, PostCallback, CallbackAnswered, CallbackTimesOut,
      RecordCallback, Webhook, emulatorVars, Committed
<1> QED
  BY <1>1, <1>3, <1>4, <1>5 DEF EmulatorNext

LEMMA StaysFounded ==
    ASSUME Known, [SystemNext]_systemVars, NEW o \in Ops, NEW a, Founded(o, a)
    PROVE  Founded(o, a)'
BY HadStays DEF Founded

\* The service receives no callback but by serving one that was posted.
LEMMA WhoWrites ==
    ASSUME Known, [SystemNext]_systemVars
    PROVE  \/ record' = record
           \/ pc' # pc
           \/ \E x \in posted : ServeCallback(x) /\ Service!ReceiveCallback(x.callback)
<1>0. pc \in [Threads -> Proved!Steps \cup {"down", "idle"}]
  BY DEF Known, Proved!ServiceInv, Proved!IInv, Proved!LocalTypeOK
<1>1. ASSUME NEW w \in Threads, pc'[w] # pc[w]
      PROVE  pc' # pc
  BY <1>1
<1>2. CASE StartRuntime \/ CrashRuntime
  <2>1. PICK w \in Threads : TRUE
    BY ThreadsAssumption
  <2>2. StartRuntime => pc[w] = "down" /\ pc'[w] = "idle"
    BY DEF StartRuntime, Service!Start, Service!ComeUp
  <2>3. CrashRuntime => record' = record
    BY DEF CrashRuntime, Service!Crash, Service!repositoryVars
  <2> QED
    BY <1>1, <1>2, <2>1, <2>2, <2>3
<1>3. ASSUME NEW w \in Threads, NEW p \in Payments, SubmitPayment(w, p), record' # record
      PROVE  pc' # pc
  <2> DEFINE row == Service!RowAfterRegister(p.op, p.terms)
  <2>1. /\ pc[w] = "idle"
        /\ record' = [record EXCEPT ![p.op] = row]
        /\ IF row.terms # p.terms \/ row.status \in Service!AlreadySent
           THEN Service!Return(w)
           ELSE pc' = [pc EXCEPT ![w] = IF row.status = "prepared" THEN "transition" ELSE "claim"]
    BY <1>3 DEF SubmitPayment, Service!Submit, Service!Register
  <2>2. ~Service!Registered(p.op)
    <3>1. record = [o \in Ops |-> record[o]]
      BY DEF Known, Proved!ServiceInv, Proved!IInv, Proved!RInv, Proved!RepositoryTypeOK
    <3>2. CASE Service!Registered(p.op)
      BY <1>3, <2>1, <3>1, <3>2 DEF Service!RowAfterRegister
    <3> QED
      BY <3>2
  <2>3. row.terms = p.terms /\ row.status = "prepared"
    BY <2>2 DEF Service!RowAfterRegister, Service!NewRecord
  <2> HIDE DEF row
  <2>4. pc' = [pc EXCEPT ![w] = "transition"]
    BY <2>1, <2>3 DEF Service!AlreadySent
  <2> QED
    BY <1>0, <1>1, <2>1, <2>4
<1>4. ASSUME NEW w \in Threads, \E o \in Ops : Recover(w, o)
      PROVE  record' = record
  BY <1>4 DEF Recover, Service!Reconcile, Service!repositoryVars
<1>5. ASSUME NEW w \in Threads, ThreadStep(w)
      PROVE  record' = record \/ pc' # pc
  BY <1>0, <1>1, <1>5
  DEF ThreadStep, MayReturn, GoesOn, PostPayment, AdapterReturns, AdapterRaises,
      LookupPayment, ApplyLookup, Service!Claim, Service!ReadAnswer, Service!PersistSent,
      Service!Reread, Service!MoveToReady, Service!ReadAfterError, Service!SaveError,
      Service!GiveUp, Service!CallAdapter, Service!AdapterReturns, Service!AdapterRaises,
      Service!Lookup, Service!ApplyDecision, Service!Goto, Service!Return,
      Service!repositoryVars
<1>6. ASSUME NEW x \in posted, ServeCallback(x) \/ LoseCallback(x)
      PROVE  record' = record \/ (ServeCallback(x) /\ Service!ReceiveCallback(x.callback))
  BY <1>6 DEF ServeCallback, LoseCallback, tables
<1>7. CASE \/ \E h \in Handlers : \/ \E p \in Payments : BankReceives(h, p)
                                 \/ BankWorks(h) \/ TesterSetsStatus(h)
           \/ \E p \in Payments : LoseRequest(p)
           \/ UNCHANGED systemVars
  BY <1>7 DEF BankReceives, BankWorks, TesterSetsStatus, LoseRequest, systemVars, tables
<1> QED
  BY <1>2, <1>3, <1>4, <1>5, <1>6, <1>7 DEF SystemNext

LEMMA SameReceipt ==
    ASSUME NEW c, Service!ReceiveCallback(c)
    PROVE  Proved!ApplyCallback(c)
BY DEF Service!ReceiveCallback, Service!ApplyCallback, Proved!ApplyCallback,
       Service!FirstDelivery, Proved!FirstDelivery, Service!Redelivery, Proved!Redelivery,
       Service!ConflictingDelivery, Proved!ConflictingDelivery, Service!Received,
       Proved!Received, Service!Moved, Proved!Moved, Service!TransitionRecord,
       Proved!TransitionRecord, Service!Permitted, Proved!Permitted, Service!CanMove,
       Proved!CanMove, Service!TRANSITIONS, Proved!TRANSITIONS, Service!Registered,
       Proved!Registered, Service!repositoryVars, Proved!repositoryVars

LEMMA RowsStayFounded ==
    ASSUME Known, FoundedRows, FoundedThreads, [SystemNext]_systemVars
    PROVE  FoundedRows'
<1> SUFFICES ASSUME NEW o \in Ops, Proved!Registered(o)',
                    NEW a \in Proved!Entries(record'[o])
             PROVE  Founded(o, a)'
  BY DEF FoundedRows
<1>0. [Proved!Next]_(Proved!vars) /\ Proved!IInv /\ Proved!ToldInv
  BY KnownStep DEF Known, Proved!ServiceInv
<1>1. CASE Proved!Registered(o) /\ a \in Proved!Entries(record[o])
  BY <1>1, StaysFounded DEF FoundedRows
<1>2. CASE a.source \notin Proved!Evidence
  BY <1>2 DEF Founded, Proved!Evidence
<1>3. ASSUME NEW x \in posted, Service!ReceiveCallback(x.callback),
             a.source \in Proved!Evidence, ~(Proved!Registered(o) /\ a \in Proved!Entries(record[o]))
      PROVE  Founded(o, a)'
  <2> DEFINE c == x.callback
  <2>1. c \in BankCallbacks /\ Tellable(ledger, had, c)
    BY DEF Known, EmulatorTypeOK, LedgerInv
  <2>2. Proved!ApplyCallback(c) /\ Proved!RepositoryTypeOK
    BY <1>0, <1>3, SameReceipt DEF Proved!IInv, Proved!RInv
  <2> HIDE DEF c
  <2>3. Proved!Registered(o)
    <3>1. Proved!Registered(c.op) /\ (record' = record \/ \E r : record' = [record EXCEPT ![c.op] = r])
      BY <2>2 DEF Proved!ApplyCallback, Proved!FirstDelivery, Proved!Redelivery,
                  Proved!ConflictingDelivery, Proved!repositoryVars
    <3> QED
      BY <2>2, <3>1 DEF Proved!RepositoryTypeOK, Proved!Registered
  <2>4. a.source = "callback" /\ o = c.op /\ a.new = c.status /\ a.event = c.event
    BY <1>3, <2>1, <2>2, <2>3, ServiceAssumptions, Proved!CallbackEntries
  <2>5. Founded(o, a)
    BY <2>1, <2>4 DEF Tellable, Founded, Committed
  <2> QED
    BY <2>5, StaysFounded
<1>4. ASSUME pc' # pc, a.source \in Proved!Evidence,
             ~(Proved!Registered(o) /\ a \in Proved!Entries(record[o]))
      PROVE  Founded(o, a)'
  <2>1. \A c \in BankCallbacks : ~Proved!ReceiveCallback(c)
    BY <1>4 DEF Proved!ReceiveCallback
  <2>2. \/ \E w \in Threads : /\ pc[w] = "save_error" /\ Proved!Op(w) = o
                             /\ a \in Proved!Entries(seen[w])
        \/ \E w \in Threads : /\ pc[w] = "apply" /\ decision[w].op = o
                             /\ a.new = decision[w].to
                             /\ a.source = decision[w].source
        \/ /\ a.source = "bank_adapter"
           /\ \E w \in Threads : pc[w] = "persist_sent" /\ Proved!Op(w) = o
    BY <1>0, <1>4, <2>1, ServiceAssumptions, Proved!EvidenceFrom
  <2>3. ASSUME NEW w \in Threads, pc[w] = "apply", decision[w].op = o
        PROVE  decision[w].source \notin {"callback", "bank_adapter"}
    BY <2>3 DEF Known, Proved!ServiceInv, Proved!IInv, Proved!LocalTypeOK,
                Proved!DecisionSteps, Proved!Decision
  <2>4. Founded(o, a)
    BY <2>2, <2>3 DEF FoundedThreads, Founded, Proved!Answered
  <2> QED
    BY <2>4, StaysFounded
<1>5. CASE record' = record
  BY <1>1, <1>5 DEF Proved!Registered
<1> QED
  BY <1>1, <1>2, <1>3, <1>4, <1>5, WhoWrites

LEMMA ThreadsStayFounded ==
    ASSUME Known, FoundedRows, FoundedThreads, [SystemNext]_systemVars
    PROVE  FoundedThreads'
<1>0. [Proved!Next]_(Proved!vars) /\ Proved!IInv /\ Proved!ToldInv
  BY KnownStep DEF Known, Proved!ServiceInv
<1>1. ASSUME NEW w \in Threads, pc'[w] = "save_error", NEW a \in Proved!Entries(seen'[w])
      PROVE  Founded(Proved!Op(w), a)'
  <2> DEFINE o == request[w].op
  <2>1. request'[w] = request[w]
    BY <1>0, <1>1, ServiceAssumptions, Proved!CalledFrom DEF Proved!Called, Proved!Holding
  <2>2. \/ pc[w] = "save_error" /\ seen'[w] = seen[w]
        \/ pc[w] = "read_error" /\ Proved!Entries(seen'[w]) = Proved!Entries(record[Proved!Op(w)])
    BY <1>0, <1>1, ServiceAssumptions, Proved!SeenFrom
  <2>3. o \in Ops /\ o = Proved!Op(w) /\ Proved!Registered(o)
    BY <1>0, <2>2, ServiceAssumptions, Proved!Sender DEF Proved!SendSteps, Proved!Op
  <2>4. Founded(o, a)
    BY <1>1, <2>2, <2>3 DEF FoundedRows, FoundedThreads
  <2>5. ASSUME NEW q \in Ops, q = o PROVE Founded(q, a)'
    BY <2>4, <2>5, StaysFounded
  <2> QED
    BY <2>1, <2>3, <2>5 DEF Founded, Proved!Op, Committed
<1>2. ASSUME NEW w \in Threads, pc'[w] = "apply", decision'[w].source = "bank_status_lookup"
      PROVE  decision'[w].to \in had'[decision'[w].op]
  <2>1. CASE pc[w] = "apply" /\ decision'[w] = decision[w]
    <3>1. decision[w].op \in Ops
      BY <1>0, <2>1 DEF Proved!IInv, Proved!LocalTypeOK, Proved!DecisionSteps, Proved!Decision
    <3> QED
      BY <1>2, <2>1, <3>1, HadStays DEF FoundedThreads
  <2>2. ASSUME NEW o \in Ops, bankView[o] # "absent", decision'[w].op = o,
               decision'[w].to = bankView[o]
        PROVE  decision'[w].to \in had'[decision'[w].op]
    <3>1. Committed(o) /\ bankView[o] = ledger[o].status
      BY <2>2 DEF bankView
    <3>2. bankView[o] \in had[o]
      BY <3>1 DEF Known, LedgerInv, Committed
    <3> QED
      BY <2>2, <3>2, HadStays
  <2> QED
    BY <1>0, <1>2, <2>1, <2>2, ServiceAssumptions, Proved!LookedUpFrom
<1>3. ASSUME NEW w \in Threads, pc'[w] \in Proved!Answered
      PROVE  Committed(Proved!Op(w))'
  <2> DEFINE o == request[w].op
  <2>1. /\ request'[w] = request[w]
        /\ pc[w] \in Proved!Answered \/ (pc[w] = "await" /\ bankView[o] # "absent")
    BY <1>0, <1>3, ServiceAssumptions, Proved!AnsweredFrom DEF Proved!Op
  <2>2. o \in Ops
    BY <1>0, <2>1, ServiceAssumptions, Proved!Sender
    DEF Proved!SendSteps, Proved!Answered, Proved!Op
  <2>3. Committed(o)
    BY <2>1, <2>2 DEF FoundedThreads, Proved!Op, bankView
  <2>4. ASSUME NEW q \in Ops, q = o PROVE Committed(q)'
    BY <2>3, <2>4, HadStays
  <2> QED
    BY <2>1, <2>2, <2>4 DEF Proved!Op, Committed
<1> QED
  BY <1>1, <1>2, <1>3 DEF FoundedThreads

(* No status of the bank's is made up on the way, whatever is delayed,     *)
(* overtaken, repeated or saved back late: what a callback or a lookup has *)
(* written was once in the bank's own ledger, up to conflicting_callback,  *)
(* and sent was written of a payment that ledger holds.                    *)
THEOREM SystemStatusCameFromBank == SystemSpec => []StatusCameFromBank
<1>1. SystemInit => FoundedRows /\ FoundedThreads
  BY DEF SystemInit, Service!Init, Service!RepositoryInit, FoundedRows, FoundedThreads,
         Proved!Registered, Proved!Answered
<1>2. Known /\ FoundedRows /\ FoundedThreads /\ [SystemNext]_systemVars
        => FoundedRows' /\ FoundedThreads'
  BY RowsStayFounded, ThreadsStayFounded
<1>3. FoundedRows => StatusCameFromBank
  <2> SUFFICES ASSUME FoundedRows, NEW o \in Ops, Service!Registered(o),
                      NEW i \in DOMAIN record[o].audit
               PROVE  Founded(o, record[o].audit[i])
    BY DEF StatusCameFromBank, Founded
  <2>1. record[o].audit[i] \in Proved!Entries(record[o]) /\ Proved!Registered(o)
    BY DEF Proved!Entries, Service!Registered, Proved!Registered
  <2> QED
    BY <2>1 DEF FoundedRows
<1> QED
  BY <1>1, <1>2, <1>3, SystemKnown, PTL DEF SystemSpec

=============================================================================
