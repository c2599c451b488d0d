------------------------- MODULE BankEmulatorProofs -------------------------
(***************************************************************************)
(* What the bank emulator keeps for any payments, modes, statuses and      *)
(* number of requests at the same time. The invariants are proved one      *)
(* after the other: the types, then what the ledger holds, what callbacks  *)
(* tell, and what becomes of those that travel on.                         *)
(***************************************************************************)
EXTENDS BankEmulator, Integers, TLAPS

Row == [payment : Payments, status : BankStatuses]

\* The ledger's row is typed, and NoRow is none.
LEMMA RowIsNoRow == NoRow \notin Row
BY EmulatorAssumption DEF Row

LEMMA IdleState == Idle \in HandlerStates
<1>1. <<>> \in Seq(BankCallbacks)
  OBVIOUS
<1> QED
  BY <1>1 DEF Idle, HandlerStates, Outcomes

LEMMA BusyState ==
    ASSUME NEW phase \in {"sleeping", "posting"}, NEW blocking \in BOOLEAN,
           NEW todo \in Seq(BankCallbacks), NEW owes \in Payments \cup {NoPayment}
    PROVE  /\ Busy(phase, blocking, todo, owes) \in HandlerStates
           /\ Busy(phase, blocking, todo, owes).phase = phase
           /\ Busy(phase, blocking, todo, owes).blocking = blocking
           /\ Busy(phase, blocking, todo, owes).todo = todo
           /\ Busy(phase, blocking, todo, owes).owes = owes
BY DEF Busy, HandlerStates

\* Of a submission that is not refused: the row after it is typed, its
\* callbacks are, and there is at least one.
LEMMA SubmissionType ==
    ASSUME EmulatorTypeOK, NEW p \in Payments, NEW mode \in Modes,
           NEW desired \in DesiredStatuses
    PROVE  /\ p.op \in Ops
           /\ RowAfterCommit(p, desired) \in Row
           /\ CallbacksOf(p, mode, desired) \in Seq(BankCallbacks)
           /\ CallbacksOf(p, mode, desired) # <<>>
<1>1. p.op \in Ops
  BY EmulatorAssumption
<1>2. RowAfterCommit(p, desired) \in Row
  BY <1>1 DEF EmulatorTypeOK, RowAfterCommit, Committed, Row, BankStatuses
<1> DEFINE status == RowAfterCommit(p, desired).status
<1>3. status \in ToldStatuses /\ "accepted" \in ToldStatuses /\ "rejected" \in ToldStatuses
  BY <1>2 DEF Row, ToldStatuses
<1>4. AcceptedId(p.op) \in EventIds /\ <<p.op, "duplicate">> \in EventIds
  BY <1>1 DEF AcceptedId, EventIds
<1>5. \A s \in ToldStatuses, e \in EventIds : Callback(p.op, s, e) \in BankCallbacks
  BY <1>1 DEF BankCallbacks
<1> HIDE DEF status
<1>6. /\ Callback(p.op, status, AcceptedId(p.op)) \in BankCallbacks
      /\ Callback(p.op, status, <<p.op, "duplicate">>) \in BankCallbacks
      /\ Callback(p.op, "accepted", AcceptedId(p.op)) \in BankCallbacks
      /\ Callback(p.op, "rejected", AcceptedId(p.op)) \in BankCallbacks
  BY <1>3, <1>4, <1>5
<1>7. CallbacksOf(p, mode, desired) \in
        {<<Callback(p.op, status, AcceptedId(p.op)),
           Callback(p.op, status, <<p.op, "duplicate">>)>>,
         <<Callback(p.op, "accepted", AcceptedId(p.op)),
           Callback(p.op, "rejected", AcceptedId(p.op))>>,
         <<Callback(p.op, status, AcceptedId(p.op))>>}
  BY DEF CallbacksOf, status
<1>8. \A c \in BankCallbacks, d \in BankCallbacks :
        /\ <<c>> \in Seq(BankCallbacks) /\ <<c>> # <<>>
        /\ <<c, d>> \in Seq(BankCallbacks) /\ <<c, d>> # <<>>
  OBVIOUS
<1> QED
  BY <1>1, <1>2, <1>6, <1>7, <1>8

-----------------------------------------------------------------------------
\* The conjunct of the types about one handler.
HandlerOK(s) ==
    /\ s \in HandlerStates
    /\ s.phase = "idle" => s = Idle
    /\ s.phase # "idle" => s.todo # <<>>
    /\ s.phase = "sleeping" => ~s.blocking /\ s.owes # NoPayment
    /\ s.owes # NoPayment => s.phase = "sleeping" \/ s.blocking

TablesOK ==
    /\ ledger \in [Ops -> Row \cup {NoRow}]
    /\ attempts \in [EventIds \X ToldStatuses -> Outcomes \cup {"no_row"}]
    /\ posted \in SUBSET [by : Handlers, callback : BankCallbacks]
    /\ replies \in SUBSET Payments
    /\ had \in [Ops -> SUBSET BankStatuses]

LEMMA TypesInParts ==
    EmulatorTypeOK <=>
        /\ TablesOK
        /\ handler \in [Handlers -> HandlerStates]
        /\ \A h \in Handlers : HandlerOK(handler[h])
BY DEF EmulatorTypeOK, TablesOK, HandlerOK, Row

LEMMA TypesInPartsPrime ==
    EmulatorTypeOK' <=>
        /\ TablesOK'
        /\ handler' \in [Handlers -> HandlerStates]
        /\ \A h \in Handlers : HandlerOK(handler'[h])
BY DEF EmulatorTypeOK, TablesOK, HandlerOK, Row

LEMMA IdleIsOK == HandlerOK(Idle)
BY IdleState DEF HandlerOK, Idle

LEMMA BusyIsOK ==
    ASSUME NEW phase \in {"sleeping", "posting"}, NEW blocking \in BOOLEAN,
           NEW todo \in Seq(BankCallbacks), todo # <<>>,
           NEW owes \in Payments \cup {NoPayment},
           phase = "sleeping" => ~blocking /\ owes # NoPayment,
           owes # NoPayment => phase = "sleeping" \/ blocking
    PROVE  HandlerOK(Busy(phase, blocking, todo, owes))
BY BusyState DEF HandlerOK

\* A step that gives one handler a new state.
LEMMA OneHandler ==
    ASSUME EmulatorTypeOK, TablesOK', NEW h \in Handlers, NEW s,
           HandlerOK(s), handler' = [handler EXCEPT ![h] = s]
    PROVE  EmulatorTypeOK'
<1>1. \A g \in Handlers : HandlerOK(handler[g])
  BY TypesInParts
<1>2. handler \in [Handlers -> HandlerStates]
  BY TypesInParts
<1>3. s \in HandlerStates
  BY DEF HandlerOK
<1>4. \A g \in Handlers : handler'[g] = IF g = h THEN s ELSE handler[g]
  BY <1>2
<1>5. handler' \in [Handlers -> HandlerStates]
  BY <1>2, <1>3
<1> QED
  BY <1>1, <1>4, <1>5, TypesInPartsPrime

LEMMA SubmitType ==
    ASSUME EmulatorTypeOK, NEW h \in Handlers, NEW p \in Payments,
           NEW mode \in Modes, NEW desired \in DesiredStatuses,
           Submit(h, p, mode, desired)
    PROVE  EmulatorTypeOK'
<1> DEFINE row == RowAfterCommit(p, desired)
           todo == CallbacksOf(p, mode, desired)
<1>1. /\ p.op \in Ops /\ row \in Row
      /\ todo \in Seq(BankCallbacks) /\ todo # <<>>
      /\ p # NoPayment
  BY SubmissionType, EmulatorAssumption
<1>2. /\ ledger' = [ledger EXCEPT ![p.op] = row]
      /\ had' = [had EXCEPT ![p.op] = @ \cup {row.status}]
      /\ UNCHANGED <<attempts, posted>>
      /\ \/ UNCHANGED <<handler, replies>>
         \/ AnswerLater(h, p, "sleeping", FALSE, todo)
         \/ AnswerLater(h, p, "posting", TRUE, todo)
         \/ AnswerNow(h, p, todo)
  BY DEF Submit
<1> HIDE DEF row, todo
<1>3. row.status \in BankStatuses
  BY <1>1 DEF Row
<1>4. replies' \in SUBSET Payments
  BY <1>2 DEF EmulatorTypeOK, AnswerLater, AnswerNow
<1>5. TablesOK'
  <2>1. TablesOK
    BY TypesInParts
  <2> QED
    BY <2>1, <1>1, <1>2, <1>3, <1>4 DEF TablesOK
<1>6. CASE UNCHANGED <<handler, replies>>
  BY <1>5, <1>6, TypesInParts, TypesInPartsPrime
<1>7. CASE AnswerLater(h, p, "sleeping", FALSE, todo)
  <2>1. HandlerOK(Busy("sleeping", FALSE, todo, p))
    BY <1>1, BusyIsOK
  <2> QED
    BY <1>5, <1>7, <2>1, OneHandler DEF AnswerLater
<1>8. CASE AnswerLater(h, p, "posting", TRUE, todo)
  <2>1. HandlerOK(Busy("posting", TRUE, todo, p))
    BY <1>1, BusyIsOK
  <2> QED
    BY <1>5, <1>8, <2>1, OneHandler DEF AnswerLater
<1>9. CASE AnswerNow(h, p, todo)
  <2>1. HandlerOK(Busy("posting", FALSE, todo, NoPayment))
    BY <1>1, BusyIsOK
  <2> QED
    BY <1>5, <1>9, <2>1, OneHandler DEF AnswerNow
<1> QED
  BY <1>2, <1>6, <1>7, <1>8, <1>9

LEMMA WakeUpType ==
    ASSUME EmulatorTypeOK, NEW h \in Handlers, WakeUp(h)
    PROVE  EmulatorTypeOK'
<1>1. handler[h] \in HandlerStates /\ HandlerOK(handler[h]) /\ TablesOK
  BY TypesInParts
<1>2. /\ handler[h].todo \in Seq(BankCallbacks) /\ handler[h].todo # <<>>
      /\ handler[h].owes \in Payments
  BY <1>1 DEF HandlerStates, HandlerOK, WakeUp
<1>3. HandlerOK(Busy("posting", FALSE, handler[h].todo, NoPayment))
  BY <1>2, BusyIsOK
<1>4. TablesOK'
  BY <1>1, <1>2 DEF WakeUp, AnswerNow, TablesOK
<1> QED
  BY <1>3, <1>4, OneHandler DEF WakeUp, AnswerNow

LEMMA SetStatusType ==
    ASSUME EmulatorTypeOK, NEW h \in Handlers, NEW o \in Ops,
           NEW s \in SettableStatuses, NEW event \in {<<o, s>>} \cup ChosenIds,
           SetStatus(h, o, s, event)
    PROVE  EmulatorTypeOK'
<1>1. s \in BankStatuses /\ s \in ToldStatuses /\ event \in EventIds
  BY DEF BankStatuses, ToldStatuses, EventIds
<1>2. Callback(o, s, event) \in BankCallbacks
  BY <1>1 DEF BankCallbacks
<1>3. HandlerOK(Busy("posting", TRUE, <<Callback(o, s, event)>>, NoPayment))
  <2>1. /\ <<Callback(o, s, event)>> \in Seq(BankCallbacks)
        /\ <<Callback(o, s, event)>> # <<>>
    BY <1>2
  <2> QED
    BY <2>1, BusyIsOK
<1>4. ledger[o] \in Row /\ TablesOK
  BY TypesInParts DEF TablesOK, SetStatus, Committed
<1>5. [ledger[o] EXCEPT !.status = s] \in Row
  BY <1>1, <1>4 DEF Row
<1>6. TablesOK'
  BY <1>1, <1>4, <1>5 DEF SetStatus, TablesOK
<1> QED
  BY <1>3, <1>6, OneHandler DEF SetStatus

LEMMA PostCallbackType ==
    ASSUME EmulatorTypeOK, NEW h \in Handlers, PostCallback(h)
    PROVE  EmulatorTypeOK'
<1>1. handler[h] \in HandlerStates /\ HandlerOK(handler[h]) /\ TablesOK
  BY TypesInParts
<1>2. handler[h].todo \in Seq(BankCallbacks) /\ handler[h].todo # <<>>
  BY <1>1 DEF HandlerStates, HandlerOK, PostCallback
<1>3. Head(handler[h].todo) \in BankCallbacks
  BY <1>2
<1>4. TablesOK'
  BY <1>1, <1>3 DEF PostCallback, TablesOK
<1>5. HandlerOK([handler[h] EXCEPT !.phase = "waiting"])
  BY <1>1 DEF HandlerOK, HandlerStates, PostCallback
<1> QED
  BY <1>4, <1>5, OneHandler DEF PostCallback

\* The end of a wait, however it came.
LEMMA RecordCallbackType ==
    ASSUME EmulatorTypeOK, NEW h \in Handlers, handler[h].phase = "waiting",
           NEW outcome \in Outcomes, RecordCallback(h, outcome), posted' \subseteq posted
    PROVE  EmulatorTypeOK'
<1> DEFINE s == handler[h]
<1>1. s \in HandlerStates /\ HandlerOK(s) /\ TablesOK
  BY TypesInParts
<1>2. s.todo \in Seq(BankCallbacks) /\ s.todo # <<>> /\ s.owes \in Payments \cup {NoPayment}
  BY <1>1 DEF HandlerStates, HandlerOK
<1>3. Head(s.todo) \in BankCallbacks /\ Tail(s.todo) \in Seq(BankCallbacks)
  BY <1>2
<1>4. ASSUME Len(s.todo) # 1 PROVE Tail(s.todo) # <<>>
  <2>1. Len(s.todo) \in Nat /\ Len(s.todo) # 0
    BY <1>2
  <2>2. Len(Tail(s.todo)) = Len(s.todo) - 1
    BY <1>2
  <2>3. Len(Tail(s.todo)) # 0
    BY <1>4, <2>1, <2>2
  <2>4. Len(<<>>) = 0
    OBVIOUS
  <2> QED
    BY <2>3, <2>4
<1>5. \A c \in BankCallbacks : c.event \in EventIds /\ c.status \in ToldStatuses
  BY DEF BankCallbacks, Callback
<1>6. TablesOK'
  <2>1. attempts' = [attempts EXCEPT ![<<Head(s.todo).event, Head(s.todo).status>>] = outcome]
    BY DEF RecordCallback
  <2>2. replies' \subseteq replies \cup ({s.owes} \ {NoPayment})
    BY DEF RecordCallback
  <2> QED
    BY <1>1, <1>2, <1>3, <1>5, <2>1, <2>2 DEF RecordCallback, TablesOK
<1> DEFINE next == Busy("posting", s.blocking, Tail(s.todo), s.owes)
<1>7. handler' = [handler EXCEPT ![h] = IF Len(s.todo) = 1 THEN Idle ELSE next]
  BY <1>1, TypesInParts DEF RecordCallback
<1>8. Len(s.todo) # 1 => HandlerOK(next)
  <2>1. s.blocking \in BOOLEAN /\ (s.owes # NoPayment => s.blocking)
    BY <1>1 DEF HandlerOK, HandlerStates
  <2> QED
    BY <1>2, <1>3, <1>4, <2>1, BusyIsOK
<1>9. HandlerOK(IF Len(s.todo) = 1 THEN Idle ELSE next)
  BY <1>8, IdleIsOK
<1> QED
  BY <1>6, <1>7, <1>9, OneHandler

LEMMA AnsweredType ==
    ASSUME EmulatorTypeOK, NEW x \in posted, NEW code \in Outcomes, Answered(x, code),
           UNCHANGED <<ledger, attempts, replies, had>>
    PROVE  EmulatorTypeOK'
<1>1. TablesOK /\ x.by \in Handlers
  BY TypesInParts DEF TablesOK
<1>2. TablesOK'
  BY <1>1 DEF Answered, TablesOK
<1>3. CASE WaitsFor(x)
  <2>1. handler[x.by] \in HandlerStates /\ HandlerOK(handler[x.by])
    BY <1>1, TypesInParts
  <2>2. HandlerOK([handler[x.by] EXCEPT !.heard = code])
    BY <2>1, <1>3 DEF HandlerOK, HandlerStates, WaitsFor
  <2> QED
    BY <1>1, <1>2, <1>3, <2>2, OneHandler DEF Answered
<1>4. CASE ~WaitsFor(x)
  BY <1>2, <1>4, TypesInParts, TypesInPartsPrime DEF Answered
<1> QED
  BY <1>3, <1>4

LEMMA LostType ==
    ASSUME EmulatorTypeOK, NEW x \in posted, Lost(x),
           UNCHANGED <<ledger, attempts, replies, had>>
    PROVE  EmulatorTypeOK'
<1>1. TablesOK'
  BY TypesInParts DEF Lost, TablesOK
<1> QED
  BY <1>1, TypesInParts, TypesInPartsPrime DEF Lost

LEMMA CallbackAnsweredType ==
    ASSUME EmulatorTypeOK, NEW h \in Handlers, CallbackAnswered(h)
    PROVE  EmulatorTypeOK'
<1>1. handler[h].heard \in Outcomes
  BY TypesInParts DEF HandlerStates, CallbackAnswered
<1> QED
  BY <1>1, RecordCallbackType DEF CallbackAnswered

LEMMA CallbackTimesOutType ==
    ASSUME EmulatorTypeOK, NEW h \in Handlers, CallbackTimesOut(h)
    PROVE  EmulatorTypeOK'
<1>1. "failed" \in Outcomes /\ posted' \subseteq posted
  BY DEF Outcomes, CallbackTimesOut
<1> QED
  BY <1>1, RecordCallbackType DEF CallbackTimesOut

LEMMA InitType == EmulatorInit => EmulatorTypeOK
<1> SUFFICES ASSUME EmulatorInit PROVE EmulatorTypeOK
  OBVIOUS
<1>1. TablesOK
  BY DEF EmulatorInit, TablesOK
<1>2. \A h \in Handlers : handler[h] = Idle
  BY DEF EmulatorInit
<1>3. handler \in [Handlers -> HandlerStates]
  BY IdleState DEF EmulatorInit
<1> QED
  BY <1>1, <1>2, <1>3, IdleIsOK, TypesInParts

LEMMA NextType == EmulatorTypeOK /\ [EmulatorNext]_emulatorVars => EmulatorTypeOK'
<1> SUFFICES ASSUME EmulatorTypeOK, [EmulatorNext]_emulatorVars PROVE EmulatorTypeOK'
  OBVIOUS
<1>1. ASSUME NEW h \in Handlers, SubmitAny(h) PROVE EmulatorTypeOK'
  BY <1>1, SubmitType DEF SubmitAny
<1>2. ASSUME NEW h \in Handlers, SetStatusAny(h) PROVE EmulatorTypeOK'
  BY <1>2, SetStatusType DEF SetStatusAny
<1>3. ASSUME NEW h \in Handlers, HandlerStep(h) PROVE EmulatorTypeOK'
  BY <1>3, WakeUpType, PostCallbackType, CallbackAnsweredType, CallbackTimesOutType
     DEF HandlerStep
<1>4. ASSUME NEW x \in posted, Webhook(x) PROVE EmulatorTypeOK'
  BY <1>4, AnsweredType, LostType DEF Webhook
<1>5. CASE UNCHANGED emulatorVars
  BY <1>5, TypesInParts, TypesInPartsPrime DEF emulatorVars, TablesOK
<1> QED
  BY <1>1, <1>2, <1>3, <1>4, <1>5 DEF EmulatorNext

(* The ledger, the attempts, the handlers and the callbacks under way keep *)
(* their types, and a handler holds the loop or owes a response only in    *)
(* the phases in which the code does.                                      *)
THEOREM EmulatorTypeCorrect == EmulatorSpec => []EmulatorTypeOK
<1> QED
  BY InitType, NextType, PTL DEF EmulatorSpec

-----------------------------------------------------------------------------
(* What the ledger holds and what is told of it.                           *)

Holds(l, p) == l[p.op] # NoRow /\ l[p.op].payment = p

\* What a callback may tell.
Tellable(l, shown, c) ==
    \/ c.status \in shown[c.op]
    \/ /\ "conflicting_callback" \in Modes
       /\ l[c.op] # NoRow
       /\ c.event = AcceptedId(c.op) /\ c.status \in {"accepted", "rejected"}

StateHolds(l, shown, s) ==
    /\ s.owes # NoPayment => Holds(l, s.owes)
    /\ \A i \in DOMAIN s.todo : Tellable(l, shown, s.todo[i])

LedgerInv ==
    /\ \A p \in replies : Holds(ledger, p)
    /\ \A o \in Ops : ledger[o] # NoRow => ledger[o].status \in had[o]
    /\ \A h \in Handlers : StateHolds(ledger, had, handler[h])
    /\ \A x \in posted : Tellable(ledger, had, x.callback)

LEMMA LedgerInvTells == LedgerInv => AnsweredIsCommitted /\ CallbackTellsTheLedger
<1> SUFFICES ASSUME LedgerInv PROVE AnsweredIsCommitted /\ CallbackTellsTheLedger
  OBVIOUS
<1>1. AnsweredIsCommitted
  BY DEF LedgerInv, Holds, AnsweredIsCommitted, Committed
<1>2. ASSUME NEW c \in {x.callback : x \in posted} PROVE Tellable(ledger, had, c)
  BY DEF LedgerInv
<1>3. ASSUME NEW h \in Handlers, NEW c \in {handler[h].todo[i] : i \in DOMAIN handler[h].todo}
      PROVE Tellable(ledger, had, c)
  BY DEF LedgerInv, StateHolds
<1>4. CallbackTellsTheLedger
  BY <1>2, <1>3 DEF CallbackTellsTheLedger, Tellable, Committed
<1> QED
  BY <1>1, <1>4

(* bank_payments only grows: a payment is never replaced, and a status     *)
(* that was shown stays shown.                                             *)
LedgerKept ==
    \A o \in Ops :
        /\ ledger[o] # NoRow => ledger'[o] # NoRow /\ ledger'[o].payment = ledger[o].payment
        /\ had[o] \subseteq had'[o]
        /\ ledger'[o] # NoRow => ledger'[o].status \in had'[o]

LEMMA CallbackOps == \A c \in BankCallbacks : c.op \in Ops
BY DEF BankCallbacks, Callback

LEMMA Lasting ==
    ASSUME LedgerKept
    PROVE  /\ \A p : p.op \in Ops /\ Holds(ledger, p) => Holds(ledger', p)
           /\ \A c : c.op \in Ops /\ Tellable(ledger, had, c) => Tellable(ledger', had', c)
BY DEF LedgerKept, Holds, Tellable

LEMMA StateLasts ==
    ASSUME LedgerKept, NEW s \in HandlerStates, StateHolds(ledger, had, s)
    PROVE  StateHolds(ledger', had', s)
<1>1. s.owes # NoPayment => s.owes.op \in Ops
  BY EmulatorAssumption DEF HandlerStates
<1>2. \A i \in DOMAIN s.todo : s.todo[i].op \in Ops
  <2>1. s.todo \in Seq(BankCallbacks)
    BY DEF HandlerStates
  <2> QED
    BY <2>1, CallbackOps
<1> QED
  BY <1>1, <1>2, Lasting DEF StateHolds

LEMMA LedgerStep ==
    ASSUME EmulatorTypeOK, LedgerInv, LedgerKept,
           \A p \in replies' : p \in replies \/ Holds(ledger', p),
           \A h \in Handlers :
                handler'[h] = handler[h] \/ StateHolds(ledger', had', handler'[h]),
           \A x \in posted' : x \in posted \/ Tellable(ledger', had', x.callback)
    PROVE  LedgerInv'
<1>1. \A p \in replies' : Holds(ledger', p)
  BY Lasting, EmulatorAssumption DEF EmulatorTypeOK, LedgerInv
<1>2. ASSUME NEW h \in Handlers PROVE StateHolds(ledger', had', handler'[h])
  <2>1. handler[h] \in HandlerStates /\ StateHolds(ledger, had, handler[h])
    BY DEF EmulatorTypeOK, LedgerInv
  <2> QED
    BY <2>1, StateLasts
<1>3. ASSUME NEW x \in posted' PROVE Tellable(ledger', had', x.callback)
  BY Lasting, CallbackOps DEF EmulatorTypeOK, LedgerInv
<1> QED
  BY <1>1, <1>2, <1>3 DEF LedgerInv, LedgerKept

LEMMA SubmitKeepsLedger ==
    ASSUME EmulatorTypeOK, LedgerInv, NEW h \in Handlers, NEW p \in Payments,
           NEW mode \in Modes, NEW desired \in DesiredStatuses,
           Submit(h, p, mode, desired)
    PROVE  LedgerInv'
<1> DEFINE row == RowAfterCommit(p, desired)
           todo == CallbacksOf(p, mode, desired)
<1>1. p.op \in Ops /\ row \in Row /\ row # NoRow /\ todo \in Seq(BankCallbacks)
  BY SubmissionType, RowIsNoRow
<1>2. row.payment = p
  BY <1>1 DEF Submit, RefusedPayment, RowAfterCommit
<1>3. Committed(p.op) => row = ledger[p.op]
  BY DEF RowAfterCommit
<1>4. /\ ledger' = [ledger EXCEPT ![p.op] = row]
      /\ had' = [had EXCEPT ![p.op] = @ \cup {row.status}]
      /\ posted' = posted
  BY DEF Submit
<1>5. ledger'[p.op] = row /\ row.status \in had'[p.op]
  BY <1>1, <1>4 DEF EmulatorTypeOK
<1>6. LedgerKept
  BY <1>1, <1>3, <1>4 DEF EmulatorTypeOK, LedgerInv, LedgerKept, Committed
<1>7. Holds(ledger', p)
  BY <1>1, <1>2, <1>5 DEF Holds
<1>8. \A i \in DOMAIN todo : Tellable(ledger', had', todo[i])
  <2> DEFINE Good(c) == Tellable(ledger', had', c)
  <2>1. ASSUME NEW e PROVE Good(Callback(p.op, row.status, e))
    BY <1>5 DEF Tellable, Callback
  <2>2. ASSUME mode = "conflicting_callback"
        PROVE  /\ Good(Callback(p.op, "accepted", AcceptedId(p.op)))
               /\ Good(Callback(p.op, "rejected", AcceptedId(p.op)))
    BY <2>2, <1>1, <1>5 DEF Tellable, Callback
  <2>3. \A c, d : /\ Good(c) /\ Good(d) => \A i \in DOMAIN <<c, d>> : Good(<<c, d>>[i])
                  /\ Good(c) => \A i \in DOMAIN <<c>> : Good(<<c>>[i])
    <3> HIDE DEF Good
    <3> QED
      OBVIOUS
  <2> DEFINE one == Callback(p.op, row.status, AcceptedId(p.op))
             two == Callback(p.op, row.status, <<p.op, "duplicate">>)
             yes == Callback(p.op, "accepted", AcceptedId(p.op))
             no  == Callback(p.op, "rejected", AcceptedId(p.op))
  <2>4. /\ mode = "duplicate_callback" => todo = <<one, two>>
        /\ mode = "conflicting_callback" => todo = <<yes, no>>
        /\ mode \notin {"duplicate_callback", "conflicting_callback"} => todo = <<one>>
    BY DEF CallbacksOf
  <2>5. Good(one) /\ Good(two)
    BY <2>1
  <2>6. mode = "conflicting_callback" => Good(yes) /\ Good(no)
    BY <2>2
  <2>7. \A i \in DOMAIN todo : Good(todo[i])
    <3> HIDE DEF Good, one, two, yes, no, todo
    <3> QED
      BY <2>3, <2>4, <2>5, <2>6
  <2> QED
    BY <2>7
<1> HIDE DEF row, todo
<1>9. ASSUME NEW s, s.owes \in {p, NoPayment}, s.todo = todo
      PROVE StateHolds(ledger', had', s)
  BY <1>7, <1>8, <1>9 DEF StateHolds
<1>10. CASE UNCHANGED <<handler, replies>>
  BY <1>4, <1>6, <1>10, LedgerStep
<1>11. ASSUME NEW phase, NEW blocking, NEW owes \in {p, NoPayment},
              handler' = [handler EXCEPT ![h] = Busy(phase, blocking, todo, owes)],
              replies' \subseteq replies \cup {p}
       PROVE LedgerInv'
  <2>1. StateHolds(ledger', had', Busy(phase, blocking, todo, owes))
    BY <1>9, <1>11 DEF Busy
  <2>2. \A g \in Handlers :
            handler'[g] = handler[g] \/ StateHolds(ledger', had', handler'[g])
    BY <2>1, <1>11 DEF EmulatorTypeOK
  <2> QED
    BY <1>4, <1>6, <1>7, <1>11, <2>2, LedgerStep
<1>12. CASE \E phase, blocking : AnswerLater(h, p, phase, blocking, todo)
  BY <1>11, <1>12 DEF AnswerLater
<1>13. CASE AnswerNow(h, p, todo)
  BY <1>11, <1>13 DEF AnswerNow
<1> QED
  BY <1>10, <1>12, <1>13 DEF Submit, todo

LEMMA SetStatusKeepsLedger ==
    ASSUME EmulatorTypeOK, LedgerInv, NEW h \in Handlers, NEW o \in Ops,
           NEW s \in SettableStatuses, NEW event, SetStatus(h, o, s, event)
    PROVE  LedgerInv'
<1> DEFINE todo == <<Callback(o, s, event)>>
<1>1. /\ ledger' = [ledger EXCEPT ![o].status = s]
      /\ had' = [had EXCEPT ![o] = @ \cup {s}]
      /\ handler' = [handler EXCEPT ![h] = Busy("posting", TRUE, todo, NoPayment)]
      /\ posted' = posted /\ replies' = replies
  BY DEF SetStatus
<1>2. ledger[o] \in Row
  BY DEF EmulatorTypeOK, SetStatus, Committed, Row
<1>3. ledger'[o] = [ledger[o] EXCEPT !.status = s] /\ ledger'[o] \in Row /\ s \in had'[o]
  BY <1>1, <1>2 DEF EmulatorTypeOK, Row, BankStatuses
<1>4. ledger'[o] # NoRow /\ ledger'[o].payment = ledger[o].payment /\ ledger'[o].status = s
  BY <1>2, <1>3, RowIsNoRow DEF Row
<1>5. \A q \in Ops \ {o} : ledger'[q] = ledger[q] /\ had'[q] = had[q]
  BY <1>1 DEF EmulatorTypeOK
<1>6. had[o] \subseteq had'[o]
  BY <1>1 DEF EmulatorTypeOK
<1>7. LedgerKept
  BY <1>3, <1>4, <1>5, <1>6 DEF LedgerInv, LedgerKept
<1>8. Tellable(ledger', had', Callback(o, s, event))
  BY <1>3 DEF Tellable, Callback
<1>9. \A i \in DOMAIN todo : todo[i] = Callback(o, s, event)
  OBVIOUS
<1>10. StateHolds(ledger', had', Busy("posting", TRUE, todo, NoPayment))
  BY <1>8, <1>9 DEF StateHolds, Busy
<1> HIDE DEF todo
<1>11. \A g \in Handlers :
            handler'[g] = handler[g] \/ StateHolds(ledger', had', handler'[g])
  BY <1>1, <1>10 DEF EmulatorTypeOK
<1> QED
  BY <1>1, <1>7, <1>11, LedgerStep

\* A step that leaves the ledger alone and tells nothing new.
LEMMA QuietLedger ==
    ASSUME EmulatorTypeOK, LedgerInv, UNCHANGED <<ledger, had>>,
           \A p \in replies' : p \in replies \/ Holds(ledger, p),
           \A g \in Handlers :
                handler'[g] = handler[g] \/ StateHolds(ledger, had, handler'[g]),
           \A x \in posted' : x \in posted \/ Tellable(ledger, had, x.callback)
    PROVE  LedgerInv'
<1>1. LedgerKept
  BY DEF LedgerKept, LedgerInv
<1> QED
  BY <1>1, LedgerStep

LEMMA HandlerKeepsLedger ==
    ASSUME EmulatorTypeOK, LedgerInv, NEW h \in Handlers, HandlerStep(h)
    PROVE  LedgerInv'
<1> DEFINE s == handler[h]
<1>1. /\ s \in HandlerStates /\ HandlerOK(s) /\ StateHolds(ledger, had, s)
      /\ handler \in [Handlers -> HandlerStates]
  BY TypesInParts DEF LedgerInv
<1>2. s.todo \in Seq(BankCallbacks)
  BY <1>1 DEF HandlerStates
<1>3. ASSUME NEW t, handler' = [handler EXCEPT ![h] = t], StateHolds(ledger, had, t)
      PROVE  \A g \in Handlers :
                handler'[g] = handler[g] \/ StateHolds(ledger, had, handler'[g])
  BY <1>1, <1>3
<1>4. CASE WakeUp(h)
  <2>1. Holds(ledger, s.owes)
    BY <1>1, <1>4 DEF WakeUp, HandlerOK, StateHolds
  <2>2. StateHolds(ledger, had, Busy("posting", FALSE, s.todo, NoPayment))
    BY <1>1 DEF StateHolds, Busy
  <2> QED
    BY <1>3, <1>4, <2>1, <2>2, QuietLedger DEF WakeUp, AnswerNow
<1>5. CASE PostCallback(h)
  <2>1. s.todo # <<>>
    BY <1>1, <1>5 DEF HandlerOK, PostCallback
  <2>2. Tellable(ledger, had, Head(s.todo))
    <3>1. 1 \in DOMAIN s.todo /\ Head(s.todo) = s.todo[1]
      BY <1>2, <2>1
    <3> QED
      BY <1>1, <3>1 DEF StateHolds
  <2>3. StateHolds(ledger, had, [s EXCEPT !.phase = "waiting"])
    BY <1>1 DEF StateHolds, HandlerStates
  <2> QED
    BY <1>3, <1>5, <2>2, <2>3, QuietLedger DEF PostCallback
<1>6. ASSUME NEW outcome, s.phase = "waiting", RecordCallback(h, outcome),
             posted' \subseteq posted
      PROVE  LedgerInv'
  <2>1. s.todo # <<>>
    BY <1>1, <1>6 DEF HandlerOK
  <2>2. \A i \in DOMAIN Tail(s.todo) : Tellable(ledger, had, Tail(s.todo)[i])
    <3>1. \A i \in DOMAIN Tail(s.todo) :
                i + 1 \in DOMAIN s.todo /\ Tail(s.todo)[i] = s.todo[i + 1]
      BY <1>2, <2>1
    <3> QED
      BY <1>1, <3>1 DEF StateHolds
  <2>3. StateHolds(ledger, had, Busy("posting", s.blocking, Tail(s.todo), s.owes))
    BY <1>1, <2>2 DEF StateHolds, Busy
  <2>4. StateHolds(ledger, had, Idle)
    BY DEF StateHolds, Idle
  <2>5. \A p \in replies' : p \in replies \/ Holds(ledger, p)
    BY <1>1, <1>6 DEF RecordCallback, StateHolds
  <2>6. handler' = [handler EXCEPT ![h] = Idle]
            \/ handler' = [handler EXCEPT ![h] =
                                Busy("posting", s.blocking, Tail(s.todo), s.owes)]
    BY <1>6 DEF RecordCallback
  <2>7. \A g \in Handlers :
            handler'[g] = handler[g] \/ StateHolds(ledger, had, handler'[g])
    BY <1>3, <2>3, <2>4, <2>6
  <2>8. UNCHANGED <<ledger, had>>
    BY <1>6 DEF RecordCallback
  <2> QED
    BY <1>6, <2>5, <2>7, <2>8, QuietLedger
<1>7. CASE CallbackAnswered(h)
  BY <1>6, <1>7 DEF CallbackAnswered
<1>8. CASE CallbackTimesOut(h)
  BY <1>6, <1>8 DEF CallbackTimesOut
<1> QED
  BY <1>4, <1>5, <1>7, <1>8 DEF HandlerStep

LEMMA WebhookKeepsLedger ==
    ASSUME EmulatorTypeOK, LedgerInv, NEW x \in posted, Webhook(x)
    PROVE  LedgerInv'
<1>1. UNCHANGED <<ledger, attempts, replies, had>> /\ posted' \subseteq posted
  BY DEF Webhook, Lost, Answered
<1>2. ASSUME NEW h \in Handlers PROVE StateHolds(ledger, had, handler'[h])
  <2>1. handler[h] \in HandlerStates /\ StateHolds(ledger, had, handler[h])
    BY DEF EmulatorTypeOK, LedgerInv
  <2>2. handler'[h].owes = handler[h].owes /\ handler'[h].todo = handler[h].todo
    <3>1. handler \in [Handlers -> HandlerStates] /\ x.by \in Handlers
      BY DEF EmulatorTypeOK
    <3>2. CASE handler' = handler
      BY <3>2
    <3>3. ASSUME NEW code, handler' = [handler EXCEPT ![x.by].heard = code]
          PROVE  /\ handler'[h].owes = handler[h].owes
                 /\ handler'[h].todo = handler[h].todo
      BY <3>1, <3>3 DEF HandlerStates
    <3> QED
      BY <3>2, <3>3 DEF Webhook, Lost, Answered
  <2> QED
    BY <2>1, <2>2 DEF StateHolds
<1> QED
  BY <1>1, <1>2, QuietLedger

LEMMA NextKeepsLedger ==
    EmulatorTypeOK /\ LedgerInv /\ [EmulatorNext]_emulatorVars => LedgerInv'
<1> SUFFICES ASSUME EmulatorTypeOK, LedgerInv, [EmulatorNext]_emulatorVars
             PROVE  LedgerInv'
  OBVIOUS
<1>1. ASSUME NEW h \in Handlers, SubmitAny(h) PROVE LedgerInv'
  BY <1>1, SubmitKeepsLedger DEF SubmitAny
<1>2. ASSUME NEW h \in Handlers, SetStatusAny(h) PROVE LedgerInv'
  BY <1>2, SetStatusKeepsLedger DEF SetStatusAny
<1>3. CASE UNCHANGED emulatorVars
  BY <1>3, QuietLedger DEF emulatorVars
<1> QED
  BY <1>1, <1>2, <1>3, HandlerKeepsLedger, WebhookKeepsLedger DEF EmulatorNext

LEMMA LedgerInvariant == EmulatorSpec => []LedgerInv
<1>1. EmulatorInit => LedgerInv
  BY DEF EmulatorInit, LedgerInv, StateHolds, Idle
<1> QED
  BY <1>1, NextKeepsLedger, EmulatorTypeCorrect, PTL DEF EmulatorSpec

(* A submission that was answered with 200 is in the ledger, and stays     *)
(* there, whatever is submitted or set later.                              *)
THEOREM AnswersAreCommitted == EmulatorSpec => []AnsweredIsCommitted
<1> QED
  BY LedgerInvTells, LedgerInvariant, PTL

(* Whatever a callback tells of an operation, the ledger has shown, or the *)
(* mode conflicting_callback made it up of a committed payment.            *)
THEOREM CallbacksTellTheLedger == EmulatorSpec => []CallbackTellsTheLedger
<1> QED
  BY LedgerInvTells, LedgerInvariant, PTL

-----------------------------------------------------------------------------
(* Callbacks that travel on.                                               *)

Recorded(x) == attempts[<<x.callback.event, x.callback.status>>] # "no_row"

LEMMA TravellerStep ==
    EmulatorTypeOK /\ TravellerIsAccountedFor /\ [EmulatorNext]_emulatorVars
        => TravellerIsAccountedFor'
<1> SUFFICES ASSUME EmulatorTypeOK, TravellerIsAccountedFor, [EmulatorNext]_emulatorVars,
                    NEW x \in posted'
             PROVE  (WaitsFor(x) \/ Recorded(x))'
  BY DEF TravellerIsAccountedFor, Recorded
<1>1. handler \in [Handlers -> HandlerStates]
  BY DEF EmulatorTypeOK
<1>2. x \in posted => WaitsFor(x) \/ Recorded(x)
  BY DEF TravellerIsAccountedFor, Recorded
<1>3. x \in posted => /\ x.by \in Handlers
                      /\ x.callback \in BankCallbacks
                      /\ x = [by |-> x.by, callback |-> x.callback]
  BY DEF EmulatorTypeOK
\* A handler that waits goes on waiting for the same callback.
<1>4. ASSUME NEW h \in Handlers, handler[h].phase # "waiting",
             \A g \in Handlers \ {h} : handler'[g] = handler[g],
             posted' = posted, attempts' = attempts
      PROVE  (WaitsFor(x) \/ Recorded(x))'
  BY <1>2, <1>3, <1>4 DEF WaitsFor, Recorded
<1>5. ASSUME NEW h \in Handlers, SubmitAny(h) PROVE (WaitsFor(x) \/ Recorded(x))'
  BY <1>1, <1>4, <1>5 DEF SubmitAny, Submit, AnswerLater, AnswerNow
<1>6. ASSUME NEW h \in Handlers, SetStatusAny(h) PROVE (WaitsFor(x) \/ Recorded(x))'
  BY <1>1, <1>4, <1>6 DEF SetStatusAny, SetStatus
<1>7. ASSUME NEW h \in Handlers, WakeUp(h) PROVE (WaitsFor(x) \/ Recorded(x))'
  BY <1>1, <1>4, <1>7 DEF WakeUp, AnswerNow
<1>8. ASSUME NEW h \in Handlers, PostCallback(h) PROVE (WaitsFor(x) \/ Recorded(x))'
  <2>1. /\ handler' = [handler EXCEPT ![h].phase = "waiting"]
        /\ attempts' = attempts
        /\ handler[h].phase = "posting"
    BY <1>8 DEF PostCallback
  <2>2. CASE x \in posted
    BY <1>1, <1>2, <1>3, <2>1, <2>2 DEF WaitsFor, Recorded
  <2>3. CASE x = [by |-> h, callback |-> Head(handler[h].todo)]
    <3>1. handler'[h].phase = "waiting" /\ handler'[h].todo = handler[h].todo
      BY <1>1, <2>1 DEF HandlerStates
    <3> QED
      BY <2>3, <3>1 DEF WaitsFor
  <2> QED
    BY <1>8, <2>2, <2>3 DEF PostCallback
\* The end of a wait leaves a record of the callback waited for.
<1>9. ASSUME NEW h \in Handlers, NEW outcome \in Outcomes, handler[h].phase = "waiting",
             RecordCallback(h, outcome), posted' \subseteq posted
      PROVE  (WaitsFor(x) \/ Recorded(x))'
  <2> DEFINE c == Head(handler[h].todo)
  <2>1. /\ attempts' = [attempts EXCEPT ![<<c.event, c.status>>] = outcome]
        /\ \A g \in Handlers \ {h} : handler'[g] = handler[g]
    BY <1>1, <1>9 DEF RecordCallback
  <2>2. attempts \in [EventIds \X ToldStatuses -> Outcomes \cup {"no_row"}]
    BY DEF EmulatorTypeOK
  <2>3. x.callback.event \in EventIds /\ x.callback.status \in ToldStatuses
    BY <1>3, <1>9 DEF BankCallbacks, Callback
  <2>4. outcome # "no_row"
    BY DEF Outcomes
  <2>5. Recorded(x) => Recorded(x)'
    BY <2>1, <2>2, <2>3, <2>4 DEF Recorded
  <2>6. CASE WaitsFor(x) /\ x.by = h
    BY <2>1, <2>2, <2>3, <2>4, <2>6 DEF WaitsFor, Recorded
  <2>7. CASE WaitsFor(x) /\ x.by # h
    BY <1>3, <1>9, <2>1, <2>7 DEF WaitsFor
  <2> QED
    BY <1>2, <1>9, <2>5, <2>6, <2>7
<1>10. ASSUME NEW h \in Handlers, CallbackAnswered(h) PROVE (WaitsFor(x) \/ Recorded(x))'
  BY <1>1, <1>9, <1>10 DEF CallbackAnswered, HandlerStates
<1>11. ASSUME NEW h \in Handlers, CallbackTimesOut(h) PROVE (WaitsFor(x) \/ Recorded(x))'
  BY <1>9, <1>11 DEF CallbackTimesOut, Outcomes
<1>12. ASSUME NEW y \in posted, Webhook(y) PROVE (WaitsFor(x) \/ Recorded(x))'
  <2>1. x \in posted /\ attempts' = attempts
    BY <1>12 DEF Webhook, Lost, Answered
  <2>2. handler'[x.by].phase = handler[x.by].phase /\ handler'[x.by].todo = handler[x.by].todo
    <3>1. y.by \in Handlers
      BY DEF EmulatorTypeOK
    <3>2. CASE handler' = handler
      BY <3>2
    <3>3. ASSUME NEW code, handler' = [handler EXCEPT ![y.by].heard = code]
          PROVE  /\ handler'[x.by].phase = handler[x.by].phase
                 /\ handler'[x.by].todo = handler[x.by].todo
      BY <1>1, <1>3, <2>1, <3>1, <3>3 DEF HandlerStates
    <3> QED
      BY <1>12, <3>2, <3>3 DEF Webhook, Lost, Answered
  <2> QED
    BY <1>2, <2>1, <2>2 DEF WaitsFor, Recorded
<1>13. CASE UNCHANGED emulatorVars
  BY <1>2, <1>13 DEF emulatorVars, WaitsFor, Recorded
<1> QED
  BY <1>5, <1>6, <1>7, <1>8, <1>10, <1>11, <1>12, <1>13 DEF EmulatorNext, HandlerStep

(* A callback that is still travelling when nobody waits for it any more   *)
(* was recorded: the emulator goes on to its next callback, or answers,    *)
(* only after it has written down what became of the one before.           *)
THEOREM TravellersAreRecorded == EmulatorSpec => []TravellerIsAccountedFor
<1>1. EmulatorInit => TravellerIsAccountedFor
  BY DEF EmulatorInit, TravellerIsAccountedFor
<1> QED
  BY <1>1, TravellerStep, EmulatorTypeCorrect, PTL DEF EmulatorSpec

-----------------------------------------------------------------------------
(* Nothing goes on for ever: what a handler has before it is twice the     *)
(* number of its callbacks, and one more while it sleeps.                  *)
LeftOf(s) ==
    CASE s.phase = "sleeping" -> 2 * Len(s.todo) + 1
      [] s.phase = "posting" -> 2 * Len(s.todo)
      [] s.phase = "waiting" -> 2 * Len(s.todo) - 1
      [] OTHER -> 0

LEMMA LeftByPhase ==
    /\ \A todo, owes, blocking :
            /\ LeftOf(Busy("sleeping", blocking, todo, owes)) = 2 * Len(todo) + 1
            /\ LeftOf(Busy("posting", blocking, todo, owes)) = 2 * Len(todo)
    /\ LeftOf(Idle) = 0
BY DEF LeftOf, Busy, Idle

\* A handler whose phase and callbacks stay has as much before it as it had.
LEMMA LeftStays ==
    ASSUME NEW s, NEW t, t.phase = s.phase, t.todo = s.todo
    PROVE  LeftOf(t) = LeftOf(s)
BY DEF LeftOf

LEMMA HandlerStepNearer ==
    ASSUME EmulatorTypeOK, NEW h \in Handlers, HandlerStep(h)
    PROVE  /\ LeftOf(handler'[h]) < LeftOf(handler[h])
           /\ \A g \in Handlers \ {h} : handler'[g] = handler[g]
<1> DEFINE s == handler[h]
           n == Len(s.todo)
<1>1. s \in HandlerStates /\ (s.phase # "idle" => s.todo # <<>>)
  BY DEF EmulatorTypeOK
<1>2. ASSUME NEW new, handler' = [handler EXCEPT ![h] = new], LeftOf(new) < LeftOf(s)
      PROVE  /\ LeftOf(handler'[h]) < LeftOf(s)
             /\ \A g \in Handlers \ {h} : handler'[g] = handler[g]
  BY <1>2 DEF EmulatorTypeOK
<1>3. s.todo \in Seq(BankCallbacks) /\ n \in Nat
  BY <1>1 DEF HandlerStates
<1>4. s.todo # <<>> => n > 0 /\ Len(Tail(s.todo)) = n - 1
  BY <1>3
<1>5. CASE WakeUp(h)
  <2>1. /\ s.phase = "sleeping"
        /\ handler' = [handler EXCEPT ![h] = Busy("posting", FALSE, s.todo, NoPayment)]
    BY <1>5 DEF WakeUp, AnswerNow
  <2>2. LeftOf(s) = 2 * n + 1
    BY <2>1 DEF LeftOf
  <2>3. LeftOf(Busy("posting", FALSE, s.todo, NoPayment)) = 2 * n
    BY LeftByPhase
  <2>4. 2 * n < 2 * n + 1
    BY <1>3
  <2> HIDE DEF s, n
  <2> QED
    BY <1>2, <2>1, <2>2, <2>3, <2>4 DEF s
<1>6. CASE PostCallback(h)
  <2> DEFINE new == [s EXCEPT !.phase = "waiting"]
  <2>1. s.phase = "posting" /\ handler' = [handler EXCEPT ![h] = new]
    BY <1>6 DEF PostCallback
  <2>2. new.phase = "waiting" /\ new.todo = s.todo
    BY <1>1 DEF HandlerStates
  <2>3. LeftOf(s) = 2 * n
    BY <2>1 DEF LeftOf
  <2> HIDE DEF new
  <2>4. LeftOf(new) = 2 * n - 1
    BY <2>2 DEF LeftOf
  <2>5. 2 * n - 1 < 2 * n
    BY <1>3
  <2> HIDE DEF s, n
  <2> QED
    BY <1>2, <2>1, <2>3, <2>4, <2>5 DEF s
<1>7. ASSUME NEW outcome, s.phase = "waiting", RecordCallback(h, outcome)
      PROVE  /\ LeftOf(handler'[h]) < LeftOf(s)
             /\ \A g \in Handlers \ {h} : handler'[g] = handler[g]
  <2> DEFINE next == IF n = 1 THEN Idle
                     ELSE Busy("posting", s.blocking, Tail(s.todo), s.owes)
  <2>1. handler' = [handler EXCEPT ![h] = next]
    BY <1>7 DEF RecordCallback
  <2>2. LeftOf(s) = 2 * n - 1 /\ n > 0
    BY <1>1, <1>4, <1>7 DEF LeftOf
  <2>3. LeftOf(next) = 2 * (n - 1)
    <3>1. CASE n = 1
      BY <3>1, LeftByPhase
    <3>2. CASE n # 1
      <4>1. LeftOf(Busy("posting", s.blocking, Tail(s.todo), s.owes)) = 2 * Len(Tail(s.todo))
        BY LeftByPhase
      <4> QED
        BY <1>1, <1>4, <1>7, <3>2, <4>1
    <3> QED
      BY <3>1, <3>2
  <2>4. 2 * (n - 1) < 2 * n - 1
    BY <1>3
  <2> HIDE DEF next, s, n
  <2> QED
    BY <1>2, <2>1, <2>2, <2>3, <2>4 DEF s
<1>8. CASE CallbackAnswered(h) \/ CallbackTimesOut(h)
  BY <1>7, <1>8 DEF CallbackAnswered, CallbackTimesOut
<1> QED
  BY <1>5, <1>6, <1>8 DEF HandlerStep

LEMMA BusyGoesOn ==
    ASSUME EmulatorTypeOK, [EmulatorNext]_emulatorVars,
           NEW h \in Handlers, handler[h].phase # "idle"
    PROVE  /\ LeftOf(handler'[h]) <= LeftOf(handler[h])
           /\ HandlerStep(h) => LeftOf(handler'[h]) < LeftOf(handler[h])
<1>1. HandlerStep(h) => LeftOf(handler'[h]) < LeftOf(handler[h])
  BY HandlerStepNearer
<1>2. LeftOf(handler[h]) \in Int /\ LeftOf(handler'[h]) \in Int
  <2>1. handler[h] \in HandlerStates /\ handler'[h] \in HandlerStates
    BY NextType DEF EmulatorTypeOK
  <2>2. \A s \in HandlerStates : LeftOf(s) \in Int
    BY DEF LeftOf, HandlerStates
  <2> QED
    BY <2>1, <2>2
<1>3. ASSUME NEW g \in Handlers, HandlerStep(g), g # h
      PROVE  handler'[h] = handler[h]
  BY <1>3, HandlerStepNearer
<1>4. ASSUME NEW g \in Handlers, SubmitAny(g) \/ SetStatusAny(g)
      PROVE  handler'[h] = handler[h]
  <2>1. g # h
    BY <1>4 DEF SubmitAny, Submit, SetStatusAny, SetStatus
  <2>2. \/ handler' = handler
        \/ \E s : handler' = [handler EXCEPT ![g] = s]
    BY <1>4 DEF SubmitAny, Submit, AnswerNow, AnswerLater, SetStatusAny, SetStatus
  <2> QED
    BY <2>1, <2>2 DEF EmulatorTypeOK
<1>5. ASSUME NEW x \in posted, Webhook(x)
      PROVE  LeftOf(handler'[h]) = LeftOf(handler[h])
  <2>1. x.by \in Handlers
    BY DEF EmulatorTypeOK
  <2>2. ASSUME NEW code, handler' = [handler EXCEPT ![x.by].heard = code]
        PROVE  handler'[h].phase = handler[h].phase /\ handler'[h].todo = handler[h].todo
    BY <2>1, <2>2 DEF EmulatorTypeOK, HandlerStates
  <2> QED
    BY <1>5, <2>2, LeftStays DEF Webhook, Lost, Answered
<1>6. CASE HandlerStep(h)
  BY <1>1, <1>2, <1>6, HandlerStepNearer
<1>7. CASE ~HandlerStep(h)
  <2>1. handler'[h] = handler[h] \/ LeftOf(handler'[h]) = LeftOf(handler[h])
    BY <1>3, <1>4, <1>5, <1>7 DEF EmulatorNext, emulatorVars
  <2>2. LeftOf(handler'[h]) = LeftOf(handler[h])
    BY <2>1
  <2> QED
    BY <1>2, <1>7, <2>2
<1> QED
  BY <1>6, <1>7

(* The safety half of RequestsEnd: whatever the webhook, the network and   *)
(* the other requests do, a request that has begun comes no further from   *)
(* its end, and each step of its own brings it nearer.                     *)
THEOREM RequestsOnlyGoOn ==
    EmulatorSpec => [][\A h \in Handlers : handler[h].phase # "idle" =>
                          /\ LeftOf(handler'[h]) <= LeftOf(handler[h])
                          /\ HandlerStep(h) => LeftOf(handler'[h]) < LeftOf(handler[h])
                      ]_emulatorVars
<1> DEFINE Nearer == \A h \in Handlers : handler[h].phase # "idle" =>
                          /\ LeftOf(handler'[h]) <= LeftOf(handler[h])
                          /\ HandlerStep(h) => LeftOf(handler'[h]) < LeftOf(handler[h])
<1>1. EmulatorTypeOK /\ [EmulatorNext]_emulatorVars => [Nearer]_emulatorVars
  BY BusyGoesOn
<1> HIDE DEF Nearer
<1>2. EmulatorSpec => [][Nearer]_emulatorVars
  BY <1>1, EmulatorTypeCorrect, PTL DEF EmulatorSpec
<1> QED
  BY <1>2 DEF Nearer

\* The conditions under which a handler has a step of its own.
CanGoOn(h) ==
    \/ handler[h].phase = "sleeping" /\ LoopFree
    \/ handler[h].phase = "posting" /\ (handler[h].blocking \/ LoopFree)
    \/ handler[h].phase = "waiting"

(* The emulator does not wait for itself: if a request is in progress, one *)
(* can go on, though a callback posted from the event loop stops all the   *)
(* others and the webhook may never answer.                                *)
THEOREM SomebodyCanGoOn ==
    EmulatorSpec => []((\E h \in Handlers : handler[h].phase # "idle")
                            => \E h \in Handlers : CanGoOn(h))
<1> DEFINE Going == (\E h \in Handlers : handler[h].phase # "idle")
                            => \E h \in Handlers : CanGoOn(h)
<1>1. EmulatorTypeOK => Going
  <2> SUFFICES ASSUME EmulatorTypeOK, NEW h \in Handlers, handler[h].phase # "idle"
               PROVE  \E g \in Handlers : CanGoOn(g)
    OBVIOUS
  <2>1. \A g \in Handlers : handler[g].phase \in {"idle", "sleeping", "posting", "waiting"}
    BY DEF EmulatorTypeOK, HandlerStates
  <2>2. CASE LoopFree
    BY <2>1, <2>2 DEF CanGoOn
  <2>3. CASE ~LoopFree
    <3>1. PICK g \in Handlers : handler[g].blocking
      BY <2>3 DEF LoopFree
    <3>2. handler[g].phase # "idle" /\ handler[g].phase # "sleeping"
      BY <3>1 DEF EmulatorTypeOK, Idle
    <3> QED
      BY <2>1, <3>1, <3>2 DEF CanGoOn
  <2> QED
    BY <2>2, <2>3
<1> HIDE DEF Going
<1>2. EmulatorSpec => []Going
  BY <1>1, EmulatorTypeCorrect, PTL
<1> QED
  BY <1>2 DEF Going
=============================================================================
