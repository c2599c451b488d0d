------------------------ MODULE PaymentServiceProofs ------------------------
(***************************************************************************)
(* For any number of workers, operations, payments and callbacks: the      *)
(* service keeps its types and asks the bank for each operation at most    *)
(* once, through crashes, restarts, errors and stale saves.                *)
(***************************************************************************)
EXTENDS PaymentService, RepositoryProofs

-----------------------------------------------------------------------------
(* Types of what the workers hold.                                         *)

LEMMA ReturnType ==
    ASSUME LocalTypeOK, NEW w \in Workers, Return(w)
    PROVE  LocalTypeOK'
  BY DEF LocalTypeOK, Return, SendSteps, DecisionSteps, Steps

(* Going on inside send() before anything was read to be saved.            *)
LEMMA GotoType ==
    ASSUME LocalTypeOK, NEW w \in Workers, NEW step \in SendSteps \ {"save_error"},
           Goto(w, step), pc[w] \in SendSteps \ {"save_error"}
    PROVE  LocalTypeOK'
  BY DEF LocalTypeOK, Goto, localVars, SendSteps, DecisionSteps, Steps

(* A step of the environment leaves the workers alone.                     *)
LEMMA SameLocalType ==
    ASSUME LocalTypeOK, UNCHANGED <<pc, localVars>>
    PROVE  LocalTypeOK'
  BY DEF LocalTypeOK, localVars

-----------------------------------------------------------------------------
(* The inductive invariant. The claim is the row's attempts = 1; the       *)
(* worker that was granted it is alone between its claim and the end of    *)
(* its send(), and only it, only once, can call the bank.                  *)

SendersRegistered ==
    \A w \in Workers : pc[w] \in SendSteps =>
        Registered(Op(w)) /\ record[Op(w)].terms = request[w].terms

HoldersClaimed ==
    \A w \in Workers : pc[w] \in Holding => record[Op(w)].attempts = 1

NotYetCalled == \A w \in Workers : pc[w] = "send" => calls[Op(w)] = 0

CallsClaimed ==
    \A o \in Ops :
        /\ calls[o] \in {0, 1}
        /\ calls[o] = 1 => Registered(o) /\ record[o].attempts = 1

SnapshotsClaimed ==
    \A w \in Workers : pc[w] = "save_error" =>
        seen[w].attempts = 1 /\ ClaimState(seen[w])

ClaimInv ==
    /\ SendersRegistered /\ HoldersClaimed /\ OneHolder /\ NotYetCalled
    /\ CallsClaimed /\ SnapshotsClaimed /\ SentAsRegistered

IInv == RInv /\ LocalTypeOK /\ BankTypeOK /\ ClaimInv

LEMMA Sender ==
    ASSUME IInv, NEW w \in Workers, pc[w] \in SendSteps
    PROVE  /\ request[w] \in Payments
           /\ Op(w) \in Ops /\ request[w].terms \in Terms
           /\ Registered(Op(w))
           /\ record[Op(w)].terms = request[w].terms
           /\ record[Op(w)] \in IntegrationRecord
           /\ ClaimState(record[Op(w)])
<1>1. request[w] \in Payments
  BY DEF IInv, LocalTypeOK
<1>2. Op(w) \in Ops /\ request[w].terms \in Terms
  BY <1>1, PaymentsAssumption DEF Op
<1>3. Registered(Op(w)) /\ record[Op(w)].terms = request[w].terms
  BY DEF IInv, ClaimInv, SendersRegistered
<1> QED
  BY <1>1, <1>2, <1>3, RowType DEF IInv, RInv, ClaimedOnce, ClaimState

LEMMA HoldingSends == Holding \subseteq SendSteps /\ "save_error" \in Holding
  BY DEF Holding, SendSteps

(* A step in which no worker gets further into sending than it was, the    *)
(* rows keep their claims and the bank is not called.                      *)
LEMMA QuietStep ==
    ASSUME IInv, RowsKept,
           calls' = calls, wire' \subseteq wire,
           \A w \in Workers :
               /\ pc'[w] \in SendSteps => pc[w] \in SendSteps /\ request'[w] = request[w]
               /\ pc'[w] \in Holding => pc[w] \in Holding
               /\ pc'[w] = "send" => pc[w] = "send"
               /\ pc'[w] = "save_error" => pc[w] = "save_error" /\ seen'[w] = seen[w]
    PROVE  ClaimInv'
<1>1. SendersRegistered' /\ HoldersClaimed'
  <2> SUFFICES ASSUME NEW w \in Workers, pc'[w] \in SendSteps
               PROVE  /\ Registered(Op(w))' /\ record'[Op(w)'].terms = request'[w].terms
                      /\ pc'[w] \in Holding => record'[Op(w)'].attempts = 1
    BY HoldingSends DEF SendersRegistered, HoldersClaimed
  <2>1. pc[w] \in SendSteps /\ Op(w)' = Op(w) /\ request'[w] = request[w]
    BY DEF Op
  <2>2. Op(w) \in Ops /\ Registered(Op(w)) /\ record[Op(w)].terms = request[w].terms
    BY <2>1, Sender
  <2>3. pc'[w] \in Holding => record[Op(w)].attempts = 1
    BY DEF IInv, ClaimInv, HoldersClaimed
  <2>4. RowKept(Op(w))
    BY <2>2 DEF RowsKept
  <2> QED
    BY <2>1, <2>2, <2>3, <2>4 DEF RowKept, Registered
<1>2. OneHolder'
  BY HoldingSends DEF OneHolder, IInv, ClaimInv, Op
<1>3. NotYetCalled'
  BY DEF NotYetCalled, IInv, ClaimInv, Op, SendSteps
<1>4. CallsClaimed'
  BY DEF CallsClaimed, IInv, ClaimInv, RowsKept, RowKept, Registered
<1>5. SnapshotsClaimed'
  BY DEF SnapshotsClaimed, IInv, ClaimInv, ClaimState
<1>6. SentAsRegistered'
  <2> SUFFICES ASSUME NEW p \in wire
               PROVE  Registered(p.op)' /\ record'[p.op].terms = p.terms
    BY DEF SentAsRegistered
  <2>1. Registered(p.op) /\ record[p.op].terms = p.terms
    BY DEF IInv, ClaimInv, SentAsRegistered
  <2>2. p.op \in Ops
    BY PaymentsAssumption DEF IInv, BankTypeOK
  <2> QED
    BY <2>1, <2>2 DEF RowsKept, RowKept, Registered
<1> QED
  BY <1>1, <1>2, <1>3, <1>4, <1>5, <1>6 DEF ClaimInv

(* The handler ends.                                                       *)
LEMMA ReturnStep ==
    ASSUME IInv, RInv', RowsKept, NEW w \in Workers, Return(w), UNCHANGED bankVars
    PROVE  IInv'
<1>1. LocalTypeOK'
  BY ReturnType DEF IInv
<1>2. BankTypeOK'
  BY DEF IInv, BankTypeOK, bankVars
<1>3. \A v \in Workers : v # w => pc'[v] = pc[v] /\ request'[v] = request[v] /\ seen'[v] = seen[v]
  BY DEF Return, IInv, LocalTypeOK
<1>4. pc'[w] \notin SendSteps
  BY DEF Return, IInv, LocalTypeOK, SendSteps
<1>5. ClaimInv'
  BY <1>3, <1>4, HoldingSends, QuietStep DEF bankVars, SendSteps
<1> QED
  BY <1>1, <1>2, <1>5 DEF IInv

(* The worker goes on without becoming a holder, or stays one.             *)
LEMMA GotoStep ==
    ASSUME IInv, RInv', RowsKept, NEW w \in Workers,
           NEW step \in SendSteps \ {"save_error", "send"},
           Goto(w, step), UNCHANGED bankVars,
           pc[w] \in SendSteps \ {"save_error"},
           step \in Holding => pc[w] \in Holding
    PROVE  IInv'
<1>1. LocalTypeOK'
  BY GotoType DEF IInv
<1>2. BankTypeOK'
  BY DEF IInv, BankTypeOK, bankVars
<1>3. \A v \in Workers : /\ v # w => pc'[v] = pc[v]
                         /\ request'[v] = request[v] /\ seen'[v] = seen[v]
  BY DEF Goto, localVars, IInv, LocalTypeOK
<1>4. pc'[w] = step
  BY DEF Goto, IInv, LocalTypeOK
<1>5. ClaimInv'
  BY <1>3, <1>4, QuietStep DEF bankVars
<1> QED
  BY <1>1, <1>2, <1>5 DEF IInv

(* Only the tables, the bank or the wire change; the workers stay put.     *)
LEMMA OutsideStep ==
    ASSUME IInv, RInv', RowsKept, UNCHANGED <<pc, localVars>>,
           calls' = calls, wire' \subseteq wire, BankTypeOK'
    PROVE  IInv'
<1>1. LocalTypeOK'
  BY SameLocalType DEF IInv
<1>2. ClaimInv'
  BY QuietStep DEF localVars
<1> QED
  BY <1>1, <1>2 DEF IInv

LEMMA TablesUntouched ==
    ASSUME IInv, UNCHANGED repositoryVars
    PROVE  RInv' /\ RowsKept
  BY UnchangedStep DEF IInv

-----------------------------------------------------------------------------
(* The actions, one by one.                                                *)

LEMMA StartStep ==
    ASSUME IInv, NEW ws \in Processes, Start(ws)
    PROVE  IInv'
<1>1. RInv' /\ RowsKept
  BY RecoverSendingStep DEF Start, IInv
<1>2. LocalTypeOK'
  BY DEF Start, ComeUp, localVars, IInv, LocalTypeOK, SendSteps, DecisionSteps, Steps
<1>3. BankTypeOK'
  BY DEF Start, IInv, BankTypeOK, bankVars
<1>4. \A w \in Workers : /\ pc'[w] # "idle" => pc'[w] = pc[w]
                         /\ request'[w] = request[w] /\ seen'[w] = seen[w]
  BY DEF Start, ComeUp, localVars, IInv, LocalTypeOK
<1>5. ClaimInv'
  BY <1>1, <1>4, HoldingSends, QuietStep DEF Start, bankVars, SendSteps
<1> QED
  BY <1>1, <1>2, <1>3, <1>5 DEF IInv

LEMMA CrashStep ==
    ASSUME IInv, NEW ws \in Processes, Crash(ws)
    PROVE  IInv'
<1>1. RInv' /\ RowsKept
  BY TablesUntouched DEF Crash
<1>2. LocalTypeOK'
  BY DEF Crash, IInv, LocalTypeOK, SendSteps, DecisionSteps, Steps
<1>3. BankTypeOK'
  BY DEF Crash, IInv, BankTypeOK, bankVars
<1>4. \A w \in Workers :
        pc'[w] # "down" => pc'[w] = pc[w] /\ request'[w] = request[w] /\ seen'[w] = seen[w]
  BY DEF Crash, IInv, LocalTypeOK
<1>5. ClaimInv'
  BY <1>1, <1>4, HoldingSends, QuietStep DEF Crash, bankVars, SendSteps
<1> QED
  BY <1>1, <1>2, <1>3, <1>5 DEF IInv

LEMMA SubmitStep ==
    ASSUME IInv, NEW w \in Workers, NEW p \in Payments, Submit(w, p)
    PROVE  IInv'
<1> DEFINE row == RowAfterRegister(p.op, p.terms)
<1>1. p.op \in Ops /\ p.terms \in Terms
  BY PaymentsAssumption
<1>2. Register(p.op, p.terms) /\ UNCHANGED bankVars /\ pc[w] = "idle"
  BY DEF Submit
<1>3. RInv' /\ RowsKept
  BY <1>1, <1>2, RegisterStep DEF IInv
<1>4. CASE row.terms # p.terms \/ row.status \in AlreadySent
  <2>1. Return(w)
    BY <1>4 DEF Submit
  <2> QED
    BY <1>2, <1>3, <2>1, ReturnStep
<1>5. CASE ~(row.terms # p.terms \/ row.status \in AlreadySent)
  <2>1. PICK step \in {"transition", "claim"} :
            /\ pc' = [pc EXCEPT ![w] = step]
            /\ request' = [request EXCEPT ![w] = p]
            /\ UNCHANGED <<seen, decision>>
    BY <1>5 DEF Submit
  <2>2. LocalTypeOK'
    BY <1>2, <2>1, NoPaymentAssumption
    DEF IInv, LocalTypeOK, SendSteps, DecisionSteps, Steps
  <2>3. BankTypeOK'
    BY <1>2 DEF IInv, BankTypeOK, bankVars
  <2>4. /\ \A v \in Workers : v # w => pc'[v] = pc[v] /\ request'[v] = request[v]
        /\ pc'[w] = step /\ request'[w] = p /\ seen' = seen
    BY <2>1 DEF IInv, LocalTypeOK
  <2>5. Registered(p.op)' /\ record'[p.op].terms = p.terms
    <3>1. record'[p.op] = row
      BY <1>1, <1>2 DEF Register, IInv, RInv, RepositoryTypeOK
    <3>2. row \in IntegrationRecord
      BY <1>1, RowType, NewRecordFields DEF IInv, RInv, RowAfterRegister
    <3> QED
      BY <1>5, <3>1, <3>2, NoRecordIsNone DEF Registered
  <2>6. SendersRegistered'
    <3> SUFFICES ASSUME NEW v \in Workers, pc'[v] \in SendSteps
                 PROVE  Registered(Op(v))' /\ record'[Op(v)'].terms = request'[v].terms
      BY DEF SendersRegistered
    <3>1. CASE v = w
      BY <2>4, <2>5, <3>1 DEF Op
    <3>2. CASE v # w
      BY <1>3, <2>4, <3>2, Sender DEF RowsKept, RowKept, Registered, Op
    <3> QED
      BY <3>1, <3>2
  <2>7. pc'[w] \notin Holding
    BY <2>4 DEF Holding
  <2>8. HoldersClaimed'
    <3> SUFFICES ASSUME NEW v \in Workers, pc'[v] \in Holding
                 PROVE  record'[Op(v)'].attempts = 1
      BY DEF HoldersClaimed
    <3>1. v # w /\ pc[v] \in Holding /\ Op(v)' = Op(v)
      BY <2>4, <2>7 DEF Op
    <3>2. record[Op(v)].attempts = 1
      BY <3>1 DEF IInv, ClaimInv, HoldersClaimed
    <3> QED
      BY <1>3, <3>1, <3>2, Sender, HoldingSends DEF RowsKept, RowKept
  <2>9. OneHolder'
    BY <2>4, <2>7 DEF OneHolder, IInv, ClaimInv, Op
  <2>10. NotYetCalled'
    BY <1>2, <2>4 DEF NotYetCalled, IInv, ClaimInv, Op, bankVars
  <2>11. CallsClaimed'
    BY <1>2, <1>3 DEF CallsClaimed, IInv, ClaimInv, RowsKept, RowKept, Registered, bankVars
  <2>12. SnapshotsClaimed'
    BY <2>4 DEF SnapshotsClaimed, IInv, ClaimInv, ClaimState
  <2>13. SentAsRegistered'
    <3> SUFFICES ASSUME NEW q \in wire
                 PROVE  Registered(q.op)' /\ record'[q.op].terms = q.terms
      BY <1>2 DEF SentAsRegistered, bankVars
    <3>1. q.op \in Ops
      BY PaymentsAssumption DEF IInv, BankTypeOK
    <3> QED
      BY <1>3, <3>1 DEF IInv, ClaimInv, SentAsRegistered, RowsKept, RowKept, Registered
  <2> QED
    BY <1>3, <2>2, <2>3, <2>6, <2>8, <2>9, <2>10, <2>11, <2>12, <2>13 DEF IInv, ClaimInv
<1> QED
  BY <1>4, <1>5

LEMMA ServiceConstants ==
    /\ {"ready_to_send", "sent"} \subseteq Status
    /\ {"1c", "bank_adapter"} \subseteq Sources
    /\ NoExt \in MaybeExt /\ NoEvent \in Events \cup {NoEvent}
    /\ \A o \in Ops : ExtIdOf[o] \in MaybeExt
  BY ExtIdOfAssumption DEF Status, Sources, MaybeExt

LEMMA MoveToReadyStep ==
    ASSUME IInv, NEW w \in Workers, MoveToReady(w)
    PROVE  IInv'
<1>1. pc[w] = "transition" /\ pc[w] \in SendSteps \ {"save_error"} /\ UNCHANGED bankVars
  BY DEF MoveToReady, SendSteps
<1>2. CASE Transition(Op(w), "ready_to_send", "1c", NoExt, NoEvent) /\ Goto(w, "claim")
  <2>1. RInv' /\ RowsKept
    BY <1>1, <1>2, Sender, ServiceConstants, TransitionStep DEF IInv
  <2> QED
    BY <1>1, <1>2, <2>1, GotoStep DEF SendSteps, Holding
<1>3. CASE Goto(w, "reread") /\ UNCHANGED repositoryVars
  BY <1>1, <1>3, TablesUntouched, GotoStep DEF SendSteps, Holding
<1> QED
  BY <1>2, <1>3 DEF MoveToReady

LEMMA RereadStep ==
    ASSUME IInv, NEW w \in Workers, Reread(w)
    PROVE  IInv'
<1>1. /\ pc[w] \in SendSteps \ {"save_error"}
      /\ UNCHANGED bankVars /\ RInv' /\ RowsKept
  BY TablesUntouched DEF Reread, SendSteps
<1>2. CASE Return(w)
  BY <1>1, <1>2, ReturnStep
<1>3. CASE Goto(w, "claim")
  BY <1>1, <1>3, GotoStep DEF SendSteps, Holding
<1> QED
  BY <1>2, <1>3 DEF Reread

LEMMA ClaimStep ==
    ASSUME IInv, NEW w \in Workers, Claim(w)
    PROVE  IInv'
<1>1. pc[w] = "claim" /\ pc[w] \in SendSteps \ {"save_error"} /\ UNCHANGED bankVars
  BY DEF Claim, SendSteps
<1>2. CASE Return(w) /\ UNCHANGED repositoryVars
  BY <1>1, <1>2, TablesUntouched, ReturnStep
<1>3. CASE ClaimSend(Op(w)) /\ Goto(w, "send")
  <2>1. Op(w) \in Ops
    BY <1>1, Sender
  <2>2. /\ RInv' /\ RowsKept
        /\ record[Op(w)].attempts = 0 /\ record'[Op(w)].attempts = 1
    BY <1>3, <2>1, ClaimSendStep DEF IInv
  <2>3. LocalTypeOK'
    BY <1>1, <1>3, GotoType DEF IInv, SendSteps
  <2>4. BankTypeOK'
    BY <1>1 DEF IInv, BankTypeOK, bankVars
  <2>5. /\ \A v \in Workers : v # w => pc'[v] = pc[v]
        /\ pc'[w] = "send" /\ request' = request /\ seen' = seen
    BY <1>3 DEF Goto, localVars, IInv, LocalTypeOK
  <2>6. \A v \in Workers : Op(v)' = Op(v)
    BY <2>5 DEF Op
  <2>7. \A v \in Workers : pc'[v] \in SendSteps => pc[v] \in SendSteps
    BY <1>1, <2>5
  <2>8. \A v \in Workers : pc[v] \in Holding => Op(v) # Op(w)
    BY <2>2 DEF IInv, ClaimInv, HoldersClaimed
  <2>9. SendersRegistered'
    BY <2>2, <2>5, <2>6, <2>7, Sender DEF SendersRegistered, RowsKept, RowKept, Registered
  <2>10. HoldersClaimed'
    <3> SUFFICES ASSUME NEW v \in Workers, pc'[v] \in Holding
                 PROVE  record'[Op(v)].attempts = 1
      BY <2>6 DEF HoldersClaimed
    <3>1. CASE v = w
      BY <2>2, <3>1
    <3>2. CASE v # w
      <4>1. pc[v] \in Holding /\ record[Op(v)].attempts = 1
        BY <2>5, <3>2 DEF IInv, ClaimInv, HoldersClaimed
      <4> QED
        BY <2>2, <4>1, Sender, HoldingSends DEF RowsKept, RowKept
    <3> QED
      BY <3>1, <3>2
  <2>11. OneHolder'
    BY <2>5, <2>6, <2>8 DEF OneHolder, IInv, ClaimInv
  <2>12. NotYetCalled'
    <3>1. calls[Op(w)] = 0
      BY <2>1, <2>2 DEF IInv, ClaimInv, CallsClaimed
    <3> QED
      BY <1>1, <2>5, <2>6, <3>1 DEF NotYetCalled, IInv, ClaimInv, bankVars
  <2>13. CallsClaimed'
    BY <1>1, <2>2 DEF CallsClaimed, IInv, ClaimInv, RowsKept, RowKept, Registered, bankVars
  <2>14. SnapshotsClaimed'
    BY <2>5 DEF SnapshotsClaimed, IInv, ClaimInv, ClaimState
  <2>15. SentAsRegistered'
    <3> SUFFICES ASSUME NEW q \in wire
                 PROVE  Registered(q.op)' /\ record'[q.op].terms = q.terms
      BY <1>1 DEF SentAsRegistered, bankVars
    <3>1. q.op \in Ops
      BY PaymentsAssumption DEF IInv, BankTypeOK
    <3> QED
      BY <2>2, <3>1 DEF IInv, ClaimInv, SentAsRegistered, RowsKept, RowKept, Registered
  <2> QED
    BY <2>2, <2>3, <2>4, <2>9, <2>10, <2>11, <2>12, <2>13, <2>14, <2>15 DEF IInv, ClaimInv
<1> QED
  BY <1>2, <1>3 DEF Claim

LEMMA CallAdapterStep ==
    ASSUME IInv, NEW w \in Workers, CallAdapter(w)
    PROVE  IInv'
<1>1. /\ pc[w] = "send" /\ pc[w] \in SendSteps \ {"save_error"} /\ pc[w] \in Holding
      /\ UNCHANGED repositoryVars
  BY DEF CallAdapter, SendSteps, Holding
<1>2. /\ Op(w) \in Ops /\ request[w] \in Payments
      /\ Registered(Op(w)) /\ record[Op(w)].terms = request[w].terms
      /\ record[Op(w)].attempts = 1 /\ calls[Op(w)] = 0
  BY <1>1, Sender DEF IInv, ClaimInv, HoldersClaimed, NotYetCalled
<1>3. RInv' /\ record' = record
  BY <1>1, TablesUntouched DEF repositoryVars
<1>4. LocalTypeOK'
  BY <1>1, GotoType DEF CallAdapter, IInv, SendSteps
<1>5. /\ \A o \in Ops : calls'[o] = IF o = Op(w) THEN 1 ELSE calls[o]
      /\ wire' = wire \cup {request[w]}
  BY <1>2 DEF CallAdapter, IInv, BankTypeOK
<1>6. BankTypeOK'
  BY <1>2 DEF CallAdapter, IInv, BankTypeOK
<1>7. /\ \A v \in Workers : v # w => pc'[v] = pc[v]
      /\ pc'[w] = "await" /\ request' = request /\ seen' = seen
  BY DEF CallAdapter, Goto, localVars, IInv, LocalTypeOK
<1>8. \A v \in Workers : Op(v)' = Op(v)
  BY <1>7 DEF Op
<1>9. \A v \in Workers : /\ pc'[v] \in SendSteps => pc[v] \in SendSteps
                         /\ pc'[v] \in Holding => pc[v] \in Holding
  BY <1>1, <1>7
<1>10. SendersRegistered' /\ HoldersClaimed' /\ OneHolder'
  BY <1>3, <1>7, <1>8, <1>9
  DEF SendersRegistered, HoldersClaimed, OneHolder, IInv, ClaimInv, Registered
<1>11. NotYetCalled'
  <2> SUFFICES ASSUME NEW v \in Workers, pc'[v] = "send"
               PROVE  calls'[Op(v)] = 0
    BY <1>8 DEF NotYetCalled
  <2>1. v # w /\ pc[v] = "send"
    BY <1>7
  <2>2. Op(v) # Op(w)
    BY <1>1, <2>1 DEF IInv, ClaimInv, OneHolder, Holding
  <2>3. calls[Op(v)] = 0 /\ Op(v) \in Ops
    BY <2>1, Sender DEF IInv, ClaimInv, NotYetCalled, SendSteps
  <2> QED
    BY <1>5, <2>2, <2>3
<1>12. CallsClaimed'
  BY <1>2, <1>3, <1>5 DEF CallsClaimed, IInv, ClaimInv, Registered
<1>13. SnapshotsClaimed'
  BY <1>7 DEF SnapshotsClaimed, IInv, ClaimInv, ClaimState
<1>14. SentAsRegistered'
  BY <1>2, <1>3, <1>5 DEF SentAsRegistered, IInv, ClaimInv, Registered, Op
<1> QED
  BY <1>3, <1>4, <1>6, <1>10, <1>11, <1>12, <1>13, <1>14 DEF IInv, ClaimInv

LEMMA AdapterAnswersStep ==
    ASSUME IInv, NEW w \in Workers, AdapterReturns(w) \/ AdapterRaises(w)
    PROVE  IInv'
<1>1. /\ pc[w] \in SendSteps \ {"save_error"} /\ pc[w] \in Holding
      /\ UNCHANGED bankVars /\ RInv' /\ RowsKept
  BY TablesUntouched DEF AdapterReturns, AdapterRaises, SendSteps, Holding
<1>2. PICK step \in {"read_answer", "read_error"} : Goto(w, step)
  BY DEF AdapterReturns, AdapterRaises
<1> QED
  BY <1>1, <1>2, GotoStep DEF SendSteps

LEMMA ReadAfterErrorStep ==
    ASSUME IInv, NEW w \in Workers, ReadAfterError(w)
    PROVE  IInv'
<1> DEFINE s == [record[Op(w)] EXCEPT !.error = "adapter_raised"]
<1>1. /\ pc[w] = "read_error" /\ pc[w] \in SendSteps /\ pc[w] \in Holding
      /\ UNCHANGED bankVars /\ UNCHANGED repositoryVars
  BY DEF ReadAfterError, SendSteps, Holding
<1>2. RInv' /\ RowsKept
  BY <1>1, TablesUntouched
<1>3. /\ record[Op(w)] \in IntegrationRecord /\ ClaimState(record[Op(w)])
      /\ record[Op(w)].attempts = 1
  BY <1>1, Sender DEF IInv, ClaimInv, HoldersClaimed
<1>4. s \in IntegrationRecord /\ ClaimState(s) /\ s.attempts = 1 /\ s # NoRecord
  BY <1>3, NoRecordIsNone DEF IntegrationRecord, ClaimState
<1>5. /\ \A v \in Workers : v # w => pc'[v] = pc[v] /\ seen'[v] = seen[v]
      /\ pc'[w] = "save_error" /\ seen'[w] = s
      /\ request' = request /\ decision' = decision
  BY DEF ReadAfterError, IInv, LocalTypeOK
<1>6. seen' \in [Workers -> IntegrationRecord \cup {NoRecord}]
  BY <1>4 DEF ReadAfterError, IInv, LocalTypeOK
<1>7. pc' \in [Workers -> Steps \cup {"down", "idle"}]
  BY DEF ReadAfterError, IInv, LocalTypeOK, Steps, SendSteps
<1> HIDE DEF s
<1>8. LocalTypeOK'
  BY <1>1, <1>4, <1>5, <1>6, <1>7 DEF IInv, LocalTypeOK, SendSteps, DecisionSteps
<1>9. BankTypeOK'
  BY <1>1 DEF IInv, BankTypeOK, bankVars
<1>10. record' = record /\ calls' = calls /\ wire' = wire /\ \A v \in Workers : Op(v)' = Op(v)
  BY <1>1, <1>5 DEF repositoryVars, bankVars, Op
<1>11. \A v \in Workers : /\ pc'[v] \in SendSteps => pc[v] \in SendSteps
                          /\ pc'[v] \in Holding => pc[v] \in Holding
                          /\ pc'[v] = "send" => pc[v] = "send"
  BY <1>1, <1>5
<1>12. SendersRegistered' /\ HoldersClaimed' /\ OneHolder'
  BY <1>5, <1>10, <1>11
  DEF SendersRegistered, HoldersClaimed, OneHolder, IInv, ClaimInv, Registered
<1>13. NotYetCalled' /\ CallsClaimed' /\ SentAsRegistered'
  BY <1>10, <1>11 DEF NotYetCalled, CallsClaimed, SentAsRegistered, IInv, ClaimInv, Registered
<1>14. SnapshotsClaimed'
  BY <1>4, <1>5 DEF SnapshotsClaimed, IInv, ClaimInv, ClaimState
<1> QED
  BY <1>2, <1>8, <1>9, <1>12, <1>13, <1>14 DEF IInv, ClaimInv

(* The stale save: it may undo a status, never the claim.                  *)
LEMMA SaveErrorStep ==
    ASSUME IInv, NEW w \in Workers, SaveError(w)
    PROVE  IInv'
<1> DEFINE r == [seen[w] EXCEPT !.terms = record[Op(w)].terms]
<1>1. pc[w] = "save_error" /\ pc[w] \in SendSteps /\ Return(w) /\ UNCHANGED bankVars
  BY DEF SaveError, SendSteps
<1>2. Op(w) \in Ops /\ Registered(Op(w)) /\ record[Op(w)] \in IntegrationRecord
  BY <1>1, Sender
<1>3. seen[w] \in IntegrationRecord /\ seen[w].attempts = 1 /\ ClaimState(seen[w])
  BY <1>1 DEF IInv, LocalTypeOK, ClaimInv, SnapshotsClaimed
<1>4. /\ r \in IntegrationRecord /\ r.attempts = 1 /\ ClaimState(r)
      /\ r.terms = record[Op(w)].terms
  BY <1>2, <1>3 DEF IntegrationRecord, ClaimState
<1>5. record' = [record EXCEPT ![Op(w)] = r]
  BY DEF SaveError, Save
<1>6. /\ inbox' \in [Events -> Callbacks \cup {NoCallback}]
      /\ conflicts' \in SUBSET Events
  BY DEF SaveError, Save, IInv, RInv, RepositoryTypeOK
<1> HIDE DEF r
<1>7. RInv' /\ RowsKept
  BY <1>2, <1>4, <1>5, <1>6, WriteRow DEF IInv
<1> QED
  BY <1>1, <1>7, ReturnStep

LEMMA ReadAnswerStep ==
    ASSUME IInv, NEW w \in Workers, ReadAnswer(w)
    PROVE  IInv'
<1>1. /\ pc[w] \in SendSteps \ {"save_error"} /\ pc[w] \in Holding
      /\ UNCHANGED bankVars /\ RInv' /\ RowsKept
  BY TablesUntouched DEF ReadAnswer, SendSteps, Holding
<1>2. CASE Return(w)
  BY <1>1, <1>2, ReturnStep
<1>3. CASE Goto(w, "persist_sent")
  BY <1>1, <1>3, GotoStep DEF SendSteps
<1> QED
  BY <1>2, <1>3 DEF ReadAnswer

LEMMA PersistSentStep ==
    ASSUME IInv, NEW w \in Workers, PersistSent(w)
    PROVE  IInv'
<1>1. /\ pc[w] \in SendSteps /\ Return(w) /\ UNCHANGED bankVars
      /\ Transition(Op(w), "sent", "bank_adapter", ExtIdOf[Op(w)], NoEvent)
  BY DEF PersistSent, SendSteps
<1>2. RInv' /\ RowsKept
  BY <1>1, Sender, ServiceConstants, TransitionStep DEF IInv
<1> QED
  BY <1>1, <1>2, ReturnStep

(* Reconcile, Lookup and Resolve only change what the worker has decided.  *)
LEMMA DecisionStep ==
    ASSUME IInv, NEW w \in Workers,
           pc[w] \in {"idle", "lookup"},
           NEW step \in DecisionSteps, NEW d \in Decision,
           pc' = [pc EXCEPT ![w] = step],
           decision' = [decision EXCEPT ![w] = d],
           UNCHANGED <<repositoryVars, request, seen, bankVars>>
    PROVE  IInv'
<1>1. RInv' /\ RowsKept
  BY TablesUntouched
<1>2. LocalTypeOK'
  BY NoDecisionAssumption DEF IInv, LocalTypeOK, SendSteps, DecisionSteps, Steps
<1>3. BankTypeOK'
  BY DEF IInv, BankTypeOK, bankVars
<1>4. \A v \in Workers : v # w => pc'[v] = pc[v]
  BY DEF IInv, LocalTypeOK
<1>5. pc'[w] \notin SendSteps
  BY DEF IInv, LocalTypeOK, SendSteps, DecisionSteps
<1>6. ClaimInv'
  BY <1>1, <1>4, <1>5, HoldingSends, QuietStep DEF bankVars, SendSteps
<1> QED
  BY <1>1, <1>2, <1>3, <1>6 DEF IInv

LEMMA ReconcileStep ==
    ASSUME IInv, NEW w \in Workers, NEW o \in Ops, Reconcile(w, o)
    PROVE  IInv'
<1> DEFINE d == [op |-> o, to |-> "outcome_unknown",
                 source |-> "bank_status_lookup", ext |-> NoExt]
<1>1. d \in Decision /\ "lookup" \in DecisionSteps
  BY DEF Decision, Status, MaybeExt, DecisionSteps
<1> QED
  BY <1>1, DecisionStep DEF Reconcile

LEMMA LookupStep ==
    ASSUME IInv, NEW w \in Workers, Lookup(w)
    PROVE  IInv'
<1> DEFINE o == decision[w].op
           d == [decision[w] EXCEPT !.to = bank[o], !.ext = ExtIdOf[o]]
<1>1. pc[w] = "lookup" /\ bank[o] \in BankReports
  BY DEF Lookup
<1>2. decision[w] \in Decision
  BY <1>1 DEF IInv, LocalTypeOK, DecisionSteps
<1>3. bank[o] \in Status /\ ExtIdOf[o] \in MaybeExt
  BY <1>1, <1>2, ServiceConstants DEF BankReports, Status, Decision
<1>4. d \in Decision /\ "apply" \in DecisionSteps
  BY <1>2, <1>3 DEF Decision, DecisionSteps
<1> QED
  BY <1>1, <1>4, DecisionStep DEF Lookup

LEMMA ResolveStep ==
    ASSUME IInv, NEW w \in Workers, NEW o \in Ops, NEW to \in Resolutions, Resolve(w, o, to)
    PROVE  IInv'
<1> DEFINE d == [op |-> o, to |-> to, source |-> "manual_resolution", ext |-> NoExt]
<1>1. d \in Decision /\ "apply" \in DecisionSteps
  BY ResolutionsAssumption DEF Decision, MaybeExt, DecisionSteps
<1> QED
  BY <1>1, DecisionStep DEF Resolve

LEMMA ApplyDecisionStep ==
    ASSUME IInv, NEW w \in Workers, ApplyDecision(w)
    PROVE  IInv'
<1> DEFINE d == decision[w]
<1>1. /\ pc[w] = "apply" /\ Return(w) /\ UNCHANGED bankVars
      /\ Transition(d.op, d.to, d.source, d.ext, NoEvent)
  BY DEF ApplyDecision
<1>2. d \in Decision
  BY <1>1 DEF IInv, LocalTypeOK, DecisionSteps
<1>3. d.op \in Ops /\ d.to \in Status /\ d.source \in Sources /\ d.ext \in MaybeExt
  BY <1>2 DEF Decision, Sources
<1>4. RInv' /\ RowsKept
  BY <1>1, <1>3, ServiceConstants, TransitionStep DEF IInv
<1> QED
  BY <1>1, <1>4, ReturnStep

LEMMA WorkerStep ==
    ASSUME IInv, NEW w \in Workers, Asked(w) \/ Continue(w)
    PROVE  IInv'
<1>1. CASE Asked(w)
  BY <1>1, SubmitStep, ReconcileStep, ResolveStep DEF Asked
<1>2. CASE GiveUp(w)
  BY <1>2, TablesUntouched, ReturnStep DEF GiveUp
<1>3. CASE Continue(w) /\ ~GiveUp(w)
  BY <1>3, MoveToReadyStep, RereadStep, ClaimStep, CallAdapterStep, AdapterAnswersStep,
     ReadAfterErrorStep, SaveErrorStep, ReadAnswerStep, PersistSentStep, LookupStep,
     ApplyDecisionStep
  DEF Continue
<1> QED
  BY <1>1, <1>2, <1>3

LEMMA EnvironmentStep ==
    ASSUME IInv, Environment
    PROVE  IInv'
<1>1. CASE \E c \in Callbacks : ReceiveCallback(c)
  <2>1. PICK c \in Callbacks : ReceiveCallback(c)
    BY <1>1
  <2>2. RInv' /\ RowsKept
    BY <2>1, ApplyCallbackStep DEF ReceiveCallback, IInv
  <2>3. UNCHANGED <<pc, localVars, bankVars>>
    BY <2>1 DEF ReceiveCallback
  <2>4. BankTypeOK'
    BY <2>3 DEF IInv, BankTypeOK, bankVars
  <2> QED
    BY <2>2, <2>3, <2>4, OutsideStep DEF bankVars
<1>2. CASE \E p \in Payments : BankCommit(p) \/ LoseRequest(p)
  <2>1. PICK p \in Payments : BankCommit(p) \/ LoseRequest(p)
    BY <1>2
  <2>2. UNCHANGED <<repositoryVars, pc, localVars, calls>> /\ wire' = wire \ {p}
    BY <2>1 DEF BankCommit, LoseRequest
  <2>3. BankTypeOK'
    BY <2>1, <2>2 DEF IInv, BankTypeOK, BankCommit, LoseRequest
  <2> QED
    BY <2>2, <2>3, TablesUntouched, OutsideStep
<1>3. CASE \E o \in Ops : BankMoves(o)
  <2>1. UNCHANGED <<repositoryVars, pc, localVars, calls, wire>>
    BY <1>3 DEF BankMoves
  <2>2. BankTypeOK'
    BY <1>3 DEF IInv, BankTypeOK, BankMoves
  <2> QED
    BY <2>1, <2>2, TablesUntouched, OutsideStep
<1> QED
  BY <1>1, <1>2, <1>3 DEF Environment

LEMMA InitInv ==
    ASSUME Init
    PROVE  IInv
<1>1. RInv
  BY RepositoryStart DEF Init
<1>2. LocalTypeOK
  BY DEF Init, LocalTypeOK, SendSteps, DecisionSteps, Steps
<1>3. BankTypeOK
  BY DEF Init, BankTypeOK
<1>4. \A w \in Workers : pc[w] \notin SendSteps
  BY DEF Init, SendSteps
<1>5. ClaimInv
  BY <1>4, HoldingSends
  DEF Init, ClaimInv, SendersRegistered, HoldersClaimed, OneHolder, NotYetCalled,
      CallsClaimed, SnapshotsClaimed, SentAsRegistered, SendSteps
<1> QED
  BY <1>1, <1>2, <1>3, <1>5 DEF IInv

LEMMA NextInv ==
    ASSUME IInv, [Next]_vars
    PROVE  IInv'
<1>1. CASE Next
  BY <1>1, StartStep, CrashStep, WorkerStep, EnvironmentStep DEF Next
<1>2. CASE UNCHANGED vars
  <2>1. UNCHANGED <<repositoryVars, pc, localVars, bankVars>>
    BY <1>2 DEF vars, repositoryVars, localVars, bankVars
  <2>2. BankTypeOK'
    BY <2>1 DEF IInv, BankTypeOK, bankVars
  <2> QED
    BY <2>1, <2>2, TablesUntouched, OutsideStep DEF bankVars
<1> QED
  BY <1>1, <1>2

(* The invariant holds in every reachable state.                           *)
THEOREM Invariant == Spec => []IInv
  BY InitInv, NextInv, PTL DEF Spec

-----------------------------------------------------------------------------
(* Every variable of the service keeps its type, and a worker holds a      *)
(* request, a snapshot or a decision exactly while it needs it.            *)
THEOREM TypeCorrect == Spec => []TypeOK
<1>1. IInv => TypeOK
  BY DEF IInv, RInv, TypeOK
<1> QED
  BY <1>1, Invariant, PTL

(* The bank is asked to pay an operation at most once: service.py never    *)
(* calls adapter.send a second time, however many workers, submissions,    *)
(* crashes, restarts, adapter errors and stale saves there are.            *)
THEOREM AtMostOnce == Spec => []AtMostOneExternalSend
<1>1. IInv => AtMostOneExternalSend
  <2> SUFFICES ASSUME IInv, NEW o \in Ops
               PROVE  calls[o] <= 1
    BY DEF AtMostOneExternalSend
  <2>1. calls[o] = 0 \/ calls[o] = 1
    BY DEF IInv, ClaimInv, CallsClaimed
  <2> QED
    BY <2>1
<1> QED
  BY <1>1, Invariant, PTL

(* At most one worker is between the claim of an operation and the end of  *)
(* its send().                                                             *)
THEOREM HoldersAreUnique == Spec => []OneHolder
<1>1. IInv => OneHolder
  BY DEF IInv, ClaimInv
<1> QED
  BY <1>1, Invariant, PTL

(* Whatever is on its way to the bank has the terms that were registered   *)
(* for its operation.                                                      *)
THEOREM RegisteredTermsAreSent == Spec => []SentAsRegistered
<1>1. IInv => SentAsRegistered
  BY DEF IInv, ClaimInv
<1> QED
  BY <1>1, Invariant, PTL
=============================================================================
