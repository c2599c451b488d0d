------------------------ MODULE ServiceHistoryProofs ------------------------
(***************************************************************************)
(* What the rows tell of the service's dealings with the bank, and which   *)
(* promises the service keeps: with an adapter that always answers it is a *)
(* client of the repository like any other, so that what is proved of the  *)
(* repository holds of it, and it keeps the abstract lifecycle.            *)
(***************************************************************************)
EXTENDS PaymentServiceProofs, RepositoryHistoryProofs

\* No callback says that an operation is being sent: that is claim_send's to say.
HonestCallbacks == \A c \in Callbacks : c.status # "sending"

Reported == {"bank_adapter", "bank_status_lookup"}

\* The statuses in which an operation waits to be sent.
Early == {"prepared", "ready_to_send"}

-----------------------------------------------------------------------------
(* What a row, or a snapshot of one, tells of its operation: how it came   *)
(* to its status, that it was claimed, and that what the bank is said to   *)
(* have answered was asked; n says how often the bank was called.          *)
Told(r, n) ==
    /\ Story(r)
    /\ r.attempts = 1 => \E i \in DOMAIN r.audit : r.audit[i].source = "send-claim"
    /\ HonestCallbacks =>
            (r.status \in {"sending", "outcome_unknown", "sent"} => r.attempts = 1)
    /\ \A i \in DOMAIN r.audit : r.audit[i].source \in Reported => n = 1

RowsTold == \A o \in Ops : Registered(o) => Told(record[o], calls[o])

(* A step of the tables after which the rows tell no less, and in which no *)
(* row becomes prepared again, or goes back to waiting.                    *)
RowTellsOn(o) ==
    /\ Registered(o)' => Told(record'[o], calls[o])
    /\ (Registered(o) /\ record[o].status # "prepared")
            => (Registered(o)' /\ record'[o].status # "prepared")
    /\ (Registered(o) /\ record[o].status \notin Early)
            => (Registered(o)' /\ record'[o].status \notin Early)

TellOn == \A o \in Ops : RowTellsOn(o)

LEMMA MovedTold ==
    ASSUME NEW r \in IntegrationRecord, NEW n, Told(r, n),
           NEW to \in TRANSITIONS[r.status],
           (HonestCallbacks /\ to = "sending") => r.attempts = 1,
           NEW source \in Sources, source \in Reported => n = 1,
           NEW ext \in MaybeExt, NEW event \in Events \cup {NoEvent}
    PROVE  Told(Moved(r, to, source, ext, event), n)
<1> DEFINE a == [old |-> r.status, new |-> to, source |-> source, ext |-> ext, event |-> event]
           m == Moved(r, to, source, ext, event)
<1>1. r.status \in Status /\ to \in Status
  BY Table DEF IntegrationRecord
<1>2. a \in AuditEvent /\ a.source = source
  BY <1>1 DEF AuditEvent
<1>3. m.audit = Append(r.audit, a) /\ m.status = to /\ m.attempts = r.attempts
  BY DEF Moved, IntegrationRecord
<1> HIDE DEF m, a
<1>4. /\ DOMAIN m.audit = DOMAIN r.audit \cup {Len(r.audit) + 1}
      /\ \A i \in DOMAIN r.audit : m.audit[i] = r.audit[i]
      /\ m.audit[Len(r.audit) + 1] = a
  BY <1>2, <1>3, AuditGrows
<1>5. HonestCallbacks => (to \in {"sending", "outcome_unknown", "sent"} => r.attempts = 1)
  <2>1. to = "outcome_unknown" \/ to = "sent" => r.status = "sending"
    BY <1>1 DEF TRANSITIONS, Status
  <2> QED
    BY <2>1 DEF Told
<1>6. m.attempts = 1 => \E i \in DOMAIN m.audit : m.audit[i].source = "send-claim"
  BY <1>3, <1>4 DEF Told
<1>7. \A i \in DOMAIN m.audit : m.audit[i].source \in Reported => n = 1
  BY <1>2, <1>4 DEF Told
<1>8. Story(m)
  <2>1. a.old = r.status /\ a.new = m.status
    BY <1>3 DEF a
  <2> QED
    BY <1>2, <1>3, <2>1, StoryMoves DEF Told
<1> QED
  BY <1>3, <1>5, <1>6, <1>7, <1>8 DEF Told, m

LEMMA TransitionTold ==
    ASSUME NEW r \in IntegrationRecord, NEW n, Told(r, n),
           NEW to \in Status, Permitted(r, to),
           (HonestCallbacks /\ to = "sending") => r.status # "ready_to_send",
           NEW source \in Sources, source \in Reported => n = 1,
           NEW ext \in MaybeExt, NEW event \in Events \cup {NoEvent}
    PROVE  /\ Told(TransitionRecord(r, to, source, ext, event), n)
           /\ r.status # "prepared" => to # "prepared"
           /\ r.status \notin Early => to \notin Early
<1>1. CASE to = r.status
  BY <1>1 DEF TransitionRecord
<1>2. CASE to # r.status
  <2>1. to \in TRANSITIONS[r.status] /\ r.status \in Status
    BY <1>2 DEF Permitted, CanMove, IntegrationRecord
  <2>2. (to = "sending" => r.status = "ready_to_send") /\ (to \in Early => r.status \in Early)
    BY <2>1 DEF TRANSITIONS, Status, Early
  <2> QED
    BY <1>2, <2>1, <2>2, MovedTold, Table DEF TransitionRecord
<1> QED
  BY <1>1, <1>2

-----------------------------------------------------------------------------
(* The tables.                                                             *)

LEMMA SameTold ==
    ASSUME RowsTold, record' = record
    PROVE  TellOn
  BY DEF RowsTold, TellOn, RowTellsOn, Registered

LEMMA WriteTold ==
    ASSUME RepositoryTypeOK, RowsTold, NEW o \in Ops, NEW r \in IntegrationRecord,
           Told(r, calls[o]),
           (Registered(o) /\ record[o].status # "prepared") => r.status # "prepared",
           (Registered(o) /\ record[o].status \notin Early) => r.status \notin Early,
           record' = [record EXCEPT ![o] = r]
    PROVE  TellOn
<1> SUFFICES ASSUME NEW q \in Ops PROVE RowTellsOn(q)
  BY DEF TellOn
<1>1. record'[q] = IF q = o THEN r ELSE record[q]
  BY DEF RepositoryTypeOK
<1>2. CASE q = o
  BY <1>1, <1>2, NoRecordIsNone DEF RowTellsOn, Registered
<1>3. CASE q # o
  BY <1>1, <1>3 DEF RowTellsOn, RowsTold, Registered
<1> QED
  BY <1>2, <1>3

LEMMA RegisterTold ==
    ASSUME RepositoryTypeOK, RowsTold, NEW o \in Ops, NEW terms \in Terms,
           Register(o, terms)
    PROVE  TellOn
<1> DEFINE r == RowAfterRegister(o, terms)
<1>1. record' = [record EXCEPT ![o] = r]
  BY DEF Register
<1>2. CASE Registered(o)
  <2>1. r = record[o] /\ r \in IntegrationRecord
    BY <1>2, RowType DEF RowAfterRegister
  <2> HIDE DEF r
  <2> QED
    BY <1>1, <1>2, <2>1, WriteTold DEF RowsTold
<1>3. CASE ~Registered(o)
  <2>1. r = NewRecord(terms)
    BY <1>3 DEF RowAfterRegister
  <2>2. r \in IntegrationRecord /\ r.attempts = 0 /\ r.status = "prepared"
    BY <2>1, NewRecordFields
  <2>3. DOMAIN r.audit = {} /\ Story(r)
    BY <2>1, NewStory DEF NewRecord
  <2> HIDE DEF r
  <2>4. Told(r, calls[o])
    BY <2>2, <2>3 DEF Told
  <2> QED
    BY <1>1, <1>3, <2>2, <2>4, WriteTold
<1> QED
  BY <1>2, <1>3

LEMMA TransitionTells ==
    ASSUME RepositoryTypeOK, RowsTold, NEW o \in Ops, NEW to \in Status,
           to = "sending" => record[o].status # "ready_to_send",
           NEW source \in Sources, source \in Reported => calls[o] = 1,
           NEW ext \in MaybeExt, Transition(o, to, source, ext, NoEvent)
    PROVE  TellOn
<1> DEFINE r == TransitionRecord(record[o], to, source, ext, NoEvent)
<1>1. /\ Registered(o) /\ Permitted(record[o], to)
      /\ record' = [record EXCEPT ![o] = r]
  BY DEF Transition
<1>2. record[o] \in IntegrationRecord /\ Told(record[o], calls[o])
  BY <1>1, RowType DEF RowsTold
<1>3. /\ r \in IntegrationRecord /\ r.status = to /\ Told(r, calls[o])
      /\ record[o].status # "prepared" => to # "prepared"
      /\ record[o].status \notin Early => to \notin Early
  BY <1>1, <1>2, TransitionRecordFields, TransitionTold
<1> HIDE DEF r
<1> QED
  BY <1>1, <1>3, WriteTold

LEMMA ClaimTold ==
    ASSUME RepositoryTypeOK, RowsTold, NEW o \in Ops, ClaimSend(o),
           record'[o].attempts = 1
    PROVE  TellOn
<1> DEFINE c == Attempted(record[o])
           a == [old |-> c.status, new |-> "sending", source |-> "send-claim",
                 ext |-> NoExt, event |-> NoEvent]
           r == Moved(c, "sending", "send-claim", NoExt, NoEvent)
<1>1. /\ Registered(o) /\ record[o] \in IntegrationRecord
      /\ record' = [record EXCEPT ![o] = r]
  BY RowType DEF ClaimSend, Claimable
<1>2. Told(record[o], calls[o])
  BY <1>1 DEF RowsTold
<1>3. /\ c \in IntegrationRecord /\ c.audit = record[o].audit
      /\ c.attempts = record[o].attempts + 1
  BY <1>1 DEF Attempted, IntegrationRecord
<1>5. /\ "sending" \in Status /\ "send-claim" \in Sources /\ NoExt \in MaybeExt
  BY DEF Status, Sources, MaybeExt
<1>4. /\ c.status = "ready_to_send" /\ c.status = record[o].status
       /\ a.old = c.status /\ a.new = "sending" /\ a.new \in TRANSITIONS[a.old]
  <2>1. record[o].status = "ready_to_send"
    BY DEF ClaimSend, Claimable
  <2>2. c.status = record[o].status
    BY <1>1 DEF Attempted, IntegrationRecord
  <2> HIDE DEF c
  <2> QED
    BY <2>1, <2>2 DEF TRANSITIONS
<1> HIDE DEF c
<1>6. a \in AuditEvent /\ a.source = "send-claim" /\ a.source \notin Reported
  BY <1>3, <1>5 DEF AuditEvent, IntegrationRecord, Reported
<1>7. r \in IntegrationRecord /\ r.status = "sending" /\ r.attempts = c.attempts
  BY <1>3, <1>5, MovedFields
<1>8. r.audit = Append(c.audit, a)
  BY <1>3 DEF Moved, IntegrationRecord
<1> HIDE DEF r, a
<1>9. /\ DOMAIN r.audit = DOMAIN c.audit \cup {Len(c.audit) + 1}
      /\ \A i \in DOMAIN c.audit : r.audit[i] = c.audit[i]
      /\ r.audit[Len(c.audit) + 1] = a
  BY <1>3, <1>6, <1>8, AuditGrows
<1>10. record'[o] = r
  BY <1>1 DEF RepositoryTypeOK
<1>11. \A i \in DOMAIN r.audit : r.audit[i].source \in Reported => calls[o] = 1
  BY <1>2, <1>3, <1>6, <1>9 DEF Told
<1>12. Story(r)
  <2>1. Story(c)
    BY <1>2, <1>3, <1>4 DEF Told, Story, Before
  <2> QED
    BY <1>3, <1>6, <1>7, <1>8, <1>4, <2>1, StoryMoves
<1>13. Told(r, calls[o])
  BY <1>6, <1>9, <1>10, <1>11, <1>12 DEF Told
<1> QED
  BY <1>1, <1>7, <1>13, WriteTold DEF Early

LEMMA RecoverTold ==
    ASSUME RepositoryTypeOK, RowsTold, RecoverSending
    PROVE  TellOn
<1> SUFFICES ASSUME NEW o \in Ops PROVE RowTellsOn(o)
  BY DEF TellOn
<1> DEFINE r == Moved(record[o], "outcome_unknown", "startup_recovery", NoExt, NoEvent)
<1>1. record'[o] = IF Sending(o) THEN r ELSE record[o]
  BY DEF RecoverSending
<1>2. CASE Sending(o)
  <2>1. /\ Registered(o) /\ record[o] \in IntegrationRecord
        /\ record[o].status = "sending" /\ Told(record[o], calls[o])
    BY <1>2, RowType DEF Sending, RowsTold
  <2>2. /\ "outcome_unknown" \in TRANSITIONS["sending"] /\ "outcome_unknown" \in Status
        /\ "startup_recovery" \in Sources \ Reported /\ NoExt \in MaybeExt
    BY DEF TRANSITIONS, Status, Sources, Reported, MaybeExt
  <2>3. r \in IntegrationRecord /\ r.status = "outcome_unknown" /\ Told(r, calls[o])
    BY <2>1, <2>2, MovedFields, MovedTold
  <2> HIDE DEF r
  <2> QED
    BY <1>1, <1>2, <2>3, NoRecordIsNone DEF RowTellsOn, Registered, Early
<1>3. CASE ~Sending(o)
  BY <1>1, <1>3 DEF RowTellsOn, RowsTold, Registered
<1> QED
  BY <1>2, <1>3

LEMMA CallbackTold ==
    ASSUME RepositoryTypeOK, RowsTold, NEW c \in Callbacks, ApplyCallback(c)
    PROVE  TellOn
<1>1. /\ c.event \in Events /\ c.op \in Ops
      /\ c.status \in Status /\ c.ext \in MaybeExt
      /\ {"callback", "callback_conflict"} \subseteq Sources \ Reported
  BY CallbackType DEF Sources, Reported
<1>2. Registered(c.op) /\ record[c.op] \in IntegrationRecord /\ Told(record[c.op], calls[c.op])
  BY <1>1, RowType DEF ApplyCallback, RowsTold
<1>3. CASE FirstDelivery(c)
  <2> DEFINE t == TransitionRecord(record[c.op], c.status, "callback", c.ext, c.event)
             r == Received(t, c.event)
  <2>1. Permitted(record[c.op], c.status) /\ record' = [record EXCEPT ![c.op] = r]
    BY <1>3 DEF FirstDelivery
  <2>2. /\ t \in IntegrationRecord /\ t.status = c.status /\ Told(t, calls[c.op])
        /\ record[c.op].status # "prepared" => c.status # "prepared"
        /\ record[c.op].status \notin Early => c.status \notin Early
    BY <1>1, <1>2, <2>1, TransitionRecordFields, TransitionTold DEF HonestCallbacks
  <2> HIDE DEF t
  <2>3. /\ r \in IntegrationRecord /\ r.status = t.status
        /\ r.attempts = t.attempts /\ r.audit = t.audit
    BY <1>1, <2>2 DEF Received, IntegrationRecord
  <2> HIDE DEF r
  <2>4. Told(r, calls[c.op])
    BY <2>2, <2>3 DEF Told, Story, Before
  <2> QED
    BY <1>1, <2>1, <2>2, <2>3, <2>4, WriteTold
<1>4. CASE Redelivery(c)
  BY <1>4, SameTold DEF Redelivery, repositoryVars
<1>5. CASE ConflictingDelivery(c) /\ CanMove(record[c.op], "manual_check")
  <2> DEFINE r == Moved(record[c.op], "manual_check", "callback_conflict", c.ext, c.event)
  <2>1. record' = [record EXCEPT ![c.op] = r]
    BY <1>5 DEF ConflictingDelivery
  <2>2. "manual_check" \in Status
    BY DEF Status
  <2>3. r \in IntegrationRecord /\ r.status = "manual_check"
    BY <1>1, <1>2, <2>2, MovedFields
  <2>4. "manual_check" \in TRANSITIONS[record[c.op].status]
    BY <1>5 DEF CanMove
  <2>5. Told(r, calls[c.op])
    BY <1>1, <1>2, <2>4, MovedTold
  <2> HIDE DEF r
  <2> QED
    BY <1>1, <2>1, <2>3, <2>5, WriteTold DEF Early
<1>6. CASE ConflictingDelivery(c) /\ ~CanMove(record[c.op], "manual_check")
  BY <1>6, SameTold DEF ConflictingDelivery
<1> QED
  BY <1>3, <1>4, <1>5, <1>6 DEF ApplyCallback

-----------------------------------------------------------------------------
(* The workers and the bank.                                               *)
Called == Holding \ {"send"}

\* The call of transition() a decision stands for.
CallOf(d) == [to |-> d.to, source |-> d.source, ext |-> d.ext]

WorkerTold(w) ==
    /\ pc[w] \in Called => calls[Op(w)] = 1
    /\ pc[w] = "reread" => record[Op(w)].status # "prepared"
    /\ pc[w] = "save_error" => Told(seen[w], calls[Op(w)])
    /\ pc[w] = "lookup" => decision[w].source = "bank_status_lookup"
    /\ pc[w] = "apply" =>
            /\ CallOf(decision[w]) \in ServiceCalls
            /\ decision[w].source \in Reported => calls[decision[w].op] = 1
            /\ Registered(decision[w].op) /\ record[decision[w].op].status \notin Early

BankAsked ==
    /\ \A p \in wire : calls[p.op] = 1
    /\ \A o \in Ops : bank[o] # "absent" => calls[o] = 1

ToldInv == RowsTold /\ (\A w \in Workers : WorkerTold(w)) /\ BankAsked

(* A step in which a worker learns nothing and decides nothing.            *)
Quiet(w) ==
    /\ pc'[w] \in Called => pc[w] \in Called /\ request'[w] = request[w]
    /\ pc'[w] = "reread" => pc[w] = "reread" /\ request'[w] = request[w]
    /\ pc'[w] = "save_error" => pc[w] = "save_error" /\ seen'[w] = seen[w]
    /\ pc'[w] \in DecisionSteps => pc'[w] = pc[w] /\ decision'[w] = decision[w]

CallsKept == \A o \in Ops : calls[o] = 1 => calls'[o] = 1

LEMMA CalledSends == Called \subseteq SendSteps /\ "reread" \in SendSteps /\ "save_error" \in Called
  BY DEF Called, Holding, SendSteps

LEMMA QuietWorker ==
    ASSUME IInv, TellOn, CallsKept, NEW w \in Workers, WorkerTold(w), Quiet(w)
    PROVE  WorkerTold(w)'
<1>1. ASSUME pc'[w] \in Called
      PROVE  calls'[Op(w)'] = 1 /\ calls[Op(w)] = 1 /\ Op(w)' = Op(w)
  <2>1. pc[w] \in Called /\ Op(w)' = Op(w) /\ Op(w) \in Ops
    BY <1>1, Sender, CalledSends DEF Quiet, Op
  <2> QED
    BY <2>1 DEF WorkerTold, CallsKept
<1>2. ASSUME pc'[w] = "reread"
      PROVE  record'[Op(w)'].status # "prepared"
  <2>1. /\ pc[w] = "reread" /\ Op(w)' = Op(w)
        /\ Op(w) \in Ops /\ Registered(Op(w))
    BY <1>2, Sender, CalledSends DEF Quiet, Op
  <2> QED
    BY <2>1 DEF WorkerTold, TellOn, RowTellsOn
<1>3. ASSUME pc'[w] = "save_error"
      PROVE  Told(seen'[w], calls'[Op(w)'])
  <2>1. Told(seen[w], calls[Op(w)]) /\ seen'[w] = seen[w]
    BY <1>3 DEF Quiet, WorkerTold
  <2> QED
    BY <1>1, <1>3, <2>1, CalledSends
<1>4. ASSUME pc'[w] = "lookup"
      PROVE  decision'[w].source = "bank_status_lookup"
  BY <1>4 DEF Quiet, WorkerTold, DecisionSteps
<1>5. ASSUME pc'[w] = "apply"
      PROVE  /\ CallOf(decision'[w]) \in ServiceCalls
             /\ decision'[w].source \in Reported => calls'[decision'[w].op] = 1
             /\ (Registered(decision[w].op) /\ record[decision[w].op].status \notin Early)'
  <2>1. pc[w] = "apply" /\ decision'[w] = decision[w]
    BY <1>5 DEF Quiet, DecisionSteps
  <2>2. decision[w].op \in Ops
    BY <2>1 DEF IInv, LocalTypeOK, DecisionSteps, Decision
  <2> QED
    BY <1>5, <2>1, <2>2 DEF WorkerTold, CallsKept, TellOn, RowTellsOn
<1> QED
  BY <1>1, <1>2, <1>3, <1>4, <1>5 DEF WorkerTold, Told, Story, Before, CallOf

LEMMA StepTold ==
    ASSUME IInv, ToldInv, TellOn, CallsKept, BankAsked',
           \A w \in Workers : Quiet(w) \/ WorkerTold(w)'
    PROVE  ToldInv'
<1>1. RowsTold'
  <2> SUFFICES ASSUME NEW o \in Ops, Registered(o)'
               PROVE  Told(record'[o], calls'[o])
    BY DEF RowsTold, Told, Story, Before
  <2>1. Told(record'[o], calls[o])
    BY DEF TellOn, RowTellsOn
  <2> QED
    BY <2>1 DEF Told, Story, Before, CallsKept
<1>2. \A w \in Workers : WorkerTold(w)'
  BY QuietWorker DEF ToldInv
<1> QED
  BY <1>1, <1>2 DEF ToldInv

LEMMA SameBank ==
    ASSUME ToldInv, UNCHANGED bankVars
    PROVE  CallsKept /\ BankAsked'
  BY DEF ToldInv, CallsKept, BankAsked, bankVars

LEMMA ReturnTold ==
    ASSUME IInv, ToldInv, TellOn, NEW w \in Workers, Return(w), UNCHANGED bankVars
    PROVE  ToldInv'
<1>1. \A v \in Workers :
        /\ v # w => /\ pc'[v] = pc[v] /\ request'[v] = request[v]
                    /\ seen'[v] = seen[v] /\ decision'[v] = decision[v]
        /\ pc'[w] = "idle"
  BY DEF Return, IInv, LocalTypeOK
<1>2. \A v \in Workers : Quiet(v)
  BY <1>1 DEF Quiet, Called, Holding, DecisionSteps
<1> QED
  BY <1>2, SameBank, StepTold

LEMMA GotoTold ==
    ASSUME IInv, ToldInv, TellOn, NEW w \in Workers,
           NEW step \in SendSteps \ {"save_error", "reread"}, Goto(w, step),
           step \in Called => pc[w] \in Called, UNCHANGED bankVars
    PROVE  ToldInv'
<1>1. \A v \in Workers :
        /\ v # w => pc'[v] = pc[v]
        /\ request'[v] = request[v] /\ seen'[v] = seen[v] /\ decision'[v] = decision[v]
        /\ pc'[w] = step
  BY DEF Goto, localVars, IInv, LocalTypeOK
<1>2. \A v \in Workers : Quiet(v)
  BY <1>1 DEF Quiet, SendSteps, DecisionSteps
<1> QED
  BY <1>2, SameBank, StepTold

(* Only worker w does something, and not to the bank.                      *)
LEMMA OneWorkerTold ==
    ASSUME IInv, ToldInv, TellOn, NEW w \in Workers, UNCHANGED bankVars, WorkerTold(w)',
           \A v \in Workers : v # w =>
                /\ pc'[v] = pc[v] /\ request'[v] = request[v]
                /\ seen'[v] = seen[v] /\ decision'[v] = decision[v]
    PROVE  ToldInv'
<1>1. \A v \in Workers : Quiet(v) \/ WorkerTold(v)'
  BY DEF Quiet
<1> QED
  BY <1>1, SameBank, StepTold

-----------------------------------------------------------------------------
(* The actions.                                                            *)

LEMMA StartTold ==
    ASSUME IInv, ToldInv, NEW ws \in Processes, Start(ws)
    PROVE  ToldInv'
<1>1. TellOn /\ UNCHANGED bankVars
  BY RecoverTold DEF Start, IInv, RInv, ToldInv
<1>2. \A w \in Workers : /\ pc'[w] # "idle" => pc'[w] = pc[w]
                         /\ request'[w] = request[w] /\ seen'[w] = seen[w]
                         /\ decision'[w] = decision[w]
  BY DEF Start, ComeUp, localVars, IInv, LocalTypeOK
<1>3. \A w \in Workers : Quiet(w)
  BY <1>2 DEF Quiet, Called, Holding, DecisionSteps
<1> QED
  BY <1>1, <1>3, SameBank, StepTold

LEMMA CrashTold ==
    ASSUME IInv, ToldInv, NEW ws \in Processes, Crash(ws)
    PROVE  ToldInv'
<1>1. TellOn /\ UNCHANGED bankVars
  BY SameTold DEF Crash, repositoryVars, ToldInv
<1>2. \A w \in Workers :
        pc'[w] # "down" => /\ pc'[w] = pc[w] /\ request'[w] = request[w]
                           /\ seen'[w] = seen[w] /\ decision'[w] = decision[w]
  BY DEF Crash, IInv, LocalTypeOK
<1>3. \A w \in Workers : Quiet(w)
  BY <1>2 DEF Quiet, Called, Holding, DecisionSteps
<1> QED
  BY <1>1, <1>3, SameBank, StepTold

LEMMA SubmitTold ==
    ASSUME IInv, ToldInv, NEW w \in Workers, NEW p \in Payments, Submit(w, p)
    PROVE  ToldInv'
<1>1. TellOn /\ UNCHANGED bankVars
  BY PaymentsAssumption, RegisterTold DEF Submit, IInv, RInv, ToldInv
<1>2. CASE Return(w)
  BY <1>1, <1>2, ReturnTold
<1>3. CASE ~Return(w)
  <2>1. PICK step \in {"transition", "claim"} :
            /\ pc' = [pc EXCEPT ![w] = step]
            /\ request' = [request EXCEPT ![w] = p]
            /\ UNCHANGED <<seen, decision>>
    BY <1>3 DEF Submit
  <2>2. /\ \A v \in Workers : v # w => pc'[v] = pc[v] /\ request'[v] = request[v]
        /\ pc'[w] = step /\ seen' = seen /\ decision' = decision
    BY <2>1 DEF IInv, LocalTypeOK
  <2>3. WorkerTold(w)'
    BY <2>2 DEF WorkerTold, Called, Holding
  <2> QED
    BY <1>1, <2>2, <2>3, OneWorkerTold
<1> QED
  BY <1>2, <1>3

LEMMA MoveToReadyTold ==
    ASSUME IInv, ToldInv, NEW w \in Workers, MoveToReady(w)
    PROVE  ToldInv'
<1>1. pc[w] = "transition" /\ pc[w] \in SendSteps /\ UNCHANGED bankVars
  BY DEF MoveToReady, SendSteps
<1>2. Op(w) \in Ops /\ record[Op(w)] \in IntegrationRecord
  BY <1>1, Sender
<1>3. CASE Transition(Op(w), "ready_to_send", "1c", NoExt, NoEvent) /\ Goto(w, "claim")
  <2>1. "1c" \notin Reported
    BY DEF Reported
  <2>2. TellOn
    BY <1>2, <1>3, <2>1, ServiceConstants, TransitionTells DEF IInv, RInv, ToldInv
  <2> QED
    BY <1>1, <1>3, <2>2, GotoTold DEF SendSteps, Called, Holding
<1>4. CASE /\ Refused(Op(w), "ready_to_send") /\ Goto(w, "reread")
           /\ UNCHANGED repositoryVars
  <2>1. TellOn /\ record' = record
    BY <1>4, SameTold DEF repositoryVars, ToldInv
  <2>2. record[Op(w)].status # "prepared"
    BY <1>4 DEF Refused, Permitted, CanMove, TRANSITIONS
  <2>3. /\ \A v \in Workers : v # w => pc'[v] = pc[v]
        /\ pc'[w] = "reread" /\ request' = request /\ seen' = seen /\ decision' = decision
    BY <1>4 DEF Goto, localVars, IInv, LocalTypeOK
  <2>4. WorkerTold(w)'
    BY <2>1, <2>2, <2>3 DEF WorkerTold, Called, Holding, Op
  <2> QED
    BY <1>1, <2>1, <2>3, <2>4, OneWorkerTold
<1> QED
  BY <1>3, <1>4 DEF MoveToReady

LEMMA RereadTold ==
    ASSUME IInv, ToldInv, NEW w \in Workers, Reread(w)
    PROVE  ToldInv'
<1>1. TellOn /\ UNCHANGED bankVars
  BY SameTold DEF Reread, repositoryVars, ToldInv
<1> QED
  BY <1>1, ReturnTold, GotoTold DEF Reread, SendSteps, Called, Holding

LEMMA ClaimToldStep ==
    ASSUME IInv, ToldInv, NEW w \in Workers, Claim(w)
    PROVE  ToldInv'
<1>1. pc[w] \in SendSteps /\ UNCHANGED bankVars
  BY DEF Claim, SendSteps
<1>2. CASE ClaimSend(Op(w)) /\ Goto(w, "send")
  <2>1. Op(w) \in Ops
    BY <1>1, Sender
  <2>2. record'[Op(w)].attempts = 1
    BY <1>2, <2>1, ClaimSendStep DEF IInv
  <2>3. TellOn
    BY <1>2, <2>1, <2>2, ClaimTold DEF IInv, RInv, ToldInv
  <2> QED
    BY <1>1, <1>2, <2>3, GotoTold DEF SendSteps, Called
<1>3. CASE Return(w) /\ UNCHANGED repositoryVars
  BY <1>1, <1>3, SameTold, ReturnTold DEF repositoryVars, ToldInv
<1> QED
  BY <1>2, <1>3 DEF Claim

LEMMA CallAdapterTold ==
    ASSUME IInv, ToldInv, NEW w \in Workers, CallAdapter(w)
    PROVE  ToldInv'
<1>1. pc[w] = "send" /\ pc[w] \in SendSteps /\ UNCHANGED repositoryVars
  BY DEF CallAdapter, SendSteps
<1>2. Op(w) \in Ops /\ request[w] \in Payments /\ calls[Op(w)] = 0
  BY <1>1, Sender DEF IInv, ClaimInv, NotYetCalled
<1>3. /\ \A o \in Ops : calls'[o] = IF o = Op(w) THEN 1 ELSE calls[o]
      /\ wire' = wire \cup {request[w]} /\ bank' = bank
  BY <1>2 DEF CallAdapter, IInv, BankTypeOK
<1>4. TellOn
  BY <1>1, SameTold DEF repositoryVars, ToldInv
<1>5. CallsKept
  BY <1>3 DEF CallsKept
<1>6. BankAsked'
  <2>1. \A p \in wire : p.op \in Ops
    BY PaymentsAssumption DEF IInv, BankTypeOK
  <2> QED
    BY <1>2, <1>3, <2>1 DEF BankAsked, ToldInv, Op
<1>7. /\ \A v \in Workers : v # w => pc'[v] = pc[v]
      /\ pc'[w] = "await" /\ request' = request /\ seen' = seen /\ decision' = decision
  BY DEF CallAdapter, Goto, localVars, IInv, LocalTypeOK
<1>8. WorkerTold(w)'
  BY <1>2, <1>3, <1>7 DEF WorkerTold, Op
<1>9. \A v \in Workers : Quiet(v) \/ WorkerTold(v)'
  BY <1>7, <1>8 DEF Quiet
<1> QED
  BY <1>4, <1>5, <1>6, <1>9, StepTold

LEMMA AnswerTold ==
    ASSUME IInv, ToldInv, NEW w \in Workers,
           AdapterReturns(w) \/ AdapterRaises(w) \/ ReadAnswer(w)
    PROVE  ToldInv'
<1>1. /\ TellOn /\ UNCHANGED bankVars /\ pc[w] \in Called
  BY SameTold
  DEF AdapterReturns, AdapterRaises, ReadAnswer, repositoryVars, ToldInv, Called, Holding
<1>2. \/ \E step \in {"read_answer", "read_error", "persist_sent"} : Goto(w, step)
      \/ Return(w)
  BY DEF AdapterReturns, AdapterRaises, ReadAnswer
<1> QED
  BY <1>1, <1>2, GotoTold, ReturnTold DEF SendSteps

LEMMA ReadAfterErrorTold ==
    ASSUME IInv, ToldInv, NEW w \in Workers, ReadAfterError(w)
    PROVE  ToldInv'
<1> DEFINE s == [record[Op(w)] EXCEPT !.error = "adapter_raised"]
<1>1. /\ pc[w] = "read_error" /\ pc[w] \in SendSteps /\ pc[w] \in Called
      /\ UNCHANGED bankVars /\ UNCHANGED repositoryVars
  BY DEF ReadAfterError, SendSteps, Called, Holding
<1>2. /\ Op(w) \in Ops /\ Registered(Op(w)) /\ record[Op(w)] \in IntegrationRecord
  BY <1>1, Sender
<1>3. Told(record[Op(w)], calls[Op(w)]) /\ calls[Op(w)] = 1
  BY <1>1, <1>2 DEF ToldInv, RowsTold, WorkerTold
<1>4. /\ s.attempts = record[Op(w)].attempts /\ s.status = record[Op(w)].status
      /\ s.audit = record[Op(w)].audit
  BY <1>2 DEF IntegrationRecord
<1>5. /\ \A v \in Workers : v # w => pc'[v] = pc[v] /\ seen'[v] = seen[v]
      /\ pc'[w] = "save_error" /\ seen'[w] = s
      /\ request' = request /\ decision' = decision
  BY DEF ReadAfterError, IInv, LocalTypeOK
<1> HIDE DEF s
<1>6. Told(s, calls[Op(w)])
  BY <1>3, <1>4 DEF Told, Story, Before
<1>7. Told(seen[w], calls[Op(w)])'
  BY <1>1, <1>5, <1>6 DEF Told, Story, Before, Op, bankVars
<1>8. WorkerTold(w)'
  BY <1>1, <1>3, <1>5, <1>7 DEF WorkerTold, Op, bankVars
<1>9. TellOn
  BY <1>1, SameTold DEF repositoryVars, ToldInv
<1> QED
  BY <1>1, <1>5, <1>8, <1>9, OneWorkerTold

(* The stale save puts back a row that told no less than it must.          *)
LEMMA SaveErrorTold ==
    ASSUME IInv, ToldInv, NEW w \in Workers, SaveError(w)
    PROVE  ToldInv'
<1> DEFINE r == [seen[w] EXCEPT !.terms = record[Op(w)].terms]
<1>1. pc[w] = "save_error" /\ pc[w] \in SendSteps /\ Return(w) /\ UNCHANGED bankVars
  BY DEF SaveError, SendSteps
<1>2. Op(w) \in Ops /\ Registered(Op(w)) /\ record[Op(w)] \in IntegrationRecord
  BY <1>1, Sender
<1>3. seen[w] \in IntegrationRecord /\ seen[w].attempts = 1 /\ ClaimState(seen[w])
  BY <1>1 DEF IInv, LocalTypeOK, ClaimInv, SnapshotsClaimed
<1>4. Told(seen[w], calls[Op(w)])
  BY <1>1 DEF ToldInv, WorkerTold
<1>5. /\ r \in IntegrationRecord /\ r.attempts = seen[w].attempts
      /\ r.status = seen[w].status /\ r.audit = seen[w].audit
  BY <1>2, <1>3 DEF IntegrationRecord
<1>6. record' = [record EXCEPT ![Op(w)] = r]
  BY DEF SaveError, Save
<1> HIDE DEF r
<1>7. Told(r, calls[Op(w)]) /\ r.status \notin Early
  BY <1>3, <1>4, <1>5 DEF Told, Story, Before, ClaimState, Early
<1>8. TellOn
  BY <1>2, <1>5, <1>6, <1>7, WriteTold DEF IInv, RInv, ToldInv, Early
<1> QED
  BY <1>1, <1>8, ReturnTold

LEMMA PersistSentTold ==
    ASSUME IInv, ToldInv, NEW w \in Workers, PersistSent(w)
    PROVE  ToldInv'
<1>1. /\ pc[w] \in SendSteps /\ pc[w] \in Called /\ Return(w) /\ UNCHANGED bankVars
      /\ Transition(Op(w), "sent", "bank_adapter", ExtIdOf[Op(w)], NoEvent)
  BY DEF PersistSent, SendSteps, Called, Holding
<1>2. Op(w) \in Ops /\ calls[Op(w)] = 1
  BY <1>1, Sender DEF ToldInv, WorkerTold
<1>3. TellOn
  BY <1>1, <1>2, ServiceConstants, TransitionTells DEF IInv, RInv, ToldInv
<1> QED
  BY <1>1, <1>3, ReturnTold

LEMMA DecidedTold ==
    ASSUME IInv, ToldInv, NEW w \in Workers,
           NEW step \in DecisionSteps, NEW d,
           pc' = [pc EXCEPT ![w] = step],
           decision' = [decision EXCEPT ![w] = d],
           UNCHANGED <<repositoryVars, request, seen, bankVars>>,
           step = "lookup" => d.source = "bank_status_lookup",
           step = "apply" => /\ CallOf(d) \in ServiceCalls
                             /\ d.source \in Reported => calls[d.op] = 1
                             /\ Registered(d.op) /\ record[d.op].status \notin Early
    PROVE  ToldInv'
<1>1. /\ \A v \in Workers : v # w => pc'[v] = pc[v] /\ decision'[v] = decision[v]
      /\ pc'[w] = step /\ decision'[w] = d
  BY DEF IInv, LocalTypeOK
<1>2. TellOn
  BY SameTold DEF repositoryVars, ToldInv
<1>3. calls' = calls /\ record' = record
  BY DEF bankVars, repositoryVars
<1>4. step \in {"lookup", "apply"}
  BY DEF DecisionSteps
<1>5. WorkerTold(w)'
  BY <1>1, <1>3, <1>4 DEF WorkerTold, Called, Holding, CallOf, Registered
<1> QED
  BY <1>1, <1>2, <1>5, OneWorkerTold

LEMMA ReconcileTold ==
    ASSUME IInv, ToldInv, NEW w \in Workers, NEW o \in Ops, Reconcile(w, o)
    PROVE  ToldInv'
<1> DEFINE d == [op |-> o, to |-> "outcome_unknown",
                 source |-> "bank_status_lookup", ext |-> NoExt]
<1>1. "lookup" \in DecisionSteps /\ d.source = "bank_status_lookup"
  BY DEF DecisionSteps
<1>2. /\ pc' = [pc EXCEPT ![w] = "lookup"] /\ decision' = [decision EXCEPT ![w] = d]
      /\ UNCHANGED <<repositoryVars, request, seen, bankVars>>
  BY DEF Reconcile
<1> HIDE DEF d
<1> QED
  BY <1>1, <1>2, DecidedTold

LEMMA LookupTold ==
    ASSUME IInv, ToldInv, NEW w \in Workers, Lookup(w)
    PROVE  ToldInv'
<1> DEFINE o == decision[w].op
           d == [decision[w] EXCEPT !.to = bank[o], !.ext = ExtIdOf[o]]
<1>1. pc[w] = "lookup" /\ bank[o] \in BankReports
  BY DEF Lookup
<1>2. decision[w] \in Decision /\ decision[w].source = "bank_status_lookup"
  BY <1>1 DEF IInv, LocalTypeOK, DecisionSteps, ToldInv, WorkerTold
<1>3. o \in Ops /\ ExtIdOf[o] \in ExtIds
  BY <1>2, ExtIdOfAssumption DEF Decision
<1>4. calls[o] = 1
  BY <1>1, <1>3 DEF ToldInv, BankAsked, BankReports
<1>5. /\ d.op = o /\ d.source = "bank_status_lookup"
      /\ d.to = bank[o] /\ d.ext = ExtIdOf[o]
  BY <1>2 DEF Decision
<1>6. /\ CallOf(d) \in ServiceCalls
      /\ Registered(d.op) /\ record[d.op].status \notin Early
  <2>1. CallOf(d) \in ServiceCalls
    BY <1>1, <1>3, <1>5 DEF CallOf, ServiceCalls
  <2>2. Registered(o) /\ record[o].attempts = 1
    BY <1>3, <1>4 DEF IInv, ClaimInv, CallsClaimed
  <2> QED
    BY <1>3, <1>5, <2>1, <2>2 DEF IInv, RInv, ClaimedOnce, Early
<1>7. /\ pc' = [pc EXCEPT ![w] = "apply"] /\ decision' = [decision EXCEPT ![w] = d]
      /\ UNCHANGED <<repositoryVars, request, seen, bankVars>> /\ "apply" \in DecisionSteps
  BY DEF Lookup, DecisionSteps
<1> HIDE DEF d
<1> QED
  BY <1>4, <1>5, <1>6, <1>7, DecidedTold

LEMMA ResolveTold ==
    ASSUME IInv, ToldInv, NEW w \in Workers, NEW o \in Ops, NEW to \in Resolutions, Resolve(w, o, to)
    PROVE  ToldInv'
<1> DEFINE d == [op |-> o, to |-> to, source |-> "manual_resolution", ext |-> NoExt]
<1>1. d.source \notin Reported /\ "apply" \in DecisionSteps
  BY DEF Reported, DecisionSteps
<1>2. /\ CallOf(d) \in ServiceCalls
      /\ Registered(d.op) /\ record[d.op].status \notin Early
  BY DEF CallOf, ServiceCalls, Resolve, Early
<1>3. /\ pc' = [pc EXCEPT ![w] = "apply"] /\ decision' = [decision EXCEPT ![w] = d]
      /\ UNCHANGED <<repositoryVars, request, seen, bankVars>>
  BY DEF Resolve
<1> HIDE DEF d
<1> QED
  BY <1>1, <1>2, <1>3, DecidedTold

LEMMA ApplyDecisionTold ==
    ASSUME IInv, ToldInv, NEW w \in Workers, ApplyDecision(w)
    PROVE  ToldInv'
<1> DEFINE d == decision[w]
<1>1. /\ pc[w] = "apply" /\ Return(w) /\ UNCHANGED bankVars
      /\ Transition(d.op, d.to, d.source, d.ext, NoEvent)
  BY DEF ApplyDecision
<1>2. d \in Decision
  BY <1>1 DEF IInv, LocalTypeOK, DecisionSteps
<1>3. /\ d.op \in Ops /\ d.to \in Status /\ d.source \in Sources /\ d.ext \in MaybeExt
  BY <1>2 DEF Decision, Sources
<1>4. CallOf(d) \in ServiceCalls /\ (d.source \in Reported => calls[d.op] = 1)
  BY <1>1 DEF ToldInv, WorkerTold
<1>5. record[d.op].status # "ready_to_send"
  BY <1>1 DEF ToldInv, WorkerTold, Early
<1>6. TellOn
  BY <1>1, <1>3, <1>4, <1>5, TransitionTells DEF IInv, RInv, ToldInv
<1> QED
  BY <1>1, <1>6, ReturnTold

LEMMA WorkerStepTold ==
    ASSUME IInv, ToldInv, NEW w \in Workers, Asked(w) \/ Continue(w)
    PROVE  ToldInv'
<1>1. CASE Asked(w)
  BY <1>1, SubmitTold, ReconcileTold, ResolveTold DEF Asked
<1>2. CASE GiveUp(w)
  BY <1>2, SameTold, ReturnTold DEF GiveUp, repositoryVars, ToldInv
<1>3. CASE Continue(w) /\ ~GiveUp(w)
  BY <1>3, MoveToReadyTold, RereadTold, ClaimToldStep, CallAdapterTold, AnswerTold,
     ReadAfterErrorTold, SaveErrorTold, PersistSentTold, LookupTold, ApplyDecisionTold
  DEF Continue
<1> QED
  BY <1>1, <1>2, <1>3

LEMMA OutsideTold ==
    ASSUME IInv, ToldInv, TellOn, UNCHANGED <<pc, localVars>>, calls' = calls, BankAsked'
    PROVE  ToldInv'
<1>1. \A w \in Workers : Quiet(w)
  BY DEF Quiet, localVars
<1>2. CallsKept
  BY DEF CallsKept
<1> QED
  BY <1>1, <1>2, StepTold

LEMMA EnvironmentTold ==
    ASSUME IInv, ToldInv, Environment
    PROVE  ToldInv'
<1>1. ASSUME NEW c \in Callbacks, ReceiveCallback(c)
      PROVE  ToldInv'
  <2>1. UNCHANGED <<pc, localVars>> /\ UNCHANGED bankVars /\ calls' = calls
    BY <1>1 DEF ReceiveCallback, bankVars
  <2>2. TellOn
    BY <1>1, CallbackTold DEF ReceiveCallback, IInv, RInv, ToldInv
  <2> QED
    BY <2>1, <2>2, SameBank, OutsideTold
<1>2. ASSUME NEW p \in Payments, BankCommit(p) \/ LoseRequest(p)
      PROVE  ToldInv'
  <2>1. /\ UNCHANGED repositoryVars /\ UNCHANGED <<pc, localVars>> /\ calls' = calls
        /\ wire' \subseteq wire /\ p \in wire
    BY <1>2 DEF BankCommit, LoseRequest
  <2>2. \A o \in Ops : o # p.op => bank'[o] = bank[o]
    BY <1>2 DEF BankCommit, LoseRequest, IInv, BankTypeOK
  <2>3. BankAsked'
    BY <2>1, <2>2 DEF BankAsked, ToldInv
  <2> QED
    BY <2>1, <2>3, SameTold, OutsideTold DEF repositoryVars, ToldInv
<1>3. ASSUME NEW o \in Ops, BankMoves(o)
      PROVE  ToldInv'
  <2>1. /\ UNCHANGED repositoryVars /\ UNCHANGED <<pc, localVars>> /\ calls' = calls
        /\ wire' = wire /\ bank[o] # "absent"
        /\ \A q \in Ops : q # o => bank'[q] = bank[q]
    BY <1>3 DEF BankMoves, IInv, BankTypeOK
  <2>2. BankAsked'
    BY <2>1 DEF BankAsked, ToldInv
  <2> QED
    BY <2>1, <2>2, SameTold, OutsideTold DEF repositoryVars, ToldInv
<1> QED
  BY <1>1, <1>2, <1>3 DEF Environment

LEMMA NextTold ==
    ASSUME IInv, ToldInv, [Next]_vars
    PROVE  ToldInv'
<1>1. CASE Next
  BY <1>1, StartTold, CrashTold, WorkerStepTold, EnvironmentTold DEF Next
<1>2. CASE UNCHANGED vars
  <2>1. /\ record' = record /\ UNCHANGED <<pc, localVars>> /\ UNCHANGED bankVars
        /\ calls' = calls
    BY <1>2 DEF vars, localVars, bankVars
  <2> QED
    BY <2>1, SameTold, SameBank, OutsideTold DEF ToldInv
<1> QED
  BY <1>1, <1>2

LEMMA InitTold ==
    ASSUME Init
    PROVE  ToldInv
  BY DEF Init, RepositoryInit, ToldInv, RowsTold, WorkerTold, BankAsked, Registered,
         Called, Holding

(* What is told is true in every reachable state.                          *)
THEOREM Telling == Spec => [](IInv /\ ToldInv)
<1>1. Init => IInv /\ ToldInv
  BY InitInv, InitTold
<1>2. IInv /\ ToldInv /\ [Next]_vars => (IInv /\ ToldInv)'
  BY NextInv, NextTold
<1> QED
  BY <1>1, <1>2, PTL DEF Spec

-----------------------------------------------------------------------------
(* A payment that may have left is claimed, and its audit trail says so,   *)
(* whatever crashes, restarts, callbacks and stale saves come after.       *)
THEOREM SendsAreClaimed == Spec => []SentIsClaimed
<1>1. ASSUME IInv, ToldInv, NEW o \in Ops, calls[o] > 0
      PROVE  /\ Registered(o)
             /\ record[o].attempts = 1
             /\ record[o].status \notin {"prepared", "ready_to_send"}
             /\ \E i \in DOMAIN record[o].audit : record[o].audit[i].source = "send-claim"
  <2>1. calls[o] = 1
    BY <1>1 DEF IInv, ClaimInv, CallsClaimed
  <2>2. Registered(o) /\ record[o].attempts = 1
    BY <1>1, <2>1 DEF IInv, ClaimInv, CallsClaimed
  <2> QED
    BY <1>1, <2>2 DEF IInv, RInv, ClaimedOnce, ToldInv, RowsTold, Told
<1>2. IInv /\ ToldInv => SentIsClaimed
  BY <1>1 DEF SentIsClaimed
<1> QED
  BY <1>2, Telling, PTL

(* The audit trail tells how every payment came to its status, through     *)
(* every crash and restart: a stale save puts back an earlier row with its *)
(* earlier trail, so that what is lost is lost from both.                  *)
THEOREM ServiceAuditTells == Spec => []AuditTellsStatus
<1>1. ToldInv => AuditTellsStatus
  BY DEF ToldInv, RowsTold, Told, Story, Before, AuditTellsStatus
<1> QED
  BY <1>1, Telling, PTL

(* After its own transition was refused, prepare() cannot find the         *)
(* operation prepared: nobody takes a step back, not even a stale save.    *)
THEOREM RefusalsMeanProgress == Spec => []RefusedIsNotPrepared
<1>1. ToldInv => RefusedIsNotPrepared
  BY DEF ToldInv, WorkerTold, RefusedIsNotPrepared
<1> QED
  BY <1>1, Telling, PTL

(* Nothing is attributed to the bank that was not asked: answers and       *)
(* lookups stand only in the trail of an operation that was sent, and with *)
(* callbacks that do not claim, only a claimed operation speaks of a call. *)
THEOREM EvidenceIsEarned ==
    ASSUME HonestCallbacks
    PROVE  Spec => []EvidenceNeedsSend
<1>1. ToldInv => EvidenceNeedsSend
  BY DEF ToldInv, RowsTold, Told, Reported, EvidenceNeedsSend
<1> QED
  BY <1>1, Telling, PTL

-----------------------------------------------------------------------------
(* The service over an adapter that always answers is a client of the      *)
(* repository: all it does to the tables are calls of its operations.      *)
NeverRaised == \A w \in Workers : pc[w] \notin {"read_error", "save_error"}

LEMMA NothingRaises ==
    ASSUME ~AdapterMayRaise, IInv, NeverRaised, [Next]_vars
    PROVE  NeverRaised'
<1>1. ASSUME NEW w \in Workers, NEW step \in Steps \ {"read_error", "save_error"},
             pc' = [pc EXCEPT ![w] = step]
      PROVE  NeverRaised'
  BY <1>1 DEF NeverRaised, IInv, LocalTypeOK
<1>2. ASSUME NEW w \in Workers, Return(w)
      PROVE  NeverRaised'
  BY <1>2 DEF NeverRaised, IInv, LocalTypeOK, Return
<1>3. CASE \E ws \in Processes : Start(ws) \/ Crash(ws)
  BY <1>3 DEF NeverRaised, Start, ComeUp, Crash
<1>4. ASSUME NEW w \in Workers, Asked(w)
      PROVE  NeverRaised'
  BY <1>1, <1>2, <1>4
  DEF Asked, Submit, Reconcile, Resolve, Steps, SendSteps, DecisionSteps
<1>5. ASSUME NEW w \in Workers, Continue(w)
      PROVE  NeverRaised'
  <2>1. ~AdapterRaises(w) /\ ~ReadAfterError(w) /\ ~SaveError(w)
    BY DEF AdapterRaises, ReadAfterError, SaveError, NeverRaised
  <2> QED
    BY <1>1, <1>2, <1>5, <2>1
    DEF Continue, MoveToReady, Reread, Claim, CallAdapter, AdapterReturns, ReadAnswer,
        PersistSent, Lookup, ApplyDecision, GiveUp, Goto, Steps, SendSteps, DecisionSteps
<1>6. CASE Environment \/ UNCHANGED vars
  <2>1. pc' = pc
    BY <1>6 DEF Environment, ReceiveCallback, BankCommit, LoseRequest, BankMoves, vars
  <2> QED
    BY <2>1 DEF NeverRaised
<1> QED
  BY <1>3, <1>4, <1>5, <1>6 DEF Next

LEMMA ServiceCallCalls ==
    ASSUME NEW o \in Ops, NEW call \in ServiceCalls,
           Transition(o, call.to, call.source, call.ext, NoEvent)
    PROVE  RepositoryNext
  BY ServiceCallsAssumption DEF RepositoryNext

(* All the service does to the tables is a call of the repository, or the  *)
(* stale save.                                                             *)
LEMMA CallOrSave ==
    ASSUME IInv, ToldInv, [Next]_vars, \A w \in Workers : ~SaveError(w)
    PROVE  [RepositoryNext]_repositoryVars
<1>1. CASE \E ws \in Processes : Start(ws) \/ Crash(ws)
  BY <1>1 DEF Start, Crash, RepositoryNext
<1>2. ASSUME NEW w \in Workers, Asked(w)
      PROVE  [RepositoryNext]_repositoryVars
  <2>1. CASE \E p \in Payments : Submit(w, p)
    BY <2>1, PaymentsAssumption DEF Submit, RepositoryNext
  <2> QED
    BY <1>2, <2>1 DEF Asked, Reconcile, Resolve
<1>3. ASSUME NEW w \in Workers, MoveToReady(w)
      PROVE  [RepositoryNext]_repositoryVars
  <2> DEFINE call == [to |-> "ready_to_send", source |-> "1c", ext |-> NoExt]
  <2>1. call \in ServiceCalls
    BY DEF ServiceCalls
  <2>2. Op(w) \in Ops
    BY <1>3, Sender DEF MoveToReady, SendSteps
  <2> QED
    BY <1>3, <2>1, <2>2, ServiceCallCalls DEF MoveToReady
<1>4. ASSUME NEW w \in Workers, Claim(w)
      PROVE  [RepositoryNext]_repositoryVars
  <2>1. Op(w) \in Ops
    BY <1>4, Sender DEF Claim, SendSteps
  <2> QED
    BY <1>4, <2>1 DEF Claim, RepositoryNext
<1>5. ASSUME NEW w \in Workers, PersistSent(w)
      PROVE  [RepositoryNext]_repositoryVars
  <2> DEFINE call == [to |-> "sent", source |-> "bank_adapter", ext |-> ExtIdOf[Op(w)]]
  <2>1. Op(w) \in Ops
    BY <1>5, Sender DEF PersistSent, SendSteps
  <2>2. call \in ServiceCalls
    BY <2>1, ExtIdOfAssumption DEF ServiceCalls
  <2>3. Transition(Op(w), call.to, call.source, call.ext, NoEvent)
    BY <1>5 DEF PersistSent
  <2> HIDE DEF call
  <2> QED
    BY <2>1, <2>2, <2>3, ServiceCallCalls
<1>6. ASSUME NEW w \in Workers, ApplyDecision(w)
      PROVE  [RepositoryNext]_repositoryVars
  <2> DEFINE call == CallOf(decision[w])
  <2>1. pc[w] = "apply" /\ decision[w].op \in Ops
    BY <1>6 DEF ApplyDecision, IInv, LocalTypeOK, DecisionSteps, Decision
  <2>2. call \in ServiceCalls
    BY <2>1 DEF ToldInv, WorkerTold
  <2>3. Transition(decision[w].op, call.to, call.source, call.ext, NoEvent)
    BY <1>6 DEF ApplyDecision, CallOf
  <2> HIDE DEF call
  <2> QED
    BY <2>1, <2>2, <2>3, ServiceCallCalls
<1>7. ASSUME NEW w \in Workers, Continue(w)
      PROVE  [RepositoryNext]_repositoryVars
  <2>1. ~SaveError(w)
    OBVIOUS
  <2>2. CASE MoveToReady(w) \/ Claim(w) \/ PersistSent(w) \/ ApplyDecision(w)
    BY <1>3, <1>4, <1>5, <1>6, <2>2
  <2>3. CASE \/ Reread(w) \/ CallAdapter(w) \/ AdapterReturns(w) \/ AdapterRaises(w)
             \/ ReadAfterError(w) \/ ReadAnswer(w) \/ Lookup(w) \/ GiveUp(w)
    BY <2>3
    DEF Reread, CallAdapter, AdapterReturns, AdapterRaises, ReadAfterError, ReadAnswer,
        Lookup, GiveUp
  <2> QED
    BY <1>7, <2>1, <2>2, <2>3 DEF Continue
<1>8. CASE Environment
  BY <1>8 DEF Environment, ReceiveCallback, BankCommit, LoseRequest, BankMoves, RepositoryNext
<1>9. CASE UNCHANGED vars
  BY <1>9 DEF vars, repositoryVars
<1> QED
  BY <1>1, <1>2, <1>7, <1>8, <1>9 DEF Next

LEMMA ServiceStepsRepository ==
    ASSUME IInv, ToldInv, NeverRaised, [Next]_vars
    PROVE  [RepositoryNext]_repositoryVars
  BY CallOrSave DEF SaveError, NeverRaised

LEMMA CalmInvariant ==
    ASSUME ~AdapterMayRaise
    PROVE  Spec => [](IInv /\ ToldInv /\ NeverRaised)
<1>1. Init => IInv /\ ToldInv /\ NeverRaised
  <2>1. Init => NeverRaised
    BY DEF Init, NeverRaised
  <2> QED
    BY <2>1, InitInv, InitTold
<1>2. IInv /\ ToldInv /\ NeverRaised /\ [Next]_vars => (IInv /\ ToldInv /\ NeverRaised)'
  BY NextInv, NextTold, NothingRaises
<1> QED
  BY <1>1, <1>2, PTL DEF Spec

(* Over an adapter that always answers, the service is a client of the     *)
(* repository, and never does to the tables what no operation of the       *)
(* repository does.                                                        *)
THEOREM ServiceImplementsRepository ==
    ASSUME ~AdapterMayRaise
    PROVE  Spec => RepositorySpec
<1>1. Init => RepositoryInit
  BY DEF Init
<1>2. IInv /\ ToldInv /\ NeverRaised /\ [Next]_vars => [RepositoryNext]_repositoryVars
  BY ServiceStepsRepository
<1> QED
  BY <1>1, <1>2, CalmInvariant, PTL DEF Spec, RepositorySpec

(* No conflicting payload is accepted in silence by a running service,     *)
(* with claims, answers, recoveries and lookups under way.                 *)
THEOREM ServiceConflictsAreSeen ==
    ASSUME ~AdapterMayRaise
    PROVE  Spec => []ConflictIsNeverSilent
  BY ServiceImplementsRepository, RepositoryConflictsAreSeen, PTL

-----------------------------------------------------------------------------
(* The lifecycle.                                                          *)
PhaseMoves == {<<"unknown", "waiting">>, <<"waiting", "review">>, <<"working", "review">>,
               <<"working", "closed">>, <<"review", "closed">>}

LEMMA LifecycleStutters ==
    ASSUME \A o \in Ops : Phase(o)' = Phase(o), Authorised' = Authorised
    PROVE  UNCHANGED Lifecycle!vars
  BY DEF Lifecycle!vars

LEMMA LifecycleMoves ==
    ASSUME NEW o \in Ops, \A q \in Ops \ {o} : Phase(q)' = Phase(q),
           Authorised' = Authorised,
           Phase(o)' = Phase(o) \/ <<Phase(o), Phase(o)'>> \in PhaseMoves
    PROVE  [Lifecycle!Next]_Lifecycle!vars
<1>1. CASE Phase(o)' = Phase(o)
  BY <1>1, LifecycleStutters
<1>2. CASE <<Phase(o), Phase(o)'>> \in PhaseMoves
  <2> DEFINE p == [q \in Ops |-> Phase(q)]
  <2>1. p' = [p EXCEPT ![o] = Phase(o)']
    OBVIOUS
  <2>2. p[o] = Phase(o)
    OBVIOUS
  <2>3. Lifecycle!Register(o) \/ Lifecycle!Review(o) \/ Lifecycle!Close(o)
    BY <1>2, <2>1, <2>2 DEF Lifecycle!Register, Lifecycle!Review, Lifecycle!Close, PhaseMoves
  <2> QED
    BY <2>3 DEF Lifecycle!Next
<1> QED
  BY <1>1, <1>2

LEMMA OpenStatuses ==
    {"prepared", "ready_to_send", "sending", "outcome_unknown"} \cap Terminal = {}
  BY DEF Terminal, TRANSITIONS

\* Neither a row nor a call to the bank changes.
LEMMA SameLifecycle ==
    ASSUME record' = record, calls' = calls
    PROVE  [Lifecycle!Next]_Lifecycle!vars
<1>1. \A o \in Ops : Phase(o)' = Phase(o)
  BY DEF Phase, Registered
<1>2. Authorised' = Authorised
  BY DEF Authorised, Registered
<1> QED
  BY <1>1, <1>2, LifecycleStutters

\* A row moves along the table, but is not claimed.
LEMMA RowLifecycle ==
    ASSUME RepositoryTypeOK, NEW o \in Ops, Registered(o),
           NEW r \in IntegrationRecord, r.attempts = record[o].attempts,
           Permitted(record[o], r.status),
           r.status = "sending" => record[o].status = "sending",
           record' = [record EXCEPT ![o] = r], calls' = calls
    PROVE  [Lifecycle!Next]_Lifecycle!vars
<1>1. \A q \in Ops : record'[q] = IF q = o THEN r ELSE record[q]
  BY DEF RepositoryTypeOK
<1>2. record[o].status \in Status /\ r.status \in Status /\ r # NoRecord
  BY RowType, NoRecordIsNone DEF IntegrationRecord
<1>3. \A q \in Ops \ {o} : Phase(q)' = Phase(q)
  BY <1>1 DEF Phase, Registered
<1>4. Authorised' = Authorised
  BY <1>1, <1>2 DEF Authorised, Registered
<1>5. Phase(o)' = Phase(o) \/ <<Phase(o), Phase(o)'>> \in PhaseMoves
  <2> DEFINE s == record[o].status
             t == r.status
  <2>1. /\ Registered(o)' /\ record'[o] = r
    BY <1>1, <1>2 DEF Registered
  <2>2. t = s \/ t \in TRANSITIONS[s]
    BY DEF Permitted, CanMove
  <2>3. Terminal = {"executed", "rejected", "returned"}
    BY DEF Terminal, TRANSITIONS, Status
  <2> QED
    BY <1>2, <2>1, <2>2, <2>3 DEF Phase, PhaseMoves, TRANSITIONS, Status
<1> QED
  BY <1>3, <1>4, <1>5, LifecycleMoves

LEMMA RegisterLifecycle ==
    ASSUME IInv, NEW o \in Ops, NEW terms \in Terms, Register(o, terms), calls' = calls
    PROVE  [Lifecycle!Next]_Lifecycle!vars
<1> USE DEF IInv, RInv
<1>1. CASE Registered(o)
  <2>1. record' = record
    BY <1>1 DEF Register, RowAfterRegister, RepositoryTypeOK
  <2> QED
    BY <2>1, SameLifecycle
<1>2. CASE ~Registered(o)
  <2> DEFINE r == NewRecord(terms)
  <2>1. r \in IntegrationRecord /\ r.status = "prepared" /\ r.attempts = 0 /\ r # NoRecord
    BY NewRecordFields, NoRecordIsNone
  <2>2. \A q \in Ops : record'[q] = IF q = o THEN r ELSE record[q]
    BY <1>2 DEF Register, RowAfterRegister, RepositoryTypeOK
  <2> HIDE DEF r
  <2>3. \A q \in Ops \ {o} : Phase(q)' = Phase(q)
    BY <2>2 DEF Phase, Registered
  <2>4. Authorised' = Authorised
    BY <1>2, <2>1, <2>2 DEF Authorised, Registered
  <2>5. Phase(o) = "unknown" /\ Phase(o)' = "waiting"
    BY <1>2, <2>1, <2>2, OpenStatuses DEF Phase, Registered
  <2> QED
    BY <2>3, <2>4, <2>5, LifecycleMoves DEF PhaseMoves
<1> QED
  BY <1>1, <1>2

LEMMA TransitionLifecycle ==
    ASSUME IInv, NEW o \in Ops, NEW to \in Status, NEW source \in Sources,
           to = "sending" => record[o].status # "ready_to_send",
           NEW ext \in MaybeExt, Transition(o, to, source, ext, NoEvent), calls' = calls
    PROVE  [Lifecycle!Next]_Lifecycle!vars
<1> DEFINE r == TransitionRecord(record[o], to, source, ext, NoEvent)
<1>1. Registered(o) /\ Permitted(record[o], to) /\ record' = [record EXCEPT ![o] = r]
  BY DEF Transition
<1>2. record[o] \in IntegrationRecord
  BY <1>1, RowType DEF IInv, RInv
<1>3. r \in IntegrationRecord /\ r.status = to /\ r.attempts = record[o].attempts
  BY <1>2, TransitionRecordFields
<1> HIDE DEF r
<1>4. to = "sending" => record[o].status = "sending"
  BY <1>1, <1>2 DEF Permitted, CanMove, TRANSITIONS, IntegrationRecord, Status
<1> QED
  BY <1>1, <1>3, <1>4, RowLifecycle DEF IInv, RInv

LEMMA ClaimLifecycle ==
    ASSUME IInv, NEW o \in Ops, ClaimSend(o), calls' = calls
    PROVE  [Lifecycle!Next]_Lifecycle!vars
<1> DEFINE p == [q \in Ops |-> Phase(q)]
           c == Attempted(record[o])
           r == Moved(c, "sending", "send-claim", NoExt, NoEvent)
<1>1. /\ Registered(o) /\ record[o].attempts = 0
      /\ Registered(o)' /\ record'[o].attempts = 1
  BY ClaimSendStep DEF IInv
<1>2. record[o] \in IntegrationRecord /\ record[o].status = "ready_to_send"
  BY <1>1, RowType DEF IInv, RInv, ClaimSend, Claimable
<1>3. c \in IntegrationRecord
  BY <1>2 DEF Attempted, IntegrationRecord
<1>4. /\ "sending" \in Status /\ "send-claim" \in Sources /\ NoExt \in MaybeExt
  BY DEF Status, Sources, MaybeExt
<1> HIDE DEF c
<1>5. r.status = "sending"
  BY <1>3, <1>4, MovedFields
<1>6. \A q \in Ops : record'[q] = IF q = o THEN r ELSE record[q]
  BY DEF ClaimSend, c, IInv, RInv, RepositoryTypeOK
<1> HIDE DEF r
<1>7. calls[o] = 0
  BY <1>1 DEF IInv, ClaimInv, CallsClaimed
<1>8. Phase(o) = "waiting" /\ Phase(o)' = "working"
  BY <1>1, <1>2, <1>5, <1>6, OpenStatuses DEF Phase
<1>9. \A q \in Ops \ {o} : Phase(q)' = Phase(q)
  BY <1>6 DEF Phase, Registered
<1>10. p' = [p EXCEPT ![o] = "working"] /\ p[o] = "waiting"
  BY <1>8, <1>9
<1>11. Authorised' = Authorised \cup {o}
  BY <1>1, <1>6, <1>7 DEF Authorised, Registered
<1>12. Lifecycle!Authorise(o)
  BY <1>10, <1>11 DEF Lifecycle!Authorise
<1> QED
  BY <1>12 DEF Lifecycle!Next

LEMMA CallLifecycle ==
    ASSUME IInv, NEW w \in Workers, CallAdapter(w)
    PROVE  [Lifecycle!Next]_Lifecycle!vars
<1>1. pc[w] = "send" /\ pc[w] \in SendSteps /\ pc[w] \in Holding /\ record' = record
  BY DEF CallAdapter, SendSteps, Holding, repositoryVars
<1>2. /\ Op(w) \in Ops /\ Registered(Op(w))
      /\ record[Op(w)].attempts = 1 /\ calls[Op(w)] = 0
  BY <1>1, Sender DEF IInv, ClaimInv, HoldersClaimed, NotYetCalled
<1>3. \A o \in Ops : calls'[o] = IF o = Op(w) THEN 1 ELSE calls[o]
  BY <1>2 DEF CallAdapter, IInv, BankTypeOK
<1>4. Op(w) \in Authorised /\ Authorised' = Authorised \ {Op(w)}
  BY <1>1, <1>2, <1>3 DEF Authorised, Registered
<1>5. \A o \in Ops : Phase(o)' = Phase(o)
  BY <1>1 DEF Phase, Registered
<1>6. Lifecycle!Send(Op(w))
  BY <1>4, <1>5 DEF Lifecycle!Send
<1> QED
  BY <1>2, <1>6 DEF Lifecycle!Next

LEMMA RecoverLifecycle ==
    ASSUME IInv, RecoverSending, calls' = calls
    PROVE  [Lifecycle!Next]_Lifecycle!vars
<1> DEFINE n(o) == Moved(record[o], "outcome_unknown", "startup_recovery", NoExt, NoEvent)
<1>1. \A o \in Ops : record'[o] = IF Sending(o) THEN n(o) ELSE record[o]
  BY DEF RecoverSending
<1>2. ASSUME NEW o \in Ops, Sending(o)
      PROVE  /\ n(o) # NoRecord /\ n(o).status = "outcome_unknown"
             /\ n(o).attempts = record[o].attempts
  <2>1. record[o] \in IntegrationRecord
    BY <1>2, RowType DEF Sending, IInv, RInv
  <2>2. /\ "outcome_unknown" \in Status /\ "startup_recovery" \in Sources
        /\ NoExt \in MaybeExt
    BY DEF Status, Sources, MaybeExt
  <2> QED
    BY <2>1, <2>2, MovedFields, NoRecordIsNone
<1> HIDE DEF n
<1>3. \A o \in Ops : Phase(o)' = Phase(o)
  BY <1>1, <1>2, OpenStatuses DEF Phase, Sending, Registered
<1>4. Authorised' = Authorised
  BY <1>1, <1>2 DEF Authorised, Sending, Registered
<1> QED
  BY <1>3, <1>4, LifecycleStutters

LEMMA CallbackLifecycle ==
    ASSUME HonestCallbacks, IInv, NEW c \in Callbacks, ApplyCallback(c), calls' = calls
    PROVE  [Lifecycle!Next]_Lifecycle!vars
<1> USE DEF IInv, RInv
<1>1. /\ c.event \in Events /\ c.op \in Ops
      /\ c.status \in Status /\ c.ext \in MaybeExt
      /\ {"callback", "callback_conflict"} \subseteq Sources
  BY CallbackType DEF Sources
<1>2. Registered(c.op) /\ record[c.op] \in IntegrationRecord
  BY <1>1, RowType DEF ApplyCallback
<1>3. CASE FirstDelivery(c)
  <2> DEFINE t == TransitionRecord(record[c.op], c.status, "callback", c.ext, c.event)
             r == Received(t, c.event)
  <2>1. Permitted(record[c.op], c.status) /\ record' = [record EXCEPT ![c.op] = r]
    BY <1>3 DEF FirstDelivery
  <2>2. t \in IntegrationRecord /\ t.status = c.status /\ t.attempts = record[c.op].attempts
    BY <1>1, <1>2, TransitionRecordFields
  <2> HIDE DEF t
  <2>3. r \in IntegrationRecord /\ r.status = t.status /\ r.attempts = t.attempts
    BY <1>1, <2>2 DEF Received, IntegrationRecord
  <2> HIDE DEF r
  <2> QED
    BY <1>1, <1>2, <2>1, <2>2, <2>3, RowLifecycle DEF HonestCallbacks
<1>4. CASE Redelivery(c)
  BY <1>4, SameLifecycle DEF Redelivery, repositoryVars
<1>5. CASE ConflictingDelivery(c) /\ CanMove(record[c.op], "manual_check")
  <2> DEFINE r == Moved(record[c.op], "manual_check", "callback_conflict", c.ext, c.event)
  <2>1. record' = [record EXCEPT ![c.op] = r]
    BY <1>5 DEF ConflictingDelivery
  <2>2. "manual_check" \in Status
    BY DEF Status
  <2>3. r \in IntegrationRecord /\ r.status = "manual_check" /\ r.attempts = record[c.op].attempts
    BY <1>1, <1>2, <2>2, MovedFields
  <2> HIDE DEF r
  <2> QED
    BY <1>1, <1>2, <1>5, <2>1, <2>3, RowLifecycle DEF Permitted
<1>6. CASE ConflictingDelivery(c) /\ ~CanMove(record[c.op], "manual_check")
  BY <1>6, SameLifecycle DEF ConflictingDelivery
<1> QED
  BY <1>3, <1>4, <1>5, <1>6 DEF ApplyCallback

LEMMA WorkerLifecycle ==
    ASSUME IInv, ToldInv, NeverRaised, NEW w \in Workers, Asked(w) \/ Continue(w)
    PROVE  [Lifecycle!Next]_Lifecycle!vars
<1>1. CASE \E p \in Payments : Submit(w, p)
  BY <1>1, PaymentsAssumption, RegisterLifecycle DEF Submit, bankVars
<1>2. CASE MoveToReady(w)
  <2>1. Op(w) \in Ops /\ calls' = calls
    BY <1>2, Sender DEF MoveToReady, SendSteps, bankVars
  <2> QED
    BY <1>2, <2>1, ServiceConstants, TransitionLifecycle, SameLifecycle
    DEF MoveToReady, repositoryVars
<1>3. CASE Claim(w)
  <2>1. Op(w) \in Ops /\ calls' = calls
    BY <1>3, Sender DEF Claim, SendSteps, bankVars
  <2> QED
    BY <1>3, <2>1, ClaimLifecycle, SameLifecycle DEF Claim, repositoryVars
<1>4. CASE CallAdapter(w)
  BY <1>4, CallLifecycle
<1>5. CASE PersistSent(w)
  <2>1. Op(w) \in Ops /\ calls' = calls
    BY <1>5, Sender DEF PersistSent, SendSteps, bankVars
  <2> QED
    BY <1>5, <2>1, ServiceConstants, TransitionLifecycle DEF PersistSent
<1>6. CASE ApplyDecision(w)
  <2> DEFINE d == decision[w]
  <2>1. /\ pc[w] = "apply" /\ calls' = calls
        /\ Transition(d.op, d.to, d.source, d.ext, NoEvent)
    BY <1>6 DEF ApplyDecision, bankVars
  <2>2. d \in Decision
    BY <2>1 DEF IInv, LocalTypeOK, DecisionSteps
  <2>3. d.op \in Ops /\ d.to \in Status /\ d.source \in Sources /\ d.ext \in MaybeExt
    BY <2>2 DEF Decision, Sources
  <2>4. record[d.op].status # "ready_to_send"
    BY <2>1 DEF ToldInv, WorkerTold, Early
  <2> QED
    BY <2>1, <2>3, <2>4, TransitionLifecycle
<1>7. CASE \/ \E o \in Ops : Reconcile(w, o)
           \/ \E o \in Ops, to \in Resolutions : Resolve(w, o, to)
           \/ Reread(w) \/ AdapterReturns(w) \/ AdapterRaises(w)
           \/ ReadAfterError(w) \/ ReadAnswer(w) \/ Lookup(w) \/ GiveUp(w)
  <2>1. UNCHANGED repositoryVars /\ UNCHANGED bankVars
    BY <1>7
    DEF Reconcile, Resolve, Reread, AdapterReturns, AdapterRaises, ReadAfterError,
        ReadAnswer, Lookup, GiveUp
  <2> QED
    BY <2>1, SameLifecycle DEF repositoryVars, bankVars
<1>8. ~SaveError(w)
  BY DEF SaveError, NeverRaised
<1> QED
  BY <1>1, <1>2, <1>3, <1>4, <1>5, <1>6, <1>7, <1>8 DEF Asked, Continue

LEMMA NextLifecycle ==
    ASSUME HonestCallbacks, IInv, ToldInv, NeverRaised, [Next]_vars
    PROVE  [Lifecycle!Next]_Lifecycle!vars
<1>1. CASE \E ws \in Processes : Start(ws)
  BY <1>1, RecoverLifecycle DEF Start, bankVars
<1>2. CASE \E ws \in Processes : Crash(ws)
  BY <1>2, SameLifecycle DEF Crash, repositoryVars, bankVars
<1>3. CASE \E w \in Workers : Asked(w) \/ Continue(w)
  BY <1>3, WorkerLifecycle
<1>4. CASE \E c \in Callbacks : ReceiveCallback(c)
  BY <1>4, CallbackLifecycle DEF ReceiveCallback, bankVars
<1>5. CASE \/ \E p \in Payments : BankCommit(p) \/ LoseRequest(p)
           \/ \E o \in Ops : BankMoves(o)
           \/ UNCHANGED vars
  <2>1. record' = record /\ calls' = calls
    BY <1>5 DEF BankCommit, LoseRequest, BankMoves, vars, repositoryVars
  <2> QED
    BY <2>1, SameLifecycle
<1> QED
  BY <1>1, <1>2, <1>3, <1>4, <1>5 DEF Next, Environment

(* The service keeps the lifecycle it promises: an authorisation is spent  *)
(* on one call, uncertainty never goes back to waiting, and what is closed *)
(* stays closed, for any workers, crashes, restarts and honest callbacks.  *)
THEOREM ServiceKeepsLifecycle ==
    ASSUME ~AdapterMayRaise, HonestCallbacks
    PROVE  Spec => LifecycleSpec
<1>1. Init => Lifecycle!Init
  BY DEF Init, RepositoryInit, Lifecycle!Init, Phase, Authorised, Registered
<1>2. IInv /\ ToldInv /\ NeverRaised /\ [Next]_vars => [Lifecycle!Next]_Lifecycle!vars
  BY NextLifecycle
<1> QED
  BY <1>1, <1>2, CalmInvariant, PTL DEF Spec, LifecycleSpec, Lifecycle!Spec

-----------------------------------------------------------------------------
(* A person's decision. Between the check and the transition the operation *)
(* may be closed, but nothing takes it out of review in another way.       *)
DecidedInReview ==
    \A w \in Workers :
        (pc[w] = "apply" /\ decision[w].source = "manual_resolution")
            => Reviewed(decision[w].op)

(* The row of o got a new audit event in the name of a person.             *)
Resolved(o) ==
    /\ record'[o] # record[o]
    /\ Len(record'[o].audit) > Len(record[o].audit)
    /\ record'[o].audit[Len(record'[o].audit)].source = "manual_resolution"

LEMMA MovedLast ==
    ASSUME NEW r \in IntegrationRecord, NEW to \in Status, NEW source \in Sources,
           NEW ext \in MaybeExt, NEW event \in Events \cup {NoEvent}
    PROVE  LET m == Moved(r, to, source, ext, event)
           IN  m.audit[Len(m.audit)].source = source
<1> DEFINE a == [old |-> r.status, new |-> to, source |-> source, ext |-> ext, event |-> event]
           m == Moved(r, to, source, ext, event)
<1>1. a \in AuditEvent /\ a.source = source
  BY DEF AuditEvent, IntegrationRecord
<1>2. m.audit = Append(r.audit, a)
  BY DEF Moved, IntegrationRecord
<1> HIDE DEF m, a
<1>3. m.audit[Len(m.audit)] = a
  BY <1>1, <1>2, AuditGrows
<1> QED
  BY <1>1, <1>3 DEF m

LEMMA NobodyResolves ==
    ASSUME record' = record, NEW o \in Ops
    PROVE  ~Resolved(o)
  BY DEF Resolved

LEMMA WriteResolves ==
    ASSUME RepositoryTypeOK, NEW o \in Ops, NEW r,
           \/ r.audit = record[o].audit
           \/ r.audit[Len(r.audit)].source # "manual_resolution",
           record[o] \in IntegrationRecord,
           record' = [record EXCEPT ![o] = r], NEW q \in Ops
    PROVE  ~Resolved(q)
<1>1. record'[q] = IF q = o THEN r ELSE record[q]
  BY DEF RepositoryTypeOK
<1>2. record[o].audit \in Seq(AuditEvent)
  BY DEF IntegrationRecord
<1>3. CASE q = o /\ r.audit = record[o].audit
  BY <1>1, <1>2, <1>3 DEF Resolved
<1>4. CASE q = o /\ r.audit[Len(r.audit)].source # "manual_resolution"
  BY <1>1, <1>4 DEF Resolved
<1>5. CASE q # o
  BY <1>1, <1>5 DEF Resolved
<1> QED
  BY <1>3, <1>4, <1>5

LEMMA TransitionResolves ==
    ASSUME RepositoryTypeOK, NEW o \in Ops, NEW to \in Status, NEW source \in Sources,
           NEW ext \in MaybeExt, Transition(o, to, source, ext, NoEvent),
           NEW q \in Ops, Resolved(q)
    PROVE  q = o /\ source = "manual_resolution" /\ to \in TRANSITIONS[record[o].status]
<1> DEFINE r == TransitionRecord(record[o], to, source, ext, NoEvent)
<1>1. /\ Registered(o) /\ record[o] \in IntegrationRecord /\ Permitted(record[o], to)
      /\ record' = [record EXCEPT ![o] = r]
  BY RowType DEF Transition
<1>2. q = o
  BY <1>1 DEF RepositoryTypeOK, Resolved
<1>3. to # record[o].status
  <2>1. CASE to = record[o].status
    <3>1. r = record[o]
      BY <2>1 DEF TransitionRecord
    <3> HIDE DEF r
    <3> QED
      BY <1>1, <3>1, WriteResolves
  <2> QED
    BY <2>1
<1>4. source = "manual_resolution"
  <2>1. CASE source # "manual_resolution"
    <3>1. r.audit[Len(r.audit)].source = source
      BY <1>1, <1>3, MovedLast DEF TransitionRecord
    <3> HIDE DEF r
    <3> QED
      BY <1>1, <2>1, <3>1, WriteResolves
  <2> QED
    BY <2>1
<1> QED
  BY <1>1, <1>2, <1>3, <1>4 DEF Permitted, CanMove

LEMMA ClaimResolves ==
    ASSUME RepositoryTypeOK, NEW o \in Ops, ClaimSend(o), NEW q \in Ops
    PROVE  ~Resolved(q)
<1> DEFINE c == Attempted(record[o])
           r == Moved(c, "sending", "send-claim", NoExt, NoEvent)
<1>1. record[o] \in IntegrationRecord /\ record' = [record EXCEPT ![o] = r]
  BY RowType DEF ClaimSend, Claimable
<1>2. c \in IntegrationRecord
  BY <1>1 DEF Attempted, IntegrationRecord
<1>3. /\ "sending" \in Status /\ "send-claim" \in Sources /\ NoExt \in MaybeExt
  BY DEF Status, Sources, MaybeExt
<1> HIDE DEF c
<1>4. r.audit[Len(r.audit)].source = "send-claim"
  BY <1>2, <1>3, MovedLast
<1> HIDE DEF r
<1> QED
  BY <1>1, <1>4, WriteResolves

LEMMA RecoverResolves ==
    ASSUME RepositoryTypeOK, RecoverSending, NEW o \in Ops
    PROVE  ~Resolved(o)
<1> DEFINE r == Moved(record[o], "outcome_unknown", "startup_recovery", NoExt, NoEvent)
<1>1. record'[o] = IF Sending(o) THEN r ELSE record[o]
  BY DEF RecoverSending
<1>2. CASE Sending(o)
  <2>1. /\ record[o] \in IntegrationRecord
        /\ "outcome_unknown" \in Status /\ "startup_recovery" \in Sources
        /\ NoExt \in MaybeExt
    BY <1>2, RowType DEF Sending, Status, Sources, MaybeExt
  <2>2. r.audit[Len(r.audit)].source = "startup_recovery"
    BY <2>1, MovedLast
  <2> HIDE DEF r
  <2> QED
    BY <1>1, <1>2, <2>2 DEF Resolved
<1>3. CASE ~Sending(o)
  BY <1>1, <1>3 DEF Resolved
<1> QED
  BY <1>2, <1>3

LEMMA CallbackResolves ==
    ASSUME RepositoryTypeOK, NEW c \in Callbacks, ApplyCallback(c), NEW o \in Ops
    PROVE  ~Resolved(o)
<1>1. /\ c.event \in Events /\ c.op \in Ops
      /\ c.status \in Status /\ c.ext \in MaybeExt
      /\ {"callback", "callback_conflict"} \subseteq Sources
  BY CallbackType DEF Sources
<1>2. record[c.op] \in IntegrationRecord
  BY <1>1, RowType DEF ApplyCallback
<1>3. CASE FirstDelivery(c)
  <2> DEFINE t == TransitionRecord(record[c.op], c.status, "callback", c.ext, c.event)
             r == Received(t, c.event)
  <2>1. record' = [record EXCEPT ![c.op] = r]
    BY <1>3 DEF FirstDelivery
  <2>2. t \in IntegrationRecord
    BY <1>1, <1>2, TransitionRecordFields
  <2>3. \/ t.audit = record[c.op].audit
        \/ t.audit[Len(t.audit)].source = "callback"
    BY <1>1, <1>2, MovedLast DEF TransitionRecord
  <2> HIDE DEF t
  <2>4. r.audit = t.audit
    BY <2>2 DEF Received, IntegrationRecord
  <2> HIDE DEF r
  <2> QED
    BY <1>1, <1>2, <2>1, <2>3, <2>4, WriteResolves
<1>4. CASE Redelivery(c)
  BY <1>4, NobodyResolves DEF Redelivery, repositoryVars
<1>5. CASE ConflictingDelivery(c) /\ CanMove(record[c.op], "manual_check")
  <2> DEFINE r == Moved(record[c.op], "manual_check", "callback_conflict", c.ext, c.event)
  <2>1. record' = [record EXCEPT ![c.op] = r]
    BY <1>5 DEF ConflictingDelivery
  <2>2. "manual_check" \in Status
    BY DEF Status
  <2>3. r.audit[Len(r.audit)].source = "callback_conflict"
    BY <1>1, <1>2, <2>2, MovedLast
  <2> HIDE DEF r
  <2> QED
    BY <1>1, <1>2, <2>1, <2>3, WriteResolves
<1>6. CASE ConflictingDelivery(c) /\ ~CanMove(record[c.op], "manual_check")
  BY <1>6, NobodyResolves DEF ConflictingDelivery
<1> QED
  BY <1>3, <1>4, <1>5, <1>6 DEF ApplyCallback

(* Only ApplyDecision writes in the name of a person, and only in review.  *)
LEMMA ResolvedInReview ==
    ASSUME IInv, NeverRaised, DecidedInReview, [Next]_vars,
           NEW o \in Ops, Registered(o), Resolved(o)
    PROVE  record[o].status = "manual_check"
<1>0. RepositoryTypeOK
  BY DEF IInv, RInv
<1>1. CASE \E ws \in Processes : Start(ws) \/ Crash(ws)
  BY <1>0, <1>1, RecoverResolves, NobodyResolves DEF Start, Crash, repositoryVars
<1>2. ASSUME NEW w \in Workers, NEW p \in Payments, Submit(w, p)
      PROVE  FALSE
  <2>1. p.op \in Ops
    BY PaymentsAssumption
  <2>2. record'[o] = record[o]
    BY <1>0, <1>2, <2>1 DEF Submit, Register, RowAfterRegister, RepositoryTypeOK
  <2> QED
    BY <2>2 DEF Resolved
<1>3. ASSUME NEW w \in Workers, MoveToReady(w)
      PROVE  FALSE
  <2>1. Op(w) \in Ops
    BY <1>3, Sender DEF MoveToReady, SendSteps
  <2> QED
    BY <1>0, <1>3, <2>1, ServiceConstants, TransitionResolves, NobodyResolves
    DEF MoveToReady, repositoryVars
<1>4. ASSUME NEW w \in Workers, Claim(w)
      PROVE  FALSE
  <2>1. Op(w) \in Ops
    BY <1>4, Sender DEF Claim, SendSteps
  <2> QED
    BY <1>0, <1>4, <2>1, ClaimResolves, NobodyResolves DEF Claim, repositoryVars
<1>5. ASSUME NEW w \in Workers, PersistSent(w)
      PROVE  FALSE
  <2>1. Op(w) \in Ops
    BY <1>5, Sender DEF PersistSent, SendSteps
  <2> QED
    BY <1>0, <1>5, <2>1, ServiceConstants, TransitionResolves DEF PersistSent
<1>6. ASSUME NEW w \in Workers, ApplyDecision(w)
      PROVE  record[o].status = "manual_check"
  <2> DEFINE d == decision[w]
  <2>1. pc[w] = "apply" /\ Transition(d.op, d.to, d.source, d.ext, NoEvent)
    BY <1>6 DEF ApplyDecision
  <2>2. d \in Decision
    BY <2>1 DEF IInv, LocalTypeOK, DecisionSteps
  <2>3. d.op \in Ops /\ d.to \in Status /\ d.source \in Sources /\ d.ext \in MaybeExt
    BY <2>2 DEF Decision, Sources
  <2>4. o = d.op /\ d.source = "manual_resolution" /\ d.to \in TRANSITIONS[record[o].status]
    BY <1>0, <2>1, <2>3, TransitionResolves
  <2>5. record[o].status \in Terminal \cup {"manual_check"}
    BY <2>1, <2>4 DEF DecidedInReview, Reviewed
  <2> QED
    BY <2>4, <2>5 DEF Terminal
<1>7. CASE \E w \in Workers :
           \/ \E q \in Ops : Reconcile(w, q)
           \/ \E q \in Ops, to \in Resolutions : Resolve(w, q, to)
           \/ Reread(w) \/ CallAdapter(w) \/ AdapterReturns(w) \/ AdapterRaises(w)
           \/ ReadAfterError(w) \/ ReadAnswer(w) \/ Lookup(w) \/ GiveUp(w)
  <2>1. record' = record
    BY <1>7
    DEF Reconcile, Resolve, Reread, CallAdapter, AdapterReturns, AdapterRaises,
        ReadAfterError, ReadAnswer, Lookup, GiveUp, repositoryVars
  <2> QED
    BY <2>1, NobodyResolves
<1>8. CASE \E w \in Workers : Asked(w) \/ Continue(w)
  BY <1>2, <1>3, <1>4, <1>5, <1>6, <1>7, <1>8 DEF Asked, Continue, SaveError, NeverRaised
<1>9. CASE Environment \/ UNCHANGED vars
  <2>1. CASE \E c \in Callbacks : ReceiveCallback(c)
    BY <1>0, <2>1, CallbackResolves DEF ReceiveCallback
  <2>2. CASE ~(\E c \in Callbacks : ReceiveCallback(c))
    <3>1. record' = record
      BY <1>9, <2>2 DEF Environment, BankCommit, LoseRequest, BankMoves, repositoryVars, vars
    <3> QED
      BY <3>1, NobodyResolves
  <2> QED
    BY <2>1, <2>2
<1> QED
  BY <1>1, <1>8, <1>9 DEF Next

(* A worker that is about to apply a decision was so before, or has just   *)
(* looked it up, or was just told it by a person.                          *)
LEMMA WhoDecides ==
    ASSUME IInv, [Next]_vars, NEW w \in Workers, pc'[w] = "apply",
           decision'[w].source = "manual_resolution"
    PROVE  \/ pc[w] = "apply" /\ decision'[w] = decision[w]
           \/ pc[w] = "lookup" /\ decision[w].source = "manual_resolution"
           \/ \E o \in Ops, to \in Resolutions : Resolve(w, o, to) /\ decision'[w].op = o
<1> DEFINE Same == pc[w] = "apply" /\ decision'[w] = decision[w]
<1>1. CASE \E ws \in Processes : Start(ws) \/ Crash(ws)
  BY <1>1 DEF Start, ComeUp, Crash, localVars, IInv, LocalTypeOK
<1>2. ASSUME NEW v \in Workers, Return(v)
      PROVE  Same
  BY <1>2 DEF Return, IInv, LocalTypeOK
<1>3. ASSUME NEW v \in Workers, NEW step \in Steps \ {"apply"},
             pc' = [pc EXCEPT ![v] = step],
             decision' = decision \/ \E d : decision' = [decision EXCEPT ![v] = d]
      PROVE  Same
  BY <1>3 DEF IInv, LocalTypeOK
<1>4. ASSUME NEW v \in Workers, Lookup(v)
      PROVE  Same \/ (pc[w] = "lookup" /\ decision[w].source = "manual_resolution")
  <2>1. CASE v = w
    <3>1. pc[w] = "lookup" /\ decision[w] \in Decision
      BY <1>4, <2>1 DEF Lookup, IInv, LocalTypeOK, DecisionSteps
    <3>2. decision'[w].source = decision[w].source
      BY <1>4, <2>1, <3>1 DEF Lookup, IInv, LocalTypeOK, Decision
    <3> QED
      BY <3>1, <3>2
  <2>2. CASE v # w
    BY <1>4, <2>2 DEF Lookup, IInv, LocalTypeOK
  <2> QED
    BY <2>1, <2>2
<1>5. ASSUME NEW v \in Workers, NEW o \in Ops, NEW to \in Resolutions, Resolve(v, o, to)
      PROVE  Same \/ (Resolve(w, o, to) /\ decision'[w].op = o)
  BY <1>5 DEF Resolve, IInv, LocalTypeOK
<1>6. ASSUME NEW v \in Workers, Asked(v)
      PROVE  Same \/ \E o \in Ops, to \in Resolutions : Resolve(w, o, to) /\ decision'[w].op = o
  BY <1>2, <1>3, <1>5, <1>6
  DEF Asked, Submit, Reconcile, Steps, SendSteps, DecisionSteps
<1>7. ASSUME NEW v \in Workers, Continue(v), ~Lookup(v)
      PROVE  Same
  BY <1>2, <1>3, <1>7
  DEF Continue, MoveToReady, Reread, Claim, CallAdapter, AdapterReturns, AdapterRaises,
      ReadAfterError, SaveError, ReadAnswer, PersistSent, ApplyDecision, GiveUp,
      Goto, localVars, Steps, SendSteps, DecisionSteps
<1>8. CASE Environment \/ UNCHANGED vars
  BY <1>8
  DEF Environment, ReceiveCallback, BankCommit, LoseRequest, BankMoves, localVars, vars
<1> QED
  BY <1>1, <1>4, <1>6, <1>7, <1>8 DEF Next

LEMMA ReviewOutlastsDecision ==
    ASSUME IInv, ToldInv, NeverRaised, HistoryInv, DecidedInReview, [Next]_vars
    PROVE  DecidedInReview'
<1>1. RowsCarriedOn /\ RepositoryTypeOK
  BY ServiceStepsRepository, AgreedAreReceived, StepCarriesOn DEF HistoryInv, RInv
<1>2. \A o \in Ops : Reviewed(o) => Reviewed(o)'
  BY <1>1, ReviewLasts
<1> SUFFICES ASSUME NEW w \in Workers, pc'[w] = "apply",
                    decision'[w].source = "manual_resolution"
             PROVE  \E o \in Ops : Reviewed(o)' /\ decision'[w].op = o
  BY DEF DecidedInReview, Reviewed, Registered
<1>3. CASE pc[w] = "apply" /\ decision'[w] = decision[w]
  <2>1. Reviewed(decision[w].op) /\ decision[w].op \in Ops
    BY <1>3 DEF DecidedInReview, IInv, LocalTypeOK, DecisionSteps, Decision
  <2> QED
    BY <1>2, <1>3, <2>1
<1>4. CASE pc[w] = "lookup" /\ decision[w].source = "manual_resolution"
  BY <1>4 DEF ToldInv, WorkerTold
<1>5. ASSUME NEW o \in Ops, NEW to \in Resolutions, Resolve(w, o, to), decision'[w].op = o
      PROVE  Reviewed(o)'
  BY <1>5 DEF Resolve, Reviewed, Registered, repositoryVars
<1> QED
  BY <1>3, <1>4, <1>5, WhoDecides

(* A person's decision is written only while the operation is waiting for  *)
(* one: resolve_manual checks and writes in two transactions, and nothing  *)
(* that comes between leaves review for anything but a final status, which *)
(* refuses the decision.                                                   *)
THEOREM DecisionsOnlyInReview ==
    ASSUME ~AdapterMayRaise
    PROVE  Spec => ManualDecisionOnlyInReview
<1> DEFINE Decided ==
        \A o \in Ops : Registered(o) /\ record'[o] # record[o] =>
            LET new == record'[o].audit
            IN  (Len(new) > Len(record[o].audit) /\ new[Len(new)].source = "manual_resolution")
                    => record[o].status = "manual_check"
           J == IInv /\ ToldInv /\ NeverRaised
<1>1. RepositorySpec => []HistoryInv
  <2>1. RepositoryInit => HistoryInv
    BY HistoryStart
  <2>2. HistoryInv /\ [RepositoryNext]_repositoryVars => HistoryInv'
    BY HistoryStep
  <2> QED
    BY <2>1, <2>2, PTL DEF RepositorySpec
<1>2. Spec => [](J /\ HistoryInv)
  BY <1>1, CalmInvariant, ServiceImplementsRepository, PTL
<1>3. Init => DecidedInReview
  BY DEF Init, DecidedInReview
<1>4. J /\ HistoryInv /\ DecidedInReview /\ [Next]_vars => DecidedInReview'
  BY ReviewOutlastsDecision
<1>5. J /\ DecidedInReview /\ [Next]_vars => [Decided]_vars
  BY ResolvedInReview DEF Resolved
<1> HIDE DEF Decided, J
<1>6. Spec => [][Decided]_vars
  BY <1>2, <1>3, <1>4, <1>5, PTL DEF Spec
<1> QED
  BY <1>6 DEF ManualDecisionOnlyInReview, Decided

-----------------------------------------------------------------------------
(* What is on the wire.                                                    *)

\* Nothing, not even a stale save, changes the terms of an operation.
LEMMA RowsSurvive ==
    ASSUME IInv, ToldInv, [Next]_vars
    PROVE  RowsKept
<1>1. CASE \A w \in Workers : ~SaveError(w)
  BY <1>1, CallOrSave, RepositoryStep, UnchangedStep DEF IInv
<1>2. ASSUME NEW w \in Workers, SaveError(w)
      PROVE  RowsKept
  <2> DEFINE r == [seen[w] EXCEPT !.terms = record[Op(w)].terms]
  <2>1. pc[w] = "save_error" /\ pc[w] \in SendSteps
    BY <1>2 DEF SaveError, SendSteps
  <2>2. Op(w) \in Ops /\ Registered(Op(w)) /\ record[Op(w)] \in IntegrationRecord
    BY <2>1, Sender
  <2>3. seen[w] \in IntegrationRecord /\ seen[w].attempts = 1
    BY <2>1 DEF IInv, LocalTypeOK, ClaimInv, SnapshotsClaimed
  <2>4. /\ r \in IntegrationRecord /\ r.attempts = 1
        /\ r.terms = record[Op(w)].terms
    BY <2>2, <2>3 DEF IntegrationRecord
  <2>5. record' = [record EXCEPT ![Op(w)] = r]
    BY <1>2 DEF SaveError, Save
  <2> HIDE DEF r
  <2> QED
    BY <2>2, <2>4, <2>5, NoRecordIsNone
    DEF RowsKept, RowKept, Registered, IInv, RInv, RepositoryTypeOK
<1> QED
  BY <1>1, <1>2

\* A worker past its call was so before, or has just made it.
LEMMA CalledFrom ==
    ASSUME IInv, [Next]_vars, NEW w \in Workers, pc'[w] \in Called
    PROVE  /\ request'[w] = request[w]
           /\ pc[w] \in Called \/ CallAdapter(w)
<1> DEFINE Same == request'[w] = request[w] /\ pc[w] \in Called
<1>1. CASE \E ws \in Processes : Start(ws) \/ Crash(ws)
  BY <1>1 DEF Start, ComeUp, Crash, localVars, IInv, LocalTypeOK, Called, Holding
<1>2. ASSUME NEW v \in Workers, Return(v)
      PROVE  Same
  BY <1>2 DEF Return, IInv, LocalTypeOK, Called, Holding
<1>3. ASSUME NEW v \in Workers, NEW step,
             step \notin Called \/ pc[v] \in Called,
             pc' = [pc EXCEPT ![v] = step],
             \/ request' = request
             \/ step \notin Called /\ \E p : request' = [request EXCEPT ![v] = p]
      PROVE  Same
  BY <1>3 DEF IInv, LocalTypeOK
<1>4. ASSUME NEW v \in Workers, CallAdapter(v)
      PROVE  Same \/ (request'[w] = request[w] /\ CallAdapter(w))
  BY <1>4 DEF CallAdapter, Goto, localVars, IInv, LocalTypeOK
<1>5. ASSUME NEW v \in Workers, Asked(v)
      PROVE  Same
  BY <1>2, <1>3, <1>5 DEF Asked, Submit, Reconcile, Resolve, Called, Holding
<1>6. ASSUME NEW v \in Workers, Continue(v), ~CallAdapter(v)
      PROVE  Same
  BY <1>2, <1>3, <1>6
  DEF Continue, MoveToReady, Reread, Claim, AdapterReturns, AdapterRaises,
      ReadAfterError, SaveError, ReadAnswer, PersistSent, Lookup, ApplyDecision, GiveUp,
      Goto, localVars, Called, Holding
<1>7. CASE Environment \/ UNCHANGED vars
  BY <1>7
  DEF Environment, ReceiveCallback, BankCommit, LoseRequest, BankMoves, localVars, vars
<1> QED
  BY <1>1, <1>4, <1>5, <1>6, <1>7 DEF Next

\* A worker that holds an answer did so before, or its call has just returned
\* with the bank knowing the operation.
Answered == {"read_answer", "persist_sent"}

LEMMA AnsweredFrom ==
    ASSUME IInv, [Next]_vars, NEW w \in Workers, pc'[w] \in Answered
    PROVE  /\ request'[w] = request[w]
           /\ pc[w] \in Answered \/ (pc[w] = "await" /\ bank[Op(w)] # "absent")
<1> DEFINE Same == request'[w] = request[w] /\ pc[w] \in Answered
<1>1. CASE \E ws \in Processes : Start(ws) \/ Crash(ws)
  BY <1>1 DEF Start, ComeUp, Crash, localVars, IInv, LocalTypeOK, Answered
<1>2. ASSUME NEW v \in Workers, Return(v)
      PROVE  Same
  BY <1>2 DEF Return, IInv, LocalTypeOK, Answered
<1>3. ASSUME NEW v \in Workers, NEW step,
             step \notin Answered \/ pc[v] \in Answered,
             pc' = [pc EXCEPT ![v] = step],
             \/ request' = request
             \/ step \notin Answered /\ \E p : request' = [request EXCEPT ![v] = p]
      PROVE  Same
  BY <1>3 DEF IInv, LocalTypeOK
<1>4. ASSUME NEW v \in Workers, AdapterReturns(v)
      PROVE  \/ Same
             \/ request'[w] = request[w] /\ pc[w] = "await" /\ bank[Op(w)] # "absent"
  BY <1>4 DEF AdapterReturns, Goto, localVars, IInv, LocalTypeOK
<1>5. ASSUME NEW v \in Workers, Asked(v)
      PROVE  Same
  BY <1>2, <1>3, <1>5 DEF Asked, Submit, Reconcile, Resolve, Answered
<1>6. ASSUME NEW v \in Workers, Continue(v), ~AdapterReturns(v)
      PROVE  Same
  BY <1>2, <1>3, <1>6
  DEF Continue, MoveToReady, Reread, Claim, CallAdapter, AdapterRaises,
      ReadAfterError, SaveError, ReadAnswer, PersistSent, Lookup, ApplyDecision, GiveUp,
      Goto, localVars, Answered
<1>7. CASE Environment \/ UNCHANGED vars
  BY <1>7
  DEF Environment, ReceiveCallback, BankCommit, LoseRequest, BankMoves, localVars, vars
<1> QED
  BY <1>1, <1>4, <1>5, <1>6, <1>7 DEF Next

\* Who touches wire and bank.
LEMMA WireSteps ==
    ASSUME [Next]_vars
    PROVE  \/ UNCHANGED <<wire, bank>>
           \/ \E v \in Workers : CallAdapter(v)
           \/ \E p \in Payments : BankCommit(p) \/ LoseRequest(p)
           \/ \E o \in Ops : BankMoves(o)
<1>1. CASE \E ws \in Processes : Start(ws) \/ Crash(ws)
  BY <1>1 DEF Start, Crash, bankVars
<1>2. CASE \E v \in Workers : Asked(v)
  BY <1>2 DEF Asked, Submit, Reconcile, Resolve, bankVars
<1>3. CASE \E v \in Workers : Continue(v)
  BY <1>3
  DEF Continue, MoveToReady, Reread, Claim, AdapterReturns, AdapterRaises,
      ReadAfterError, SaveError, ReadAnswer, PersistSent, Lookup, ApplyDecision, GiveUp,
      bankVars
<1>4. CASE Environment \/ UNCHANGED vars
  BY <1>4 DEF Environment, ReceiveCallback, bankVars, vars
<1> QED
  BY <1>1, <1>2, <1>3, <1>4 DEF Next

\* While a worker is in its call, what travels for the operation is its own.
WireIsOwn ==
    \A w \in Workers, p \in wire :
        (pc[w] \in Called /\ p.op = Op(w)) => p = request[w]

LEMMA WireStaysOwn ==
    ASSUME IInv, ToldInv, WireIsOwn, [Next]_vars
    PROVE  WireIsOwn'
<1> SUFFICES ASSUME NEW w \in Workers, NEW p \in wire', pc'[w] \in Called,
                    p.op = request'[w].op
             PROVE  p = request'[w]
  BY DEF WireIsOwn, Op
<1>1. request'[w] = request[w] /\ (pc[w] \in Called \/ CallAdapter(w))
  BY CalledFrom
<1>2. CASE p \in wire
  <2>1. calls[p.op] = 1
    BY <1>2 DEF ToldInv, BankAsked
  <2>2. ~CallAdapter(w)
    BY <1>1, <2>1 DEF CallAdapter, Op, IInv, ClaimInv, NotYetCalled
  <2> QED
    BY <1>1, <1>2, <2>2 DEF WireIsOwn, Op
<1>3. CASE p \notin wire
  <2>1. PICK v \in Workers : CallAdapter(v) /\ p = request[v]
    BY <1>3, WireSteps DEF CallAdapter, BankCommit, LoseRequest, BankMoves
  <2>2. pc[v] \in Holding /\ pc[w] \in Holding /\ Op(v) = Op(w)
    BY <1>1, <2>1 DEF CallAdapter, Called, Holding, Op
  <2>3. v = w
    BY <2>2 DEF IInv, ClaimInv, OneHolder
  <2> QED
    BY <1>1, <2>1, <2>3
<1> QED
  BY <1>2, <1>3

\* Of each operation one payment travels, and before the bank has any.
WireIsFirst ==
    \A p \in wire :
        /\ bank[p.op] = "absent"
        /\ \A q \in wire : q.op = p.op => q = p

LEMMA WireStaysFirst ==
    ASSUME IInv, ToldInv, WireIsFirst, [Next]_vars
    PROVE  WireIsFirst'
<1>1. ASSUME NEW v \in Workers, CallAdapter(v)
      PROVE  WireIsFirst'
  <2>1. /\ pc[v] = "send" /\ bank' = bank /\ wire' = wire \cup {request[v]}
        /\ calls[request[v].op] = 0
    BY <1>1 DEF CallAdapter, IInv, ClaimInv, NotYetCalled, Op
  <2>2. request[v].op \in Ops
    BY <2>1, Sender DEF SendSteps, Op
  <2>3. bank[request[v].op] = "absent" /\ \A p \in wire : p.op # request[v].op
    BY <2>1, <2>2 DEF ToldInv, BankAsked
  <2> QED
    BY <2>1, <2>3 DEF WireIsFirst
<1>2. ASSUME NEW p \in Payments, BankCommit(p)
      PROVE  WireIsFirst'
  <2>1. p \in wire /\ wire' = wire \ {p} /\ \A q \in wire' : q.op # p.op
    BY <1>2 DEF BankCommit, WireIsFirst
  <2>2. \A q \in wire' : q.op \in Ops /\ bank'[q.op] = bank[q.op]
    BY <1>2, <2>1, PaymentsAssumption DEF BankCommit, IInv, BankTypeOK
  <2> QED
    BY <2>1, <2>2 DEF WireIsFirst
<1>3. ASSUME NEW p \in Payments, LoseRequest(p)
      PROVE  WireIsFirst'
  BY <1>3 DEF LoseRequest, WireIsFirst
<1>4. ASSUME NEW o \in Ops, BankMoves(o)
      PROVE  WireIsFirst'
  <2>1. \A p \in wire : p.op # o
    BY <1>4 DEF BankMoves, WireIsFirst
  <2> QED
    BY <1>4, <2>1 DEF BankMoves, WireIsFirst, IInv, BankTypeOK
<1>5. CASE UNCHANGED <<wire, bank>>
  BY <1>5 DEF WireIsFirst
<1> QED
  BY <1>1, <1>2, <1>3, <1>4, <1>5, WireSteps

-----------------------------------------------------------------------------
(* No way back to waiting.                                                 *)
Past(o, early) == Registered(o) /\ record[o].status \notin early

Waiting == {{"prepared"}, {"prepared", "ready_to_send"}}

LEMMA RowGoesOn ==
    ASSUME RepositoryTypeOK, NEW q \in Ops, NEW r \in IntegrationRecord,
           record' = [record EXCEPT ![q] = r],
           record[q] \in IntegrationRecord, Permitted(record[q], r.status),
           NEW o \in Ops, NEW early \in Waiting, Past(o, early)
    PROVE  Past(o, early)'
<1>1. record'[o] = IF o = q THEN r ELSE record[o]
  BY DEF RepositoryTypeOK
<1>2. r # NoRecord
  BY NoRecordIsNone
<1>3. CASE o = q
  <2>1. record[o].status \in Status /\ r.status = record'[o].status
    BY <1>1, <1>3 DEF IntegrationRecord
  <2>2. r.status \notin early
    BY <1>3, <2>1, Table DEF Past, Waiting, Permitted, CanMove
  <2> QED
    BY <1>1, <1>2, <1>3, <2>2 DEF Past, Registered
<1>4. CASE o # q
  BY <1>1, <1>4 DEF Past, Registered
<1> QED
  BY <1>3, <1>4

LEMMA CallbackGoesOn ==
    ASSUME RepositoryTypeOK, NEW c \in Callbacks, ApplyCallback(c),
           NEW o \in Ops, NEW early \in Waiting, Past(o, early)
    PROVE  Past(o, early)'
<1>1. /\ c.event \in Events /\ c.op \in Ops /\ c.status \in Status /\ c.ext \in MaybeExt
      /\ {"callback", "callback_conflict"} \subseteq Sources /\ "manual_check" \in Status
  BY CallbackType, ReviewableType DEF Sources
<1>2. record[c.op] \in IntegrationRecord
  BY <1>1, RowType DEF ApplyCallback
<1>3. CASE FirstDelivery(c)
  <2> DEFINE t == TransitionRecord(record[c.op], c.status, "callback", c.ext, c.event)
             r == Received(t, c.event)
  <2>1. t \in IntegrationRecord /\ t.status = c.status
    BY <1>1, <1>2, TransitionRecordFields
  <2>2. Permitted(record[c.op], c.status) /\ record' = [record EXCEPT ![c.op] = r]
    BY <1>3 DEF FirstDelivery
  <2> HIDE DEF t
  <2>3. r \in IntegrationRecord /\ r.status = c.status
    BY <1>1, <2>1 DEF Received, IntegrationRecord
  <2> HIDE DEF r
  <2> QED
    BY <1>1, <1>2, <2>2, <2>3, RowGoesOn
<1>4. CASE record' = record
  BY <1>4 DEF Past, Registered
<1>5. CASE ConflictingDelivery(c) /\ CanMove(record[c.op], "manual_check")
  <2> DEFINE r == Moved(record[c.op], "manual_check", "callback_conflict", c.ext, c.event)
  <2>1. r \in IntegrationRecord /\ r.status = "manual_check"
    BY <1>1, <1>2, MovedFields
  <2>2. record' = [record EXCEPT ![c.op] = r] /\ Permitted(record[c.op], "manual_check")
    BY <1>5 DEF ConflictingDelivery, Permitted
  <2> HIDE DEF r
  <2> QED
    BY <1>1, <1>2, <2>1, <2>2, RowGoesOn
<1> QED
  BY <1>3, <1>4, <1>5 DEF ApplyCallback, Redelivery, ConflictingDelivery, repositoryVars

LEMMA RepositoryGoesOn ==
    ASSUME RepositoryTypeOK, RepositoryNext, NEW o \in Ops, NEW early \in Waiting, Past(o, early)
    PROVE  Past(o, early)'
<1>1. ASSUME NEW q \in Ops, NEW terms \in Terms, Register(q, terms)
      PROVE  Past(o, early)'
  BY <1>1 DEF Register, RowAfterRegister, Past, Registered, RepositoryTypeOK
<1>2. ASSUME NEW q \in Ops, NEW call \in Calls,
             Transition(q, call.to, call.source, call.ext, NoEvent)
      PROVE  Past(o, early)'
  <2> DEFINE r == TransitionRecord(record[q], call.to, call.source, call.ext, NoEvent)
  <2>1. call.to \in Status /\ call.source \in Sources /\ call.ext \in MaybeExt
    BY CallsAssumption
  <2>2. /\ record[q] \in IntegrationRecord /\ Permitted(record[q], call.to)
        /\ record' = [record EXCEPT ![q] = r]
    BY <1>2, RowType DEF Transition
  <2>3. r \in IntegrationRecord /\ r.status = call.to
    BY <2>1, <2>2, TransitionRecordFields
  <2> HIDE DEF r
  <2> QED
    BY <2>2, <2>3, RowGoesOn
<1>3. ASSUME NEW q \in Ops, ClaimSend(q)
      PROVE  Past(o, early)'
  <2> DEFINE c == Attempted(record[q])
             r == Moved(c, "sending", "send-claim", NoExt, NoEvent)
  <2>1. record[q] \in IntegrationRecord /\ record' = [record EXCEPT ![q] = r]
    BY <1>3, RowType DEF ClaimSend, Claimable
  <2>2. r # NoRecord /\ r.status = "sending"
    <3>1. c \in IntegrationRecord
      BY <2>1 DEF Attempted, IntegrationRecord
    <3> QED
      BY <3>1, MovedFields, NoRecordIsNone DEF Status, Sources, MaybeExt
  <2> HIDE DEF r
  <2> QED
    BY <2>1, <2>2 DEF Past, Waiting, Registered, RepositoryTypeOK
<1>4. CASE RecoverSending
  <2> DEFINE r == Moved(record[o], "outcome_unknown", "startup_recovery", NoExt, NoEvent)
  <2>1. record[o] \in IntegrationRecord
    BY RowType DEF Past
  <2>2. r \in IntegrationRecord /\ r.status = "outcome_unknown"
    BY <2>1, MovedFields DEF Status, Sources, MaybeExt
  <2>3. record'[o] = r \/ record'[o] = record[o]
    BY <1>4 DEF RecoverSending
  <2> HIDE DEF r
  <2> QED
    BY <2>2, <2>3, NoRecordIsNone DEF Past, Waiting, Registered
<1>5. ASSUME NEW c \in Callbacks, ApplyCallback(c)
      PROVE  Past(o, early)'
  BY <1>5, CallbackGoesOn
<1> QED
  BY <1>1, <1>2, <1>3, <1>4, <1>5 DEF RepositoryNext

LEMMA PastStays ==
    ASSUME IInv, ToldInv, [Next]_vars, NEW o \in Ops, NEW early \in Waiting, Past(o, early)
    PROVE  Past(o, early)'
<1>1. CASE \A w \in Workers : ~SaveError(w)
  <2>1. RepositoryTypeOK /\ [RepositoryNext]_repositoryVars
    BY <1>1, CallOrSave DEF IInv, RInv
  <2>2. CASE RepositoryNext
    BY <2>1, <2>2, RepositoryGoesOn
  <2>3. CASE UNCHANGED repositoryVars
    BY <2>3 DEF repositoryVars, Past, Registered
  <2> QED
    BY <2>1, <2>2, <2>3
<1>2. ASSUME NEW w \in Workers, SaveError(w)
      PROVE  Past(o, early)'
  <2> DEFINE r == [seen[w] EXCEPT !.terms = record[Op(w)].terms]
  <2>1. pc[w] = "save_error"
    BY <1>2 DEF SaveError
  <2>2. seen[w] \in IntegrationRecord /\ seen[w].attempts = 1 /\ ClaimState(seen[w])
    BY <2>1 DEF IInv, LocalTypeOK, ClaimInv, SnapshotsClaimed
  <2>3. r # NoRecord /\ r.status \notin early
    <3>1. Op(w) \in Ops /\ record[Op(w)] \in IntegrationRecord
      BY <2>1, Sender DEF SendSteps
    <3>2. r \in IntegrationRecord /\ r.status = seen[w].status
      BY <2>2, <3>1 DEF IntegrationRecord
    <3> QED
      BY <2>2, <3>2, NoRecordIsNone DEF ClaimState, Waiting
  <2>4. record' = [record EXCEPT ![Op(w)] = r]
    BY <1>2 DEF SaveError, Save
  <2> HIDE DEF r
  <2> QED
    BY <2>3, <2>4 DEF Past, Registered, IInv, RInv, RepositoryTypeOK
<1> QED
  BY <1>1, <1>2

\* A worker that is going to claim finds the operation moved on.
LEMMA ClaimsFrom ==
    ASSUME IInv, [Next]_vars, NEW w \in Workers, pc'[w] = "claim"
    PROVE  \/ pc[w] = "claim" /\ request'[w] = request[w]
           \/ Past(Op(w), {"prepared"})'
<1> DEFINE Same == pc[w] = "claim" /\ request'[w] = request[w]
<1>1. CASE \E ws \in Processes : Start(ws) \/ Crash(ws)
  BY <1>1 DEF Start, ComeUp, Crash, localVars, IInv, LocalTypeOK
<1>2. ASSUME NEW v \in Workers, Return(v)
      PROVE  Same
  BY <1>2 DEF Return, IInv, LocalTypeOK
<1>3. ASSUME NEW v \in Workers, NEW step, v # w \/ step # "claim",
             pc' = [pc EXCEPT ![v] = step],
             request' = request \/ \E p : request' = [request EXCEPT ![v] = p]
      PROVE  Same
  BY <1>3 DEF IInv, LocalTypeOK
<1>4. ASSUME NEW p \in Payments, Submit(w, p), ~Return(w)
      PROVE  Past(Op(w), {"prepared"})'
  <2> DEFINE row == RowAfterRegister(p.op, p.terms)
  <2>1. p.op \in Ops /\ p.terms \in Terms
    BY PaymentsAssumption
  <2>2. row # NoRecord
    BY <2>1, NewRecordFields, NoRecordIsNone DEF RowAfterRegister, Registered
  <2>3. /\ record' = [record EXCEPT ![p.op] = row]
        /\ pc' = [pc EXCEPT ![w] = IF row.status = "prepared" THEN "transition" ELSE "claim"]
        /\ request' = [request EXCEPT ![w] = p]
    BY <1>4 DEF Submit, Register
  <2> HIDE DEF row
  <2>4. record'[p.op] = row /\ request'[w] = p /\ row.status # "prepared"
    BY <2>1, <2>3 DEF IInv, RInv, RepositoryTypeOK, LocalTypeOK
  <2> QED
    BY <2>2, <2>4 DEF Past, Registered, Op
<1>5. ASSUME MoveToReady(w)
      PROVE  Past(Op(w), {"prepared"})'
  <2> DEFINE r == TransitionRecord(record[Op(w)], "ready_to_send", "1c", NoExt, NoEvent)
  <2>1. Op(w) \in Ops /\ record[Op(w)] \in IntegrationRecord
    BY <1>5, Sender DEF MoveToReady, SendSteps
  <2>2. r # NoRecord /\ r.status = "ready_to_send"
    BY <2>1, TransitionRecordFields, NoRecordIsNone DEF Status, Sources, MaybeExt
  <2>3. record' = [record EXCEPT ![Op(w)] = r] /\ request' = request
    BY <1>5 DEF MoveToReady, Transition, Goto, localVars, IInv, LocalTypeOK
  <2> HIDE DEF r
  <2> QED
    BY <2>1, <2>2, <2>3 DEF Past, Registered, Op, IInv, RInv, RepositoryTypeOK
<1>6. ASSUME Reread(w)
      PROVE  Past(Op(w), {"prepared"})'
  <2>1. Registered(Op(w))
    BY <1>6, Sender DEF Reread, SendSteps
  <2>2. record[Op(w)].status # "prepared" /\ record' = record /\ request' = request
    BY <1>6 DEF Reread, Return, Goto, localVars, repositoryVars, IInv, LocalTypeOK
  <2> QED
    BY <2>1, <2>2 DEF Past, Registered, Op
<1>7. ASSUME NEW v \in Workers, Asked(v)
      PROVE  Same \/ Past(Op(w), {"prepared"})'
  <2>1. CASE \E p \in Payments : Submit(v, p)
    <3>1. CASE v = w
      BY <1>2, <1>4, <2>1, <3>1
    <3>2. CASE v # w
      BY <1>2, <1>3, <2>1, <3>2 DEF Submit
    <3> QED
      BY <3>1, <3>2
  <2> QED
    BY <1>3, <1>7, <2>1 DEF Asked, Reconcile, Resolve
<1>8. ASSUME NEW v \in Workers, Continue(v)
      PROVE  Same \/ Past(Op(w), {"prepared"})'
  <2>1. CASE v = w /\ (MoveToReady(v) \/ Reread(v))
    BY <1>5, <1>6, <2>1
  <2>2. CASE v # w /\ (MoveToReady(v) \/ Reread(v))
    BY <1>2, <1>3, <2>2 DEF MoveToReady, Reread, Goto, localVars
  <2> QED
    BY <1>2, <1>3, <1>8, <2>1, <2>2
    DEF Continue, Claim, CallAdapter, AdapterReturns, AdapterRaises,
        ReadAfterError, SaveError, ReadAnswer, PersistSent, Lookup, ApplyDecision, GiveUp,
        Goto, localVars
<1>9. CASE Environment \/ UNCHANGED vars
  BY <1>9
  DEF Environment, ReceiveCallback, BankCommit, LoseRequest, BankMoves, localVars, vars
<1> QED
  BY <1>1, <1>7, <1>8, <1>9 DEF Next

ClaimersMovedOn == \A w \in Workers : pc[w] = "claim" => Past(Op(w), {"prepared"})

LEMMA ClaimersStayMovedOn ==
    ASSUME IInv, ToldInv, ClaimersMovedOn, [Next]_vars
    PROVE  ClaimersMovedOn'
<1> SUFFICES ASSUME NEW w \in Workers, pc'[w] = "claim"
             PROVE  Past(Op(w), {"prepared"})'
  BY DEF ClaimersMovedOn
<1>1. CASE pc[w] = "claim" /\ request'[w] = request[w]
  <2>1. Op(w) \in Ops /\ Past(Op(w), {"prepared"}) /\ Op(w)' = Op(w)
    BY <1>1, Sender DEF ClaimersMovedOn, SendSteps, Op
  <2> QED
    BY <2>1, PastStays DEF Waiting, Past, Registered
<1> QED
  BY <1>1, ClaimsFrom

-----------------------------------------------------------------------------
(* All that is known of the service over any bank, for those who build on  *)
(* it: besides IInv and ToldInv, whose the payments on the wire are, and   *)
(* that nobody who claims is too early.                                    *)
ServiceInv == IInv /\ ToldInv /\ WireIsOwn /\ WireIsFirst /\ ClaimersMovedOn

THEOREM ServiceInvariant == Spec => []ServiceInv
<1>1. Init => WireIsOwn /\ WireIsFirst /\ ClaimersMovedOn
  BY DEF Init, WireIsOwn, WireIsFirst, ClaimersMovedOn
<1>2. ServiceInv /\ [Next]_vars => WireIsOwn' /\ WireIsFirst' /\ ClaimersMovedOn'
  BY WireStaysOwn, WireStaysFirst, ClaimersStayMovedOn DEF ServiceInv
<1> QED
  BY <1>1, <1>2, Telling, PTL DEF Spec, ServiceInv

-----------------------------------------------------------------------------
(* What an answer means. Under way is whatever need not be submitted.      *)

\* A submission that ends at once found the operation sent, or another payment.
LEMMA SubmittedIsUnderWay ==
    ASSUME ServiceInv, NEW w \in Workers, NEW p \in Payments, Submit(w, p),
           record'[p.op].terms = p.terms, pc'[w] = "idle"
    PROVE  Past(p.op, Early)'
<1> DEFINE row == RowAfterRegister(p.op, p.terms)
<1>1. p.op \in Ops /\ p.terms \in Terms
  BY PaymentsAssumption
<1>2. row # NoRecord
  BY <1>1, NewRecordFields, NoRecordIsNone DEF RowAfterRegister, Registered
<1>3. /\ record' = [record EXCEPT ![p.op] = row]
      /\ IF row.terms # p.terms \/ row.status \in AlreadySent
         THEN Return(w)
         ELSE pc' = [pc EXCEPT ![w] = IF row.status = "prepared" THEN "transition" ELSE "claim"]
  BY DEF Submit, Register
<1> HIDE DEF row
<1>4. record'[p.op] = row
  BY <1>1, <1>3 DEF ServiceInv, IInv, RInv, RepositoryTypeOK
<1>5. row.status \in AlreadySent
  BY <1>3, <1>4 DEF ServiceInv, IInv, LocalTypeOK
<1> QED
  BY <1>2, <1>4, <1>5 DEF Past, Registered, Early, AlreadySent

\* Where send() may return the record, the operation has been claimed.
LEMMA ReturnedIsUnderWay ==
    ASSUME ServiceInv, NEW w \in Workers, NEW o \in Ops, o = Op(w), pc'[w] = "idle",
           \/ Claim(w) \/ ReadAnswer(w) \/ PersistSent(w)
           \/ Reread(w) /\ record[o].status # "prepared"
    PROVE  Past(o, Early)'
<1>1. pc[w] \in SendSteps
  BY DEF Claim, ReadAnswer, PersistSent, Reread, SendSteps
<1>2. Registered(o) /\ record[o] \in IntegrationRecord /\ ClaimState(record[o])
  BY <1>1, Sender DEF ServiceInv
<1>3. CASE Claim(w)
  <2>1. ~Claimable(o) /\ record' = record
    BY <1>3 DEF Claim, Goto, repositoryVars, ServiceInv, IInv, LocalTypeOK
  <2>2. Past(o, {"prepared"})
    BY <1>3 DEF Claim, ServiceInv, ClaimersMovedOn
  <2> QED
    BY <2>1, <2>2 DEF Past, Early, Claimable, Registered
<1>4. CASE ReadAnswer(w)
  <2>1. record[o].attempts = 1
    BY <1>4 DEF ReadAnswer, ServiceInv, IInv, ClaimInv, HoldersClaimed, Holding
  <2> QED
    BY <1>2, <1>4, <2>1 DEF ReadAnswer, repositoryVars, Past, Early, Registered, ClaimState
<1>5. CASE PersistSent(w)
  <2> DEFINE r == TransitionRecord(record[o], "sent", "bank_adapter", ExtIdOf[o], NoEvent)
  <2>1. r \in IntegrationRecord /\ r.status = "sent"
    BY <1>2, TransitionRecordFields, ExtIdOfAssumption DEF Status, Sources, MaybeExt
  <2>2. record' = [record EXCEPT ![o] = r]
    BY <1>5 DEF PersistSent, Transition
  <2> HIDE DEF r
  <2>3. record'[o] = r
    BY <2>2 DEF ServiceInv, IInv, RInv, RepositoryTypeOK
  <2> QED
    BY <2>1, <2>3, NoRecordIsNone DEF Past, Early, Registered
<1>6. CASE Reread(w) /\ record[o].status # "prepared"
  <2>1. record[o].status \in AlreadySent
    BY <1>6 DEF Reread, Goto, ServiceInv, IInv, LocalTypeOK
  <2> QED
    BY <1>2, <1>6, <2>1 DEF Reread, repositoryVars, Past, Early, Registered, AlreadySent
<1> QED
  BY <1>3, <1>4, <1>5, <1>6

\* The inbox is written by first deliveries only.
LEMMA InboxSteps ==
    ASSUME IInv, [Next]_vars, NEW e \in Events, inbox[e] # NoCallback
    PROVE  inbox'[e] = inbox[e]
<1>1. CASE \E ws \in Processes : Start(ws) \/ Crash(ws)
  BY <1>1 DEF Start, RecoverSending, Crash, repositoryVars
<1>2. CASE \E w \in Workers : Asked(w)
  BY <1>2 DEF Asked, Submit, Register, Reconcile, Resolve, repositoryVars
<1>3. CASE \E w \in Workers : Continue(w)
  BY <1>3
  DEF Continue, MoveToReady, Reread, Claim, CallAdapter, AdapterReturns, AdapterRaises,
      ReadAfterError, SaveError, ReadAnswer, PersistSent, Lookup, ApplyDecision, GiveUp,
      Transition, ClaimSend, Save, repositoryVars
<1>4. ASSUME NEW c \in Callbacks, ReceiveCallback(c)
      PROVE  inbox'[e] = inbox[e]
  BY <1>4
  DEF ReceiveCallback, ApplyCallback, FirstDelivery, Redelivery, ConflictingDelivery,
      repositoryVars, IInv, RInv, RepositoryTypeOK
<1>5. CASE UNCHANGED vars \/ (Environment /\ ~\E c \in Callbacks : ReceiveCallback(c))
  BY <1>5 DEF Environment, BankCommit, LoseRequest, BankMoves, repositoryVars, vars
<1> QED
  BY <1>1, <1>2, <1>3, <1>4, <1>5 DEF Next, Environment

-----------------------------------------------------------------------------
(* Where the audit events of a row come from.                              *)
Entries(r) == {r.audit[i] : i \in DOMAIN r.audit}

LEMMA MovedEntries ==
    ASSUME NEW r \in IntegrationRecord, NEW to \in Status, NEW source \in Sources,
           NEW ext \in MaybeExt, NEW event \in Events \cup {NoEvent},
           NEW a \in Entries(Moved(r, to, source, ext, event)), a \notin Entries(r)
    PROVE  a.new = to /\ a.source = source /\ a.event = event
<1> DEFINE b == [old |-> r.status, new |-> to, source |-> source, ext |-> ext, event |-> event]
           m == Moved(r, to, source, ext, event)
<1>1. b \in AuditEvent /\ b.new = to /\ b.source = source /\ b.event = event
  BY DEF AuditEvent, IntegrationRecord
<1>2. m.audit = Append(r.audit, b) /\ r.audit \in Seq(AuditEvent)
  BY DEF Moved, IntegrationRecord
<1>3. PICK i \in DOMAIN m.audit : a = m.audit[i]
  BY DEF Entries
<1> HIDE DEF m, b
<1>4. i \in DOMAIN r.audit => m.audit[i] = r.audit[i]
  BY <1>1, <1>2
<1>5. i \in DOMAIN r.audit \/ m.audit[i] = b
  BY <1>1, <1>2, <1>3
<1> QED
  BY <1>1, <1>3, <1>4, <1>5 DEF Entries

\* An event in a row that one step has written, of a call of transition().
LEMMA TransitionEntries ==
    ASSUME RepositoryTypeOK, NEW o \in Ops, NEW to \in Status, NEW source \in Sources,
           NEW ext \in MaybeExt, Transition(o, to, source, ext, NoEvent),
           NEW q \in Ops, NEW a \in Entries(record'[q]), a \notin Entries(record[q])
    PROVE  q = o /\ a.new = to /\ a.source = source
<1> DEFINE r == TransitionRecord(record[o], to, source, ext, NoEvent)
<1>1. record[o] \in IntegrationRecord /\ record' = [record EXCEPT ![o] = r]
  BY RowType DEF Transition
<1>2. q = o /\ record'[o] = r
  BY <1>1 DEF RepositoryTypeOK
<1>3. to # record[o].status
  BY <1>2 DEF TransitionRecord
<1>4. r = Moved(record[o], to, source, ext, NoEvent)
  BY <1>3 DEF TransitionRecord
<1> HIDE DEF r
<1> QED
  BY <1>1, <1>2, <1>4, MovedEntries

\* Sources that tell what the bank has said.
Evidence == {"callback", "bank_status_lookup", "bank_adapter"}

LEMMA CallbackEntries ==
    ASSUME RepositoryTypeOK, NEW c \in Callbacks, ApplyCallback(c), NEW q \in Ops,
           NEW a \in Entries(record'[q]), a \notin Entries(record[q]), a.source \in Evidence
    PROVE  /\ a.source = "callback"
           /\ q = c.op /\ a.new = c.status /\ a.event = c.event
<1>1. /\ c.event \in Events /\ c.op \in Ops /\ c.status \in Status /\ c.ext \in MaybeExt
      /\ {"callback", "callback_conflict"} \subseteq Sources /\ "manual_check" \in Status
  BY CallbackType, ReviewableType DEF Sources
<1>2. record[c.op] \in IntegrationRecord
  BY <1>1, RowType DEF ApplyCallback
<1>3. ASSUME FirstDelivery(c)
      PROVE  /\ a.source = "callback"
             /\ q = c.op /\ a.new = c.status /\ a.event = c.event
  <2> DEFINE t == TransitionRecord(record[c.op], c.status, "callback", c.ext, c.event)
             r == Received(t, c.event)
  <2>1. t \in IntegrationRecord
    BY <1>1, <1>2, TransitionRecordFields
  <2>2. record' = [record EXCEPT ![c.op] = r]
    BY <1>3 DEF FirstDelivery
  <2>3. t = record[c.op] \/ t = Moved(record[c.op], c.status, "callback", c.ext, c.event)
    BY DEF TransitionRecord
  <2> HIDE DEF t
  <2>4. r.audit = t.audit
    BY <2>1 DEF Received, IntegrationRecord
  <2> HIDE DEF r
  <2>5. q = c.op /\ record'[q] = r
    BY <1>1, <2>2 DEF RepositoryTypeOK
  <2>6. a \in Entries(t)
    BY <2>4, <2>5 DEF Entries
  <2> QED
    BY <1>1, <1>2, <2>3, <2>5, <2>6, MovedEntries
<1>4. ASSUME ConflictingDelivery(c), CanMove(record[c.op], "manual_check")
      PROVE  FALSE
  <2> DEFINE r == Moved(record[c.op], "manual_check", "callback_conflict", c.ext, c.event)
  <2>1. record' = [record EXCEPT ![c.op] = r]
    BY <1>4 DEF ConflictingDelivery
  <2>2. q = c.op /\ record'[q] = r
    BY <1>1, <2>1 DEF RepositoryTypeOK
  <2>3. a.source = "callback_conflict"
    BY <1>1, <1>2, <2>2, MovedEntries
  <2> QED
    BY <2>3 DEF Evidence
<1>5. record' # record
  OBVIOUS
<1> QED
  BY <1>3, <1>4, <1>5 DEF ApplyCallback, Redelivery, ConflictingDelivery, repositoryVars

\* Without a callback, evidence of the bank is written by a lookup that is
\* applied or an answer that is persisted, or comes back with a stale save.
LEMMA EvidenceFrom ==
    ASSUME IInv, ToldInv, [Next]_vars, \A c \in Callbacks : ~ReceiveCallback(c),
           NEW o \in Ops, Registered(o)', NEW a \in Entries(record'[o]),
           a.source \in Evidence
    PROVE  \/ Registered(o) /\ a \in Entries(record[o])
           \/ \E w \in Workers : /\ pc[w] = "save_error" /\ Op(w) = o
                                /\ a \in Entries(seen[w])
           \/ \E w \in Workers : /\ pc[w] = "apply" /\ decision[w].op = o
                                /\ a.new = decision[w].to
                                /\ a.source = decision[w].source
           \/ /\ a.source = "bank_adapter"
              /\ \E w \in Workers : pc[w] = "persist_sent" /\ Op(w) = o
<1> DEFINE Kept == Registered(o) /\ a \in Entries(record[o])
<1>0. RepositoryTypeOK
  BY DEF IInv, RInv
<1>1. CASE record' = record
  BY <1>1 DEF Registered
<1>2. CASE RecoverSending
  <2> DEFINE r == Moved(record[o], "outcome_unknown", "startup_recovery", NoExt, NoEvent)
  <2>1. record'[o] = IF Sending(o) THEN r ELSE record[o]
    BY <1>2 DEF RecoverSending
  <2>2. Sending(o) => record[o] \in IntegrationRecord
    BY <1>0, RowType DEF Sending
  <2>3. ASSUME Sending(o) PROVE a \in Entries(record[o])
    BY <2>1, <2>2, <2>3, MovedEntries DEF Status, Sources, MaybeExt, Evidence
  <2> QED
    BY <2>1, <2>3 DEF Sending, Registered
<1>3. ASSUME NEW w \in Workers, NEW p \in Payments, Submit(w, p)
      PROVE  Kept
  <2> DEFINE row == RowAfterRegister(p.op, p.terms)
  <2>1. p.op \in Ops /\ p.terms \in Terms
    BY PaymentsAssumption
  <2>2. record'[o] = IF o = p.op THEN row ELSE record[o]
    BY <1>0, <1>3 DEF Submit, Register, RepositoryTypeOK
  <2>3. Entries(NewRecord(p.terms)) = {}
    BY DEF Entries, NewRecord
  <2> QED
    BY <2>2, <2>3 DEF RowAfterRegister, Registered
<1>4. ASSUME NEW w \in Workers, MoveToReady(w)
      PROVE  Kept
  <2>1. Op(w) \in Ops
    BY <1>4, Sender DEF MoveToReady, SendSteps
  <2>2. CASE record' = record
    BY <2>2 DEF Registered
  <2>3. CASE Transition(Op(w), "ready_to_send", "1c", NoExt, NoEvent)
    <3>1. a \in Entries(record[o])
      BY <1>0, <2>1, <2>3, TransitionEntries DEF Status, Sources, MaybeExt, Evidence
    <3>2. Registered(o)
      BY <1>0, <2>1, <2>3 DEF Transition, Registered, RepositoryTypeOK
    <3> QED
      BY <3>1, <3>2
  <2> QED
    BY <1>4, <2>2, <2>3 DEF MoveToReady, repositoryVars
<1>5. ASSUME NEW w \in Workers, Claim(w)
      PROVE  Kept
  <2> DEFINE q == Op(w)
             c == Attempted(record[q])
             r == Moved(c, "sending", "send-claim", NoExt, NoEvent)
  <2>1. q \in Ops /\ record[q] \in IntegrationRecord /\ Registered(q)
    BY <1>5, Sender DEF Claim, SendSteps
  <2>2. c \in IntegrationRecord /\ Entries(c) = Entries(record[q])
    BY <2>1 DEF Attempted, IntegrationRecord, Entries
  <2>3. record' = record \/ record' = [record EXCEPT ![q] = r]
    BY <1>5 DEF Claim, ClaimSend, repositoryVars
  <2> HIDE DEF c
  <2>4. \A b \in Entries(r) : b \in Entries(c) \/ b.source = "send-claim"
    BY <2>2, MovedEntries DEF Status, Sources, MaybeExt
  <2> HIDE DEF r
  <2>5. record'[o] = record[o] \/ (o = q /\ record'[o] = r)
    BY <1>0, <2>1, <2>3 DEF RepositoryTypeOK
  <2> QED
    BY <2>1, <2>2, <2>4, <2>5 DEF Registered, Evidence
<1>6. ASSUME NEW w \in Workers, PersistSent(w), ~Kept
      PROVE  pc[w] = "persist_sent" /\ Op(w) = o /\ a.source = "bank_adapter"
  <2>1. pc[w] = "persist_sent" /\ Op(w) \in Ops
    BY <1>6, Sender DEF PersistSent, SendSteps
  <2>2. Transition(Op(w), "sent", "bank_adapter", ExtIdOf[Op(w)], NoEvent)
    BY <1>6 DEF PersistSent
  <2>3. Registered(o)
    BY <1>0, <2>1, <2>2 DEF Transition, Registered, RepositoryTypeOK
  <2> QED
    BY <1>0, <1>6, <2>1, <2>2, <2>3, ExtIdOfAssumption, TransitionEntries
    DEF Status, Sources, MaybeExt
<1>7. ASSUME NEW w \in Workers, ApplyDecision(w), ~Kept
      PROVE  /\ pc[w] = "apply" /\ decision[w].op = o
             /\ a.new = decision[w].to /\ a.source = decision[w].source
  <2> DEFINE d == decision[w]
  <2>1. pc[w] = "apply" /\ Transition(d.op, d.to, d.source, d.ext, NoEvent)
    BY <1>7 DEF ApplyDecision
  <2>2. d \in Decision
    BY <2>1 DEF IInv, LocalTypeOK, DecisionSteps
  <2>3. d.op \in Ops /\ d.to \in Status /\ d.source \in Sources /\ d.ext \in MaybeExt
    BY <2>2 DEF Decision, Sources
  <2>4. Registered(o)
    BY <1>0, <2>1, <2>3 DEF Transition, Registered, RepositoryTypeOK
  <2> QED
    BY <1>0, <1>7, <2>1, <2>3, <2>4, TransitionEntries
<1>8. ASSUME NEW w \in Workers, SaveError(w), ~Kept
      PROVE  pc[w] = "save_error" /\ Op(w) = o /\ a \in Entries(seen[w])
  <2> DEFINE r == [seen[w] EXCEPT !.terms = record[Op(w)].terms]
  <2>1. pc[w] = "save_error" /\ record' = [record EXCEPT ![Op(w)] = r]
    BY <1>8 DEF SaveError, Save
  <2>2. Op(w) \in Ops /\ seen[w] \in IntegrationRecord
    BY <2>1, Sender DEF SendSteps, IInv, LocalTypeOK
  <2>3. Entries(r) = Entries(seen[w])
    BY <2>2 DEF Entries, IntegrationRecord
  <2> HIDE DEF r
  <2> QED
    BY <1>0, <1>8, <2>1, <2>2, <2>3 DEF RepositoryTypeOK, Registered
<1>9. ASSUME NEW w \in Workers, Asked(w) \/ Continue(w), ~Kept
      PROVE  \/ SaveError(w) \/ ApplyDecision(w) \/ PersistSent(w) \/ record' = record
  BY <1>3, <1>4, <1>5, <1>9
  DEF Asked, Continue, Reconcile, Resolve, Reread, CallAdapter, AdapterReturns,
      AdapterRaises, ReadAfterError, ReadAnswer, Lookup, GiveUp, repositoryVars
<1>10. CASE Environment \/ UNCHANGED vars \/ \E ws \in Processes : Start(ws) \/ Crash(ws)
  BY <1>1, <1>2, <1>10
  DEF Environment, BankCommit, LoseRequest, BankMoves, Start, Crash, repositoryVars, vars
<1> QED
  BY <1>1, <1>6, <1>7, <1>8, <1>9, <1>10 DEF Next

\* A row that is going to be saved back was read from the table.
LEMMA SeenFrom ==
    ASSUME IInv, [Next]_vars, NEW w \in Workers, pc'[w] = "save_error"
    PROVE  \/ pc[w] = "save_error" /\ seen'[w] = seen[w]
           \/ /\ pc[w] = "read_error" /\ Entries(seen'[w]) = Entries(record[Op(w)])
              /\ seen'[w].error = "adapter_raised"
              /\ seen'[w].status = record[Op(w)].status
              /\ seen'[w].audit = record[Op(w)].audit
              /\ seen'[w].callbacks = record[Op(w)].callbacks
<1> DEFINE Same == pc[w] = "save_error" /\ seen'[w] = seen[w]
           Read == /\ pc[w] = "read_error" /\ Entries(seen'[w]) = Entries(record[Op(w)])
                   /\ seen'[w].error = "adapter_raised"
                   /\ seen'[w].status = record[Op(w)].status
                   /\ seen'[w].audit = record[Op(w)].audit
                   /\ seen'[w].callbacks = record[Op(w)].callbacks
<1>1. CASE \E ws \in Processes : Start(ws) \/ Crash(ws)
  BY <1>1 DEF Start, ComeUp, Crash, localVars, IInv, LocalTypeOK
<1>2. ASSUME NEW v \in Workers, Return(v)
      PROVE  Same
  BY <1>2 DEF Return, IInv, LocalTypeOK
<1>3. ASSUME NEW v \in Workers, NEW step, step # "save_error",
             pc' = [pc EXCEPT ![v] = step], seen' = seen
      PROVE  Same
  BY <1>3 DEF IInv, LocalTypeOK
<1>4. ASSUME NEW v \in Workers, ReadAfterError(v)
      PROVE  Same \/ Read
  <2> DEFINE r == [record[Op(v)] EXCEPT !.error = "adapter_raised"]
  <2>1. record[Op(v)] \in IntegrationRecord
    BY <1>4, Sender DEF ReadAfterError, SendSteps
  <2>2. /\ Entries(r) = Entries(record[Op(v)]) /\ r.error = "adapter_raised"
        /\ r.status = record[Op(v)].status
        /\ r.audit = record[Op(v)].audit /\ r.callbacks = record[Op(v)].callbacks
    BY <2>1 DEF Entries, IntegrationRecord
  <2>3. /\ pc[v] = "read_error"
        /\ pc' = [pc EXCEPT ![v] = "save_error"] /\ seen' = [seen EXCEPT ![v] = r]
    BY <1>4 DEF ReadAfterError
  <2> HIDE DEF r
  <2> QED
    BY <2>2, <2>3 DEF IInv, LocalTypeOK
<1>5. ASSUME NEW v \in Workers, Asked(v)
      PROVE  Same
  BY <1>2, <1>3, <1>5 DEF Asked, Submit, Reconcile, Resolve
<1>6. ASSUME NEW v \in Workers, Continue(v), ~ReadAfterError(v)
      PROVE  Same
  BY <1>2, <1>3, <1>6
  DEF Continue, MoveToReady, Reread, Claim, CallAdapter, AdapterReturns, AdapterRaises,
      SaveError, ReadAnswer, PersistSent, Lookup, ApplyDecision, GiveUp, Goto, localVars
<1>7. CASE Environment \/ UNCHANGED vars
  BY <1>7
  DEF Environment, ReceiveCallback, BankCommit, LoseRequest, BankMoves, localVars, vars
<1> QED
  BY <1>1, <1>4, <1>5, <1>6, <1>7 DEF Next

\* What a lookup is going to write is what the bank has answered.
LEMMA LookedUpFrom ==
    ASSUME IInv, [Next]_vars, NEW w \in Workers, pc'[w] = "apply",
           decision'[w].source = "bank_status_lookup"
    PROVE  \/ pc[w] = "apply" /\ decision'[w] = decision[w]
           \/ \E o \in Ops : /\ bank[o] # "absent" /\ decision'[w].op = o
                            /\ decision'[w].to = bank[o]
<1> DEFINE Same == pc[w] = "apply" /\ decision'[w] = decision[w]
<1>1. CASE \E ws \in Processes : Start(ws) \/ Crash(ws)
  BY <1>1 DEF Start, ComeUp, Crash, localVars, IInv, LocalTypeOK
<1>2. ASSUME NEW v \in Workers, Return(v)
      PROVE  Same
  BY <1>2 DEF Return, IInv, LocalTypeOK
<1>3. ASSUME NEW v \in Workers, NEW step \in Steps \ {"apply"},
             pc' = [pc EXCEPT ![v] = step],
             decision' = decision \/ \E d : decision' = [decision EXCEPT ![v] = d]
      PROVE  Same
  BY <1>3 DEF IInv, LocalTypeOK
<1>4. ASSUME NEW v \in Workers, Lookup(v)
      PROVE  \/ Same
             \/ \E o \in Ops : /\ bank[o] # "absent" /\ decision'[w].op = o
                              /\ decision'[w].to = bank[o]
  <2>1. decision[v] \in Decision /\ "absent" \notin BankReports
    BY <1>4 DEF Lookup, IInv, LocalTypeOK, DecisionSteps, BankReports
  <2>2. CASE v = w
    <3> DEFINE d == [decision[w] EXCEPT !.to = bank[decision[w].op],
                                        !.ext = ExtIdOf[decision[w].op]]
    <3>1. bank[decision[w].op] \in BankReports /\ decision'[w] = d
      BY <1>4, <2>2 DEF Lookup, IInv, LocalTypeOK
    <3>2. d.op = decision[w].op /\ d.to = bank[decision[w].op] /\ decision[w].op \in Ops
      BY <2>1, <2>2 DEF Decision
    <3> HIDE DEF d
    <3> QED
      BY <2>1, <3>1, <3>2
  <2>3. CASE v # w
    BY <1>4, <2>3 DEF Lookup, IInv, LocalTypeOK
  <2> QED
    BY <2>2, <2>3
<1>5. ASSUME NEW v \in Workers, NEW o \in Ops, NEW to \in Resolutions, Resolve(v, o, to)
      PROVE  Same
  BY <1>5 DEF Resolve, IInv, LocalTypeOK
<1>6. ASSUME NEW v \in Workers, Asked(v)
      PROVE  Same
  BY <1>2, <1>3, <1>5, <1>6
  DEF Asked, Submit, Reconcile, Steps, SendSteps, DecisionSteps
<1>7. ASSUME NEW v \in Workers, Continue(v), ~Lookup(v)
      PROVE  Same
  BY <1>2, <1>3, <1>7
  DEF Continue, MoveToReady, Reread, Claim, CallAdapter, AdapterReturns, AdapterRaises,
      ReadAfterError, SaveError, ReadAnswer, PersistSent, ApplyDecision, GiveUp,
      Goto, localVars, Steps, SendSteps, DecisionSteps
<1>8. CASE Environment \/ UNCHANGED vars
  BY <1>8
  DEF Environment, ReceiveCallback, BankCommit, LoseRequest, BankMoves, localVars, vars
<1> QED
  BY <1>1, <1>4, <1>6, <1>7, <1>8 DEF Next

-----------------------------------------------------------------------------
(* Events of the bank, with stale saves among the steps. A row that is     *)
(* saved back may list fewer events than the row it replaces, never one    *)
(* the inbox has not received for the operation.                           *)
Once(r, o) == EventsOnce(r) /\ ReceivedFor(r, o)

RowsOnce == \A o \in Ops : Registered(o) => Once(record[o], o)

SeenOnce == \A w \in Workers : pc[w] = "save_error" => Once(seen[w], Op(w))

EventsInv == RowsOnce /\ SeenOnce

\* What the inbox has received it keeps.
LEMMA StillReceived ==
    ASSUME IInv, [Next]_vars, NEW r, NEW o, ReceivedFor(r, o),
           NEW n, n.callbacks = r.callbacks
    PROVE  ReceivedFor(n, o)'
  BY InboxSteps DEF ReceivedFor

LEMMA RowsStayOnce ==
    ASSUME IInv, ToldInv, EventsInv, [Next]_vars
    PROVE  RowsOnce'
<1>1. CASE \A w \in Workers : ~SaveError(w)
  <2>1. ListedAreReceived /\ RInv /\ [RepositoryNext]_repositoryVars
    BY <1>1, CallOrSave DEF EventsInv, RowsOnce, Once, ListedAreReceived, IInv
  <2>2. RowsCarriedOn /\ ListedAreReceived'
    BY <2>1, StepCarriesOn, ReceivedStep
  <2> SUFFICES ASSUME NEW o \in Ops, Registered(o)'
               PROVE  EventsOnce(record'[o])
    BY <2>2 DEF RowsOnce, Once, ListedAreReceived, EventsOnce, MovedBy
  <2>3. CASE Registered(o)
    <3>1. CarriedOn(record[o], record'[o]) /\ record[o] \in IntegrationRecord
      BY <2>1, <2>2, <2>3, RowType DEF RowsCarriedOn, RowCarriedOn, RInv
    <3> QED
      BY <2>3, <3>1, EventsStayOnce DEF EventsInv, RowsOnce, Once
  <2>4. CASE ~Registered(o)
    BY <2>2, <2>4, NewStory DEF RowsCarriedOn, RowCarriedOn
  <2> QED
    BY <2>3, <2>4
<1>2. ASSUME NEW w \in Workers, SaveError(w)
      PROVE  RowsOnce'
  <2> DEFINE r == [seen[w] EXCEPT !.terms = record[Op(w)].terms]
  <2>1. pc[w] = "save_error" /\ record' = [record EXCEPT ![Op(w)] = r]
    BY <1>2 DEF SaveError, Save
  <2>2. Op(w) \in Ops /\ seen[w] \in IntegrationRecord
    BY <2>1, Sender DEF SendSteps, IInv, LocalTypeOK
  <2>3. r.audit = seen[w].audit /\ r.callbacks = seen[w].callbacks
    BY <2>2 DEF IntegrationRecord
  <2> HIDE DEF r
  <2> SUFFICES ASSUME NEW o \in Ops, Registered(o)'
               PROVE  EventsOnce(record'[o]) /\ ReceivedFor(record[o], o)'
    BY DEF RowsOnce, Once, EventsOnce, MovedBy
  <2>4. record'[o] = IF o = Op(w) THEN r ELSE record[o]
    BY <2>1, <2>2 DEF IInv, RInv, RepositoryTypeOK
  <2>5. CASE o = Op(w)
    <3>1. EventsOnce(seen[w]) /\ ReceivedFor(seen[w], o)
      BY <2>1, <2>5 DEF EventsInv, SeenOnce, Once
    <3>2. EventsOnce(r)
      BY <2>3, <3>1 DEF EventsOnce, MovedBy
    <3>3. \A e \in Events \cap r.callbacks : inbox'[e] # NoCallback /\ inbox'[e].op = o
      BY <2>3, <3>1, InboxSteps DEF ReceivedFor
    <3> QED
      BY <2>4, <2>5, <3>2, <3>3 DEF ReceivedFor
  <2>6. CASE o # Op(w)
    <3>1. Registered(o) /\ EventsOnce(record[o]) /\ ReceivedFor(record[o], o)
      BY <2>4, <2>6 DEF EventsInv, RowsOnce, Once, Registered
    <3> QED
      BY <2>4, <2>6, <3>1, InboxSteps DEF ReceivedFor
  <2> QED
    BY <2>5, <2>6
<1> QED
  BY <1>1, <1>2

LEMMA SeenStayOnce ==
    ASSUME IInv, EventsInv, [Next]_vars
    PROVE  SeenOnce'
<1> SUFFICES ASSUME NEW w \in Workers, pc'[w] = "save_error"
             PROVE  /\ EventsOnce(seen'[w])
                    /\ \A e \in Events \cap seen'[w].callbacks :
                            inbox'[e] # NoCallback /\ inbox'[e].op = Op(w)'
  BY DEF SeenOnce, Once, EventsOnce, MovedBy, ReceivedFor
<1>1. Op(w)' = Op(w)
  BY CalledFrom DEF Op, Called, Holding
<1>2. CASE pc[w] = "save_error" /\ seen'[w] = seen[w]
  BY <1>1, <1>2, InboxSteps DEF EventsInv, SeenOnce, Once, ReceivedFor
<1>3. CASE /\ pc[w] = "read_error"
           /\ seen'[w].audit = record[Op(w)].audit
           /\ seen'[w].callbacks = record[Op(w)].callbacks
  <2>1. Op(w) \in Ops /\ Registered(Op(w))
    BY <1>3, Sender DEF SendSteps
  <2>2. EventsOnce(record[Op(w)]) /\ ReceivedFor(record[Op(w)], Op(w))
    BY <2>1 DEF EventsInv, RowsOnce, Once
  <2>3. EventsOnce(seen'[w])
    BY <1>3, <2>2 DEF EventsOnce, MovedBy
  <2> QED
    BY <1>1, <1>3, <2>2, <2>3, InboxSteps DEF ReceivedFor
<1> QED
  BY <1>2, <1>3, SeenFrom

LEMMA OnceMeansOnce ==
    ASSUME RowsOnce
    PROVE  EventMovesOnce
<1>1. ASSUME NEW e \in Events, NEW o1 \in Ops, NEW o2 \in Ops,
             Registered(o1), Registered(o2),
             NEW i \in DOMAIN record[o1].audit, NEW j \in DOMAIN record[o2].audit,
             MovedBy(record[o1], i, e), MovedBy(record[o2], j, e)
      PROVE  o1 = o2 /\ i = j
  <2>1. e \in record[o1].callbacks /\ e \in record[o2].callbacks
    BY <1>1 DEF RowsOnce, Once, EventsOnce
  <2>2. inbox[e].op = o1 /\ inbox[e].op = o2
    BY <1>1, <2>1 DEF RowsOnce, Once, ReceivedFor
  <2> QED
    BY <1>1, <2>2 DEF RowsOnce, Once, EventsOnce
<1>2. ASSUME NEW e \in Events,
             NEW o1 \in {o \in Ops : Registered(o)}, NEW o2 \in {o \in Ops : Registered(o)},
             NEW i \in DOMAIN record[o1].audit, NEW j \in DOMAIN record[o2].audit
      PROVE  LET a == record[o1].audit[i]
                 b == record[o2].audit[j]
             IN  (a.event = e /\ b.event = e /\ a.source = b.source
                     /\ a.source = "callback") => (o1 = o2 /\ i = j)
  BY <1>1 DEF MovedBy
<1> QED
  BY <1>2, Zenon DEF EventMovesOnce

(* An event of the bank moves one operation, once, even where a failed     *)
(* send writes an old row back: what that row has forgotten the inbox has  *)
(* not, and no redelivery is applied a second time.                        *)
THEOREM ServiceEventMovesOnce == Spec => []EventMovesOnce
<1>1. Init => EventsInv
  BY DEF Init, RepositoryInit, EventsInv, RowsOnce, SeenOnce, Registered
<1>2. IInv /\ ToldInv /\ EventsInv /\ [Next]_vars => EventsInv'
  BY RowsStayOnce, SeenStayOnce DEF EventsInv
<1>3. EventsInv => EventMovesOnce
  BY OnceMeansOnce DEF EventsInv
<1> QED
  BY <1>1, <1>2, <1>3, Telling, PTL DEF Spec

-----------------------------------------------------------------------------
(* The damage of a stale save. Whoever holds a claim finds no error in its *)
(* row: the error is written by the last step of the operation's only      *)
(* holder.                                                                 *)
HoldersUntroubled == \A w \in Workers : pc[w] \in Holding => record[Op(w)].error = "none"

ErrorsClaimed ==
    \A o \in Ops : (Registered(o) /\ record[o].error = "adapter_raised")
                        => record[o].attempts = 1

SeenRaised == \A w \in Workers : pc[w] = "save_error" => seen[w].error = "adapter_raised"

ErrorInv == HoldersUntroubled /\ ErrorsClaimed /\ SeenRaised

\* What a step makes of the errors, and of the past.
StepHistory(o) ==
    /\ record'[o].error = record[o].error
    /\ KeepsHistory(record[o], record'[o])

LEMMA HoldingFrom ==
    ASSUME IInv, [Next]_vars, NEW w \in Workers, pc'[w] \in Holding
    PROVE  /\ request'[w] = request[w]
           /\ pc[w] \in Holding \/ (pc[w] = "claim" /\ ClaimSend(Op(w)))
<1>1. CASE pc'[w] \in Called
  BY <1>1, CalledFrom DEF Called, CallAdapter, Holding
<1>2. CASE pc'[w] = "send"
  <2> DEFINE Same == request'[w] = request[w] /\ pc[w] \in Holding
  <2>1. CASE \E ws \in Processes : Start(ws) \/ Crash(ws)
    BY <1>2, <2>1 DEF Start, ComeUp, Crash, localVars, IInv, LocalTypeOK, Holding
  <2>2. ASSUME NEW v \in Workers, Return(v)
        PROVE  Same
    BY <1>2, <2>2 DEF Return, IInv, LocalTypeOK, Holding
  <2>3. ASSUME NEW v \in Workers, NEW step, step # "send",
               pc' = [pc EXCEPT ![v] = step],
               request' = request \/ \E p : request' = [request EXCEPT ![v] = p]
        PROVE  Same
    BY <1>2, <2>3 DEF IInv, LocalTypeOK, Holding
  <2>4. ASSUME NEW v \in Workers, Claim(v)
        PROVE  Same \/ (request'[w] = request[w] /\ pc[w] = "claim" /\ ClaimSend(Op(w)))
    <3>1. CASE Goto(v, "send") /\ ClaimSend(Op(v)) /\ pc[v] = "claim"
      BY <1>2, <3>1 DEF Goto, localVars, IInv, LocalTypeOK, Holding
    <3>2. CASE Return(v)
      BY <2>2, <3>2
    <3> QED
      BY <2>4, <3>1, <3>2 DEF Claim
  <2>5. ASSUME NEW v \in Workers, Asked(v)
        PROVE  Same
    BY <2>2, <2>3, <2>5 DEF Asked, Submit, Reconcile, Resolve
  <2>6. ASSUME NEW v \in Workers, Continue(v), ~Claim(v)
        PROVE  Same
    BY <2>2, <2>3, <2>6
    DEF Continue, MoveToReady, Reread, CallAdapter, AdapterReturns, AdapterRaises,
        ReadAfterError, SaveError, ReadAnswer, PersistSent, Lookup, ApplyDecision, GiveUp,
        Goto, localVars
  <2>7. CASE Environment \/ UNCHANGED vars
    BY <1>2, <2>7
    DEF Environment, ReceiveCallback, BankCommit, LoseRequest, BankMoves, localVars, vars,
        Holding
  <2> QED
    BY <2>1, <2>4, <2>5, <2>6, <2>7 DEF Next
<1> QED
  BY <1>1, <1>2 DEF Called

\* Without a stale save a row keeps its past, and whether it shows an error.
LEMMA CallKeepsHistory ==
    ASSUME IInv, IInv', ToldInv, EventsInv, [Next]_vars, \A w \in Workers : ~SaveError(w),
           NEW o \in Ops, Registered(o)
    PROVE  StepHistory(o)
<1>1. ListedAreReceived /\ RInv /\ [RepositoryNext]_repositoryVars
  BY CallOrSave DEF EventsInv, RowsOnce, Once, ListedAreReceived, IInv
<1>2. RowsCarriedOn
  BY <1>1, StepCarriesOn
<1> QED
  BY <1>2, RowKeepsHistory DEF IInv, RInv, StepHistory

\* A stale save writes its error, and leaves the other rows alone.
LEMMA SaveWritesError ==
    ASSUME IInv, ErrorInv, [Next]_vars, NEW w \in Workers, SaveError(w), NEW o \in Ops
    PROVE  IF o = Op(w) THEN record[o].error = "none" /\ record'[o].error = "adapter_raised"
                        ELSE record'[o] = record[o]
<1> DEFINE r == [seen[w] EXCEPT !.terms = record[Op(w)].terms]
<1>1. pc[w] = "save_error" /\ record' = [record EXCEPT ![Op(w)] = r]
  BY DEF SaveError, Save
<1>2. Op(w) \in Ops /\ seen[w] \in IntegrationRecord
  BY <1>1, Sender DEF SendSteps, IInv, LocalTypeOK
<1>3. r.error = "adapter_raised" /\ record[Op(w)].error = "none"
  BY <1>1, <1>2 DEF IntegrationRecord, ErrorInv, SeenRaised, HoldersUntroubled, Holding
<1> HIDE DEF r
<1> QED
  BY <1>1, <1>2, <1>3 DEF IInv, RInv, RepositoryTypeOK

\* What a row does that is already there is kept of it.
LEMMA KeptSame ==
    ASSUME NEW r \in IntegrationRecord
    PROVE  KeepsHistory(r, r)
<1>1. CarriedOn(r, r)
  BY SameRow
<1> QED
  BY <1>1, CarriedKeepsHistory, NoRecordIsNone DEF KeepsHistory

LEMMA ErrorStep ==
    ASSUME IInv, IInv', ToldInv, EventsInv, ErrorInv, [Next]_vars
    PROVE  ErrorInv'
<1>1. SeenRaised'
  BY SeenFrom DEF ErrorInv, SeenRaised
<1>2. CASE \A w \in Workers : ~SaveError(w)
  <2>1. ASSUME NEW o \in Ops, Registered(o)
        PROVE  record'[o].error = record[o].error
    BY <1>2, <2>1, CallKeepsHistory DEF StepHistory
  <2>2. ASSUME NEW w \in Workers, pc'[w] \in Holding
        PROVE  record'[Op(w)'].error = "none"
    <3>1. /\ Op(w)' = Op(w) /\ pc[w] \in SendSteps
          /\ pc[w] \in Holding \/ ClaimSend(Op(w))
      BY <2>2, HoldingFrom, HoldingSends DEF Op, SendSteps
    <3>2. Op(w) \in Ops /\ Registered(Op(w)) /\ record[Op(w)] \in IntegrationRecord
      BY <3>1, Sender
    <3>3. record[Op(w)].error = "none"
      <4>1. CASE pc[w] \in Holding
        BY <4>1 DEF ErrorInv, HoldersUntroubled
      <4>2. CASE ClaimSend(Op(w))
        <5>1. record[Op(w)].attempts = 0
          BY <3>2, <4>2, ClaimSendStep DEF IInv
        <5> QED
          BY <3>2, <5>1 DEF ErrorInv, ErrorsClaimed, IntegrationRecord
      <4> QED
        BY <3>1, <4>1, <4>2
    <3> QED
      BY <2>1, <3>1, <3>2, <3>3
  <2>3. ASSUME NEW o \in Ops, Registered(o)', record'[o].error = "adapter_raised"
        PROVE  record'[o].attempts = 1
    <3>1. CASE Registered(o)
      <4>1. record[o].attempts = 1
        BY <2>1, <2>3, <3>1 DEF ErrorInv, ErrorsClaimed
      <4> QED
        BY <3>1, <4>1, RowsSurvive DEF RowsKept, RowKept
    <3>2. CASE ~Registered(o)
      <4>1. RowsCarriedOn
        BY <1>2, CallOrSave, StepCarriesOn
        DEF EventsInv, RowsOnce, Once, ListedAreReceived, IInv
      <4>2. PICK terms \in Terms : record'[o] = NewRecord(terms)
        BY <3>2, <2>3, <4>1 DEF RowsCarriedOn, RowCarriedOn
      <4> QED
        BY <2>3, <4>2 DEF NewRecord
    <3> QED
      BY <3>1, <3>2
  <2> QED
    BY <1>1, <2>2, <2>3 DEF ErrorInv, HoldersUntroubled, ErrorsClaimed
<1>3. ASSUME NEW v \in Workers, SaveError(v)
      PROVE  ErrorInv'
  <2>1. pc[v] \in Holding /\ pc'[v] \notin Holding /\ pc[v] \in SendSteps
    BY <1>3 DEF SaveError, Return, Holding, SendSteps, IInv, LocalTypeOK
  <2>2. ASSUME NEW w \in Workers, pc'[w] \in Holding
        PROVE  record'[Op(w)'].error = "none"
    <3>1. Op(w)' = Op(w) /\ pc[w] \in Holding
      BY <1>3, <2>1, <2>2, HoldingFrom DEF Op, SaveError, Return, IInv, LocalTypeOK, Holding
    <3>2. Op(w) # Op(v) /\ Op(w) \in Ops
      BY <2>1, <2>2, <3>1, Sender, HoldingSends DEF IInv, ClaimInv, OneHolder
    <3> QED
      BY <1>3, <3>1, <3>2, SaveWritesError DEF ErrorInv, HoldersUntroubled
  <2>3. ASSUME NEW o \in Ops, Registered(o)', record'[o].error = "adapter_raised"
        PROVE  record'[o].attempts = 1
    <3>1. CASE o = Op(v)
      <4>1. Registered(o) /\ record[o].attempts = 1
        BY <2>1, <3>1, Sender DEF IInv, ClaimInv, HoldersClaimed
      <4> QED
        BY <4>1, RowsSurvive DEF RowsKept, RowKept
    <3>2. CASE o # Op(v)
      <4>1. record'[o] = record[o]
        BY <1>3, <3>2, SaveWritesError
      <4> QED
        BY <2>3, <4>1 DEF ErrorInv, ErrorsClaimed, Registered
    <3> QED
      BY <3>1, <3>2
  <2> QED
    BY <1>1, <2>2, <2>3 DEF ErrorInv, HoldersUntroubled, ErrorsClaimed
<1> QED
  BY <1>2, <1>3

LEMMA HistoryStepOnce ==
    ASSUME IInv, IInv', ToldInv, EventsInv, ErrorInv, [Next]_vars, NEW o \in Ops, Registered(o)
    PROVE  /\ record[o].error = "adapter_raised" => record'[o].error = "adapter_raised"
           /\ record'[o].error = record[o].error => KeepsHistory(record[o], record'[o])
<1>1. CASE \A w \in Workers : ~SaveError(w)
  BY <1>1, CallKeepsHistory DEF StepHistory
<1>2. ASSUME NEW w \in Workers, SaveError(w)
      PROVE  /\ record[o].error = "adapter_raised" => record'[o].error = "adapter_raised"
             /\ record'[o].error = record[o].error => KeepsHistory(record[o], record'[o])
  <2>1. record[o] \in IntegrationRecord
    BY RowType DEF IInv, RInv
  <2> QED
    BY <1>2, <2>1, SaveWritesError, KeptSame
<1> QED
  BY <1>1, <1>2

LEMMA ErrorsKnown == Spec => [](IInv /\ ToldInv /\ EventsInv /\ ErrorInv)
<1> DEFINE I == IInv /\ ToldInv /\ EventsInv /\ ErrorInv
<1>1. Init => I
  <2>1. Init => EventsInv /\ ErrorInv
    BY DEF Init, RepositoryInit, EventsInv, RowsOnce, SeenOnce, ErrorInv, HoldersUntroubled,
           ErrorsClaimed, SeenRaised, Registered, Holding
  <2> QED
    BY <2>1, InitInv, InitTold
<1>2. I /\ [Next]_vars => I'
  BY NextInv, NextTold, RowsStayOnce, SeenStayOnce, ErrorStep DEF EventsInv
<1> QED
  BY <1>1, <1>2, PTL DEF Spec

(* A stale save is the only step that may lose history, and an operation   *)
(* suffers it once: its error stays, and what the row tells from then on   *)
(* stays too.                                                              *)
THEOREM StaleSaveIsTheOnlyLoss == Spec => HistoryLostOnce
<1> DEFINE Kept == \A o \in Ops : Registered(o) =>
                /\ record[o].error = "adapter_raised" => record'[o].error = "adapter_raised"
                /\ record'[o].error = record[o].error => KeepsHistory(record[o], record'[o])
<1>1. (IInv /\ ToldInv /\ EventsInv /\ ErrorInv /\ IInv' /\ [Next]_vars) => [Kept]_vars
  BY HistoryStepOnce
<1> HIDE DEF Kept
<1>2. Spec => [][Kept]_vars
  BY <1>1, ErrorsKnown, PTL DEF Spec
<1> QED
  BY <1>2 DEF HistoryLostOnce, Kept

-----------------------------------------------------------------------------
(* Conflicts, with stale saves among the steps.                            *)
Troubled(o) == Reviewed(o) \/ (Registered(o) /\ record[o].error = "adapter_raised")

ConflictSeenOrLost ==
    \A e \in conflicts :
        /\ inbox[e] # NoCallback
        /\ \E c \in Callbacks : c.event = e /\ c # inbox[e] /\ Troubled(c.op)

LEMMA TroubleLasts ==
    ASSUME IInv, ToldInv, EventsInv, ErrorInv, [Next]_vars, NEW o \in Ops, Troubled(o)
    PROVE  Troubled(o)'
<1>1. Registered(o) /\ Registered(o)'
  BY RowsSurvive DEF Troubled, Reviewed, RowsKept, RowKept, Registered
<1>2. CASE \A w \in Workers : ~SaveError(w)
  <2>1. RowsCarriedOn /\ RepositoryTypeOK
    BY <1>2, CallOrSave, StepCarriesOn
    DEF EventsInv, RowsOnce, Once, ListedAreReceived, IInv, RInv
  <2>2. record'[o].error = record[o].error
    BY <1>1, <2>1 DEF RowsCarriedOn, RowCarriedOn, CarriedOn
  <2> QED
    BY <1>1, <2>1, <2>2, ReviewLasts DEF Troubled
<1>3. ASSUME NEW w \in Workers, SaveError(w)
      PROVE  Troubled(o)'
  BY <1>1, <1>3, SaveWritesError DEF Troubled, Reviewed, Registered
<1> QED
  BY <1>2, <1>3

\* Only a conflicting delivery marks a conflict.
LEMMA ConflictsFrom ==
    ASSUME [Next]_vars
    PROVE  \/ conflicts' = conflicts
           \/ \E c \in Callbacks : /\ ApplyCallback(c) /\ ConflictingDelivery(c)
                                   /\ conflicts' = conflicts \cup {c.event}
<1>1. CASE \E ws \in Processes : Start(ws) \/ Crash(ws)
  BY <1>1 DEF Start, RecoverSending, Crash, repositoryVars
<1>2. CASE \E w \in Workers : Asked(w)
  BY <1>2 DEF Asked, Submit, Register, Reconcile, Resolve, repositoryVars
<1>3. CASE \E w \in Workers : Continue(w)
  BY <1>3
  DEF Continue, MoveToReady, Reread, Claim, CallAdapter, AdapterReturns, AdapterRaises,
      ReadAfterError, SaveError, ReadAnswer, PersistSent, Lookup, ApplyDecision, GiveUp,
      Transition, ClaimSend, Save, repositoryVars
<1>4. CASE \E c \in Callbacks : ReceiveCallback(c)
  BY <1>4
  DEF ReceiveCallback, ApplyCallback, FirstDelivery, Redelivery, ConflictingDelivery,
      repositoryVars
<1>5. CASE UNCHANGED vars \/ (Environment /\ ~\E c \in Callbacks : ReceiveCallback(c))
  BY <1>5 DEF Environment, BankCommit, LoseRequest, BankMoves, repositoryVars, vars
<1> QED
  BY <1>1, <1>2, <1>3, <1>4, <1>5 DEF Next, Environment

LEMMA ConflictsStaySeen ==
    ASSUME IInv, ToldInv, EventsInv, ErrorInv, ConflictSeenOrLost, [Next]_vars
    PROVE  ConflictSeenOrLost'
<1>1. ASSUME NEW e \in conflicts
      PROVE  /\ inbox'[e] # NoCallback
             /\ \E c \in Callbacks : c.event = e /\ c # inbox'[e] /\ Troubled(c.op)'
  <2>1. e \in Events /\ inbox[e] # NoCallback
    BY DEF IInv, RInv, RepositoryTypeOK, ConflictSeenOrLost
  <2>2. PICK c \in Callbacks : c.event = e /\ c # inbox[e] /\ Troubled(c.op)
    BY DEF ConflictSeenOrLost
  <2>3. inbox'[e] = inbox[e] /\ Troubled(c.op)'
    BY <2>1, <2>2, InboxSteps, TroubleLasts, CallbackType
  <2> QED
    BY <2>1, <2>2, <2>3
<1>2. ASSUME NEW c \in Callbacks, ApplyCallback(c), ConflictingDelivery(c)
      PROVE  inbox'[c.event] # NoCallback /\ c # inbox'[c.event] /\ Troubled(c.op)'
  BY <1>2, ConflictIsReviewed DEF ConflictingDelivery, Troubled, IInv, RInv
<1> QED
  BY <1>1, <1>2, ConflictsFrom DEF ConflictSeenOrLost

(* With an adapter that may raise, a conflicting payload is still seen: the *)
(* operation it names is under review, closed, or shows the error of the   *)
(* stale save that undid the review.                                       *)
THEOREM ConflictsAreSeenOrLost ==
    Spec => [](\A e \in conflicts : \E c \in Callbacks :
                    /\ c.event = e /\ c # inbox[e] /\ Registered(c.op)
                    /\ \/ record[c.op].status \in Terminal \cup {"manual_check"}
                       \/ record[c.op].error = "adapter_raised")
<1> DEFINE Seen == \A e \in conflicts : \E c \in Callbacks :
                    /\ c.event = e /\ c # inbox[e] /\ Registered(c.op)
                    /\ \/ record[c.op].status \in Terminal \cup {"manual_check"}
                       \/ record[c.op].error = "adapter_raised"
<1>1. Init => ConflictSeenOrLost
  BY DEF Init, RepositoryInit, ConflictSeenOrLost
<1>2. (IInv /\ ToldInv /\ EventsInv /\ ErrorInv /\ ConflictSeenOrLost /\ [Next]_vars)
            => ConflictSeenOrLost'
  BY ConflictsStaySeen
<1>3. ConflictSeenOrLost => Seen
  BY DEF ConflictSeenOrLost, Troubled, Reviewed
<1> HIDE DEF Seen
<1>4. Spec => []Seen
  BY <1>1, <1>2, <1>3, ErrorsKnown, PTL DEF Spec
<1> QED
  BY <1>4 DEF Seen

-----------------------------------------------------------------------------
(* Nothing goes on for ever. A row makes six moves at most, and a handler  *)
(* has seven steps at most: what is left to do shrinks with each of them.  *)
(* That it takes them is fairness, and the affair of HandlersEnd.          *)
SeenShort == \A w \in Workers : pc[w] = "save_error" => Short(seen[w])

LEMMA ShortStep ==
    ASSUME IInv, IInv', ToldInv, EventsInv, RowsShort, SeenShort, [Next]_vars
    PROVE  RowsShort' /\ SeenShort'
<1>1. ASSUME NEW o \in Ops, Registered(o)', \A w \in Workers : ~SaveError(w)
      PROVE  Short(record'[o])
  <2>1. RowsCarriedOn /\ RepositoryTypeOK
    BY <1>1, CallOrSave, StepCarriesOn
    DEF EventsInv, RowsOnce, Once, ListedAreReceived, IInv, RInv
  <2> QED
    BY <1>1, <2>1, RowsStayShort
<1>2. ASSUME NEW o \in Ops, Registered(o)', NEW w \in Workers, SaveError(w)
      PROVE  Short(record'[o])
  <2> DEFINE r == [seen[w] EXCEPT !.terms = record[Op(w)].terms]
  <2>1. pc[w] = "save_error" /\ record' = [record EXCEPT ![Op(w)] = r]
    BY <1>2 DEF SaveError, Save
  <2>2. Op(w) \in Ops /\ seen[w] \in IntegrationRecord
    BY <2>1, Sender DEF SendSteps, IInv, LocalTypeOK
  <2>3. Short(r)
    BY <2>1, <2>2 DEF SeenShort, Short, IntegrationRecord
  <2> HIDE DEF r
  <2> QED
    BY <1>2, <2>1, <2>2, <2>3
    DEF RowsShort, IInv, RInv, RepositoryTypeOK, Registered
<1>3. ASSUME NEW w \in Workers, pc'[w] = "save_error"
      PROVE  Short(seen'[w])
  <2>1. CASE pc[w] = "save_error" /\ seen'[w] = seen[w]
    BY <2>1 DEF SeenShort
  <2>2. CASE /\ pc[w] = "read_error" /\ seen'[w].status = record[Op(w)].status
             /\ seen'[w].audit = record[Op(w)].audit
    <3>1. Op(w) \in Ops /\ Registered(Op(w))
      BY <2>2, Sender DEF SendSteps
    <3> QED
      BY <2>2, <3>1 DEF RowsShort, Short
  <2> QED
    BY <1>3, <2>1, <2>2, SeenFrom
<1>4. RowsShort'
  BY <1>1, <1>2 DEF RowsShort, Short
<1>5. SeenShort'
  BY <1>3 DEF SeenShort, Short
<1> QED
  BY <1>4, <1>5

(* An operation makes at most six moves, for the table has no cycle and a  *)
(* stale save only takes moves back.                                       *)
THEOREM TrailsAreShort ==
    Spec => [](\A o \in Ops : Registered(o) => Len(record[o].audit) <= 6)
<1> DEFINE Six == \A o \in Ops : Registered(o) => Len(record[o].audit) <= 6
<1>1. Init => RowsShort /\ SeenShort
  BY DEF Init, RepositoryInit, RowsShort, SeenShort, Registered
<1>2. (IInv /\ IInv' /\ ToldInv /\ EventsInv /\ RowsShort /\ SeenShort /\ [Next]_vars)
            => (RowsShort /\ SeenShort)'
  BY ShortStep
<1>3. IInv /\ RowsShort => Six
  BY RowType, ShortIsSix DEF RowsShort, IInv, RInv
<1> HIDE DEF Six
<1>4. Spec => []Six
  BY <1>1, <1>2, <1>3, ErrorsKnown, PTL DEF Spec
<1> QED
  BY <1>4 DEF Six

\* Steps a handler has before it, at most.
Left(step) ==
    CASE step = "transition" -> 7
      [] step = "reread" -> 6
      [] step = "claim" -> 5
      [] step = "send" -> 4
      [] step = "await" -> 3
      [] step \in {"read_error", "read_answer", "lookup"} -> 2
      [] step \in {"save_error", "persist_sent", "apply"} -> 1
      [] OTHER -> 0

LEMMA ContinueMoves ==
    ASSUME IInv, NEW w \in Workers, Continue(w)
    PROVE  /\ Left(pc'[w]) < Left(pc[w])
           /\ \A v \in Workers \ {w} : pc'[v] = pc[v]
<1>1. ASSUME NEW step, pc' = [pc EXCEPT ![w] = step], Left(step) < Left(pc[w])
      PROVE  /\ Left(pc'[w]) < Left(pc[w])
             /\ \A v \in Workers \ {w} : pc'[v] = pc[v]
  BY <1>1 DEF IInv, LocalTypeOK
<1>2. ASSUME pc[w] \in Steps, Return(w)
      PROVE  /\ Left(pc'[w]) < Left(pc[w])
             /\ \A v \in Workers \ {w} : pc'[v] = pc[v]
  <2>1. Left("idle") < Left(pc[w])
    BY <1>2 DEF Left, Steps, SendSteps, DecisionSteps
  <2> QED
    BY <1>1, <1>2, <2>1 DEF Return
<1>3. CASE MoveToReady(w) \/ Reread(w) \/ Claim(w) \/ CallAdapter(w)
  <2>1. \/ pc[w] = "transition" /\ (Goto(w, "claim") \/ Goto(w, "reread"))
        \/ pc[w] = "reread" /\ (Goto(w, "claim") \/ Return(w))
        \/ pc[w] = "claim" /\ (Goto(w, "send") \/ Return(w))
        \/ pc[w] = "send" /\ Goto(w, "await")
    BY <1>3 DEF MoveToReady, Reread, Claim, CallAdapter
  <2>2. CASE Return(w)
    BY <1>2, <2>1, <2>2 DEF Steps, SendSteps
  <2>3. ASSUME NEW step, Goto(w, step), Left(step) < Left(pc[w])
        PROVE  /\ Left(pc'[w]) < Left(pc[w])
               /\ \A v \in Workers \ {w} : pc'[v] = pc[v]
    BY <1>1, <2>3 DEF Goto
  <2>4. /\ Left("claim") < Left("transition") /\ Left("reread") < Left("transition")
        /\ Left("claim") < Left("reread") /\ Left("send") < Left("claim")
        /\ Left("await") < Left("send")
    BY DEF Left
  <2> QED
    BY <2>1, <2>2, <2>3, <2>4
<1>4. CASE AdapterReturns(w) \/ AdapterRaises(w) \/ ReadAfterError(w) \/ ReadAnswer(w)
            \/ Lookup(w)
  <2>1. \/ pc[w] = "await" /\ pc' = [pc EXCEPT ![w] = "read_answer"]
        \/ pc[w] = "await" /\ pc' = [pc EXCEPT ![w] = "read_error"]
        \/ pc[w] = "read_error" /\ pc' = [pc EXCEPT ![w] = "save_error"]
        \/ pc[w] = "read_answer" /\ pc' = [pc EXCEPT ![w] = "persist_sent"]
        \/ pc[w] = "read_answer" /\ Return(w)
        \/ pc[w] = "lookup" /\ pc' = [pc EXCEPT ![w] = "apply"]
    BY <1>4 DEF AdapterReturns, AdapterRaises, ReadAfterError, ReadAnswer, Lookup, Goto
  <2>2. CASE pc[w] = "read_answer" /\ Return(w)
    BY <1>2, <2>2 DEF Steps, SendSteps
  <2>3. /\ Left("read_answer") < Left("await") /\ Left("read_error") < Left("await")
        /\ Left("save_error") < Left("read_error")
        /\ Left("persist_sent") < Left("read_answer") /\ Left("apply") < Left("lookup")
    BY DEF Left
  <2> QED
    BY <1>1, <2>1, <2>2, <2>3
<1>5. CASE SaveError(w) \/ PersistSent(w) \/ ApplyDecision(w) \/ GiveUp(w)
  BY <1>2, <1>5 DEF SaveError, PersistSent, ApplyDecision, GiveUp, Steps, SendSteps,
     DecisionSteps
<1> QED
  BY <1>3, <1>4, <1>5 DEF Continue

LEMMA HandlerMoves ==
    ASSUME IInv, [Next]_vars, NEW w \in Workers, pc[w] \in Steps
    PROVE  /\ pc'[w] = pc[w] \/ Left(pc'[w]) < Left(pc[w])
           /\ Continue(w) => Left(pc'[w]) < Left(pc[w])
<1>1. ASSUME NEW v \in Workers, Continue(v)
      PROVE  /\ pc'[w] = pc[w] \/ Left(pc'[w]) < Left(pc[w])
             /\ Continue(w) => Left(pc'[w]) < Left(pc[w])
  BY <1>1, ContinueMoves
<1>2. ASSUME NEW v \in Workers, Asked(v)
      PROVE  pc'[w] = pc[w]
  <2>1. pc[v] = "idle" /\ v # w
    BY <1>2 DEF Asked, Submit, Reconcile, Resolve, Steps, SendSteps, DecisionSteps
  <2> QED
    BY <1>2, <2>1
    DEF Asked, Submit, Reconcile, Resolve, Return, IInv, LocalTypeOK
<1>3. Environment \/ UNCHANGED vars => pc' = pc
  BY DEF Environment, ReceiveCallback, BankCommit, LoseRequest, BankMoves, localVars, vars
<1>4. ASSUME NEW ws \in Processes, Start(ws) \/ Crash(ws)
      PROVE  pc'[w] = pc[w] \/ pc'[w] = "down"
  BY <1>4 DEF Start, ComeUp, Crash, IInv, LocalTypeOK, Steps, SendSteps, DecisionSteps
<1>5. Left("down") < Left(pc[w])
  BY DEF Left, Steps, SendSteps, DecisionSteps
<1>6. Continue(w) => Left(pc'[w]) < Left(pc[w])
  BY ContinueMoves
<1> QED
  BY <1>1, <1>2, <1>3, <1>4, <1>5, <1>6 DEF Next

(* The safety half of HandlersEnd: whatever anybody does, a handler that   *)
(* has begun never goes back, and each step of its own brings it nearer to *)
(* its end.                                                                *)
THEOREM HandlersOnlyGoOn ==
    Spec => [][\A w \in Workers : pc[w] \in Steps =>
                    /\ pc'[w] = pc[w] \/ Left(pc'[w]) < Left(pc[w])
                    /\ Continue(w) => Left(pc'[w]) < Left(pc[w])]_vars
<1> DEFINE Nearer == \A w \in Workers : pc[w] \in Steps =>
                    /\ pc'[w] = pc[w] \/ Left(pc'[w]) < Left(pc[w])
                    /\ Continue(w) => Left(pc'[w]) < Left(pc[w])
<1>1. IInv /\ [Next]_vars => [Nearer]_vars
  BY HandlerMoves
<1> HIDE DEF Nearer
<1>2. Spec => [][Nearer]_vars
  BY <1>1, Invariant, PTL DEF Spec
<1> QED
  BY <1>2 DEF Nearer

-----------------------------------------------------------------------------
(* How far the runs that end in a violation reach: under which conditions  *)
(* what they refute holds, and how often it can fail.                      *)

\* A row that left sending is taken back to it by no call of the repository.
LEMMA CallsLeaveAnswers ==
    ASSUME IInv, IInv', ToldInv, EventsInv, [Next]_vars, \A w \in Workers : ~SaveError(w),
           NEW o \in Ops, Registered(o), record[o].attempts = 1,
           record[o].status # "sending"
    PROVE  record'[o].status # "sending"
<1>1. RowsCarriedOn
  BY CallOrSave, StepCarriesOn DEF EventsInv, RowsOnce, Once, ListedAreReceived, IInv
<1>2. SameStory(record[o], record'[o]) \/ OneMove(record[o], record'[o])
  BY <1>1 DEF RowsCarriedOn, RowCarriedOn, CarriedOn
<1>3. record[o].status \notin {"prepared", "ready_to_send"}
  BY DEF IInv, RInv, ClaimedOnce
<1>4. \A a \in AuditEvent : a.old # "ready_to_send" => "sending" \notin TRANSITIONS[a.old]
  BY DEF AuditEvent, Status, TRANSITIONS
<1>5. CASE OneMove(record[o], record'[o])
  <2>1. PICK a \in AuditEvent : /\ a.old = record[o].status /\ a.new = record'[o].status
                                /\ a.new \in TRANSITIONS[a.old]
    BY <1>5 DEF OneMove
  <2> QED
    BY <1>3, <1>4, <2>1
<1> QED
  BY <1>2, <1>5 DEF SameStory

(* Run lost_update: an answer of the bank is overwritten by nothing but    *)
(* the save of a failed send, which leaves its error; as the error stays   *)
(* (HistoryLostOnce), that is once at most in the life of an operation.    *)
THEOREM AnswersAreLostOnce ==
    Spec => [][\A o \in Ops :
                (/\ Registered(o) /\ record[o].attempts = 1 /\ record[o].status # "sending"
                 /\ record'[o].status = "sending")
                    => record[o].error = "none" /\ record'[o].error = "adapter_raised"]_vars
<1> DEFINE Lost == \A o \in Ops :
                (/\ Registered(o) /\ record[o].attempts = 1 /\ record[o].status # "sending"
                 /\ record'[o].status = "sending")
                    => record[o].error = "none" /\ record'[o].error = "adapter_raised"
<1>1. ASSUME IInv, IInv', ToldInv, EventsInv, ErrorInv, [Next]_vars, NEW o \in Ops,
             Registered(o), record[o].attempts = 1, record[o].status # "sending",
             record'[o].status = "sending"
      PROVE  record[o].error = "none" /\ record'[o].error = "adapter_raised"
  <2>1. PICK w \in Workers : SaveError(w)
    BY <1>1, CallsLeaveAnswers
  <2> QED
    BY <1>1, <2>1, SaveWritesError
<1>2. (IInv /\ IInv' /\ ToldInv /\ EventsInv /\ ErrorInv /\ [Next]_vars) => [Lost]_vars
  BY <1>1
<1> HIDE DEF Lost
<1>3. Spec => [][Lost]_vars
  BY <1>2, ErrorsKnown, PTL DEF Spec
<1> QED
  BY <1>3 DEF Lost

(* Over an adapter that always answers, no answer of the bank is lost.     *)
THEOREM AnswersStayWithoutErrors ==
    ASSUME ~AdapterMayRaise
    PROVE  Spec => EvidenceNotOverwritten
<1> DEFINE Stays == \A o \in Ops :
                        (Registered(o) /\ record[o].attempts = 1 /\ record[o].status # "sending")
                            => record'[o].status # "sending"
<1>1. (IInv /\ IInv' /\ ToldInv /\ EventsInv /\ NeverRaised /\ [Next]_vars) => [Stays]_vars
  BY CallsLeaveAnswers DEF SaveError, NeverRaised
<1> HIDE DEF Stays
<1>2. Spec => [][Stays]_vars
  BY <1>1, ErrorsKnown, CalmInvariant, PTL DEF Spec
<1> QED
  BY <1>2 DEF EvidenceNotOverwritten, Stays
=============================================================================
