---------------------------- MODULE BankEmulator ----------------------------
(***************************************************************************)
(* The HTTP bank emulator (bank_emulator.py): a durable ledger, one event  *)
(* loop, and the callbacks it posts to a webhook. Clients may send any     *)
(* payment in any test mode, and a tester may set a status at any time.    *)
(*                                                                         *)
(* The endpoints are coroutines of one loop, and _callback is a blocking   *)
(* call. In two places - the mode callback_before_response and set_status  *)
(* - it is made from a coroutine, so the loop serves nobody until the      *)
(* webhook answers or the client's timeout ends the wait. In the other     *)
(* modes it is a background task that a thread runs after the response;    *)
(* the loop is needed only to start it.                                    *)
(*                                                                         *)
(* A callback travels on its own: it may be processed after the emulator   *)
(* has stopped waiting for its answer, or never.                           *)
(***************************************************************************)
EXTENDS Naturals, Sequences, FiniteSets

CONSTANTS
    Ops,              \* operation ids
    Payments,         \* envelopes clients may send; p.op is the operation id
    ExtIdOf,          \* external id: a hash of the operation id
    Modes,            \* test modes clients may ask for
    DesiredStatuses,  \* statuses clients may ask for
    SettableStatuses, \* statuses testers may set
    ChosenIds,        \* event ids testers may choose for set_status
    Handlers,         \* bound: requests the emulator works on at the same time
    MaxLate,          \* bound: callbacks still travelling that nobody waits for
    NoRow,            \* no row in bank_payments
    NoPayment

TestModes == {"normal", "response_lost_after_commit", "delayed_response",
              "callback_before_response", "duplicate_callback",
              "conflicting_callback"}

\* Event ids end in ":accepted" for every submission, whatever its status, in
\* the status for set_status, or in ":accepted:duplicate".
EventIds == (Ops \X (SettableStatuses \cup {"accepted", "duplicate"})) \cup ChosenIds

AcceptedId(o) == <<o, "accepted">>

BankStatuses == DesiredStatuses \cup SettableStatuses
ToldStatuses == BankStatuses \cup {"accepted", "rejected"}

ASSUME EmulatorAssumption ==
    /\ \A p \in Payments : p.op \in Ops
    /\ Modes \subseteq TestModes
    /\ SettableStatuses \subseteq {"accepted", "executed", "rejected"}
    /\ MaxLate \in Nat
    /\ NoPayment \notin Payments
    /\ NoRow \notin [payment : Payments, status : BankStatuses]

\* The body of a callback.
Callback(o, s, event) == [event |-> event, op |-> o, status |-> s, ext |-> ExtIdOf[o]]

BankCallbacks == {Callback(o, s, e) : o \in Ops, s \in ToldStatuses, e \in EventIds}

VARIABLES
    ledger,    \* bank_payments: payment and status of an operation, or NoRow
    attempts,  \* bank_callback_attempts: what was recorded last of an event and status
    handler,   \* handler[h]: a request the emulator is working on
    posted,    \* callbacks on their way to the webhook, with the handler that posted them
    replies,   \* payments whose submission was answered with 200
    had        \* history: the statuses the ledger has ever shown of an operation

emulatorVars == <<ledger, attempts, handler, posted, replies, had>>

(* What becomes of a callback, from the emulator's side: answered with     *)
(* 200, or not - another code and no answer at all are one here, as        *)
(* nothing reads the http_status column.                                   *)
Outcomes == {"200", "failed"}

(* A request in progress: the callbacks still to be posted, the answer to  *)
(* the one it waits for, the payment whose response is still owed, and     *)
(* whether it runs on the loop (blocking).                                 *)
HandlerStates ==
    [phase    : {"idle", "sleeping", "posting", "waiting"},
     blocking : BOOLEAN,
     todo     : Seq(BankCallbacks),
     heard    : Outcomes \cup {"nothing"},
     owes     : Payments \cup {NoPayment}]

Idle == [phase |-> "idle", blocking |-> FALSE, todo |-> <<>>,
         heard |-> "nothing", owes |-> NoPayment]

Busy(phase, blocking, todo, owes) ==
    [phase |-> phase, blocking |-> blocking, todo |-> todo,
     heard |-> "nothing", owes |-> owes]

EmulatorTypeOK ==
    /\ ledger \in [Ops -> [payment : Payments, status : BankStatuses] \cup {NoRow}]
    /\ attempts \in [EventIds \X ToldStatuses -> Outcomes \cup {"no_row"}]
    /\ handler \in [Handlers -> HandlerStates]
    /\ posted \in SUBSET [by : Handlers, callback : BankCallbacks]
    /\ replies \in SUBSET Payments
    /\ had \in [Ops -> SUBSET BankStatuses]
    \* the loop is held only by a handler with a callback to wait for, and
    \* only a handler that has not answered owes a response
    /\ \A h \in Handlers :
        /\ handler[h].phase = "idle" => handler[h] = Idle
        /\ handler[h].phase # "idle" => handler[h].todo # <<>>
        /\ handler[h].phase = "sleeping" => ~handler[h].blocking /\ handler[h].owes # NoPayment
        /\ handler[h].owes # NoPayment => handler[h].phase = "sleeping" \/ handler[h].blocking

EmulatorInit ==
    /\ ledger = [o \in Ops |-> NoRow]
    /\ attempts = [k \in EventIds \X ToldStatuses |-> "no_row"]
    /\ handler = [h \in Handlers |-> Idle]
    /\ posted = {}
    /\ replies = {}
    /\ had = [o \in Ops |-> {}]

Committed(o) == ledger[o] # NoRow

\* A handler that runs on the loop keeps everybody else off it.
LoopFree == \A h \in Handlers : ~handler[h].blocking

-----------------------------------------------------------------------------
(* commit_payment: the first payment of an operation is kept; the same     *)
(* payment again finds it, another one is refused with 409.                *)
\* Mutant: the payload hash is not compared.
NeverRefused(p) == FALSE

RefusedPayment(p) == Committed(p.op) /\ ledger[p.op].payment # p

RowAfterCommit(p, desired) ==
    IF Committed(p.op) THEN ledger[p.op] ELSE [payment |-> p, status |-> desired]

(* What the mode makes the emulator tell the webhook, in this order.       *)
\* Mutant: the status the client asks for is told, not that of the row.
DesiredCallbacks(p, mode, desired) == <<Callback(p.op, desired, AcceptedId(p.op))>>

CallbacksOf(p, mode, desired) ==
    LET o == p.op
        status == RowAfterCommit(p, desired).status
    IN  CASE mode = "duplicate_callback" ->
                <<Callback(o, status, AcceptedId(o)), Callback(o, status, <<o, "duplicate">>)>>
          [] mode = "conflicting_callback" ->
                <<Callback(o, "accepted", AcceptedId(o)), Callback(o, "rejected", AcceptedId(o))>>
          [] OTHER -> <<Callback(o, status, AcceptedId(o))>>

(* POST /payments. The response of a mode without an await in it leaves in *)
(* the same step; its background tasks follow.                             *)
AnswerNow(h, p, todo) ==
    /\ handler' = [handler EXCEPT ![h] = Busy("posting", FALSE, todo, NoPayment)]
    /\ replies' = replies \cup {p}

AnswerLater(h, p, phase, blocking, todo) ==
    /\ handler' = [handler EXCEPT ![h] = Busy(phase, blocking, todo, p)]
    /\ UNCHANGED replies

Submit(h, p, mode, desired) ==
    LET row == RowAfterCommit(p, desired)
        todo == CallbacksOf(p, mode, desired)
    IN  /\ LoopFree
        /\ handler[h].phase = "idle"
        /\ ~RefusedPayment(p)
        /\ ledger' = [ledger EXCEPT ![p.op] = row]
        /\ had' = [had EXCEPT ![p.op] = @ \cup {row.status}]
        /\ \/ /\ mode = "response_lost_after_commit"
              /\ UNCHANGED <<handler, replies>>
           \/ /\ mode = "delayed_response"
              /\ AnswerLater(h, p, "sleeping", FALSE, todo)
           \/ /\ mode = "callback_before_response"
              /\ AnswerLater(h, p, "posting", TRUE, todo)
           \/ /\ mode \in {"normal", "duplicate_callback", "conflicting_callback"}
              /\ AnswerNow(h, p, todo)
        /\ UNCHANGED <<attempts, posted>>

\* asyncio.sleep ends; the callback tells what the row was before it.
WakeUp(h) ==
    /\ LoopFree
    /\ handler[h].phase = "sleeping"
    /\ AnswerNow(h, handler[h].owes, handler[h].todo)
    /\ UNCHANGED <<ledger, attempts, posted, had>>

(* POST /testing/payments/{operation_id}/status: the row, then the         *)
(* callback, on the loop.                                                  *)
SetStatus(h, o, s, event) ==
    /\ LoopFree
    /\ handler[h].phase = "idle"
    /\ Committed(o)
    /\ ledger' = [ledger EXCEPT ![o].status = s]
    /\ had' = [had EXCEPT ![o] = @ \cup {s}]
    /\ handler' = [handler EXCEPT ![h] =
                     Busy("posting", TRUE, <<Callback(o, s, event)>>, NoPayment)]
    /\ UNCHANGED <<attempts, posted, replies>>

-----------------------------------------------------------------------------
(* _callback and record_callback.                                          *)
WaitsFor(x) ==
    /\ handler[x.by].phase = "waiting"
    /\ Head(handler[x.by].todo) = x.callback

PostCallback(h) ==
    /\ handler[h].phase = "posting"
    /\ handler[h].blocking \/ LoopFree
    /\ posted' = posted \cup {[by |-> h, callback |-> Head(handler[h].todo)]}
    /\ handler' = [handler EXCEPT ![h].phase = "waiting"]
    /\ UNCHANGED <<ledger, attempts, replies, had>>

\* The wait ends: INSERT OR REPLACE of what is known, then the next callback,
\* or the response that is owed.
\* Mutant: only a callback that was taken is recorded.
RecordAnswerOnly(h, outcome) ==
    LET s == handler[h]
        c == Head(s.todo)
        done == Len(s.todo) = 1
    IN  /\ attempts' = IF outcome = "failed" THEN attempts
                       ELSE [attempts EXCEPT ![<<c.event, c.status>>] = outcome]
        /\ handler' = [handler EXCEPT ![h] =
                         IF done THEN Idle
                         ELSE Busy("posting", s.blocking, Tail(s.todo), s.owes)]
        /\ replies' = IF done THEN replies \cup ({s.owes} \ {NoPayment}) ELSE replies
        /\ UNCHANGED <<ledger, had>>

\* Mutant: the loop is held on after the last callback.
RecordHoldingLoop(h, outcome) ==
    LET s == handler[h]
        c == Head(s.todo)
        done == Len(s.todo) = 1
    IN  /\ attempts' = [attempts EXCEPT ![<<c.event, c.status>>] = outcome]
        /\ handler' = [handler EXCEPT ![h] =
                         IF done THEN [Idle EXCEPT !.blocking = s.blocking]
                         ELSE Busy("posting", s.blocking, Tail(s.todo), s.owes)]
        /\ replies' = IF done THEN replies \cup ({s.owes} \ {NoPayment}) ELSE replies
        /\ UNCHANGED <<ledger, had>>

RecordCallback(h, outcome) ==
    LET s == handler[h]
        c == Head(s.todo)
        done == Len(s.todo) = 1
    IN  /\ attempts' = [attempts EXCEPT ![<<c.event, c.status>>] = outcome]
        /\ handler' = [handler EXCEPT ![h] =
                         IF done THEN Idle
                         ELSE Busy("posting", s.blocking, Tail(s.todo), s.owes)]
        /\ replies' = IF done THEN replies \cup ({s.owes} \ {NoPayment}) ELSE replies
        /\ UNCHANGED <<ledger, had>>

CallbackAnswered(h) ==
    /\ handler[h].phase = "waiting"
    /\ handler[h].heard # "nothing"
    /\ RecordCallback(h, handler[h].heard)
    /\ UNCHANGED posted

\* Mutant: httpx.post without a timeout.
NoTimeout(h) == FALSE /\ UNCHANGED emulatorVars

\* timeout=3, or the connection fails. The callback goes on travelling, unless
\* MaxLate others do already: then it is lost at this moment.
CallbackTimesOut(h) ==
    /\ handler[h].phase = "waiting"
    /\ handler[h].heard = "nothing"
    /\ RecordCallback(h, "failed")
    /\ posted' = IF Cardinality({x \in posted : ~WaitsFor(x)}) < MaxLate THEN posted
                 ELSE posted \ {[by |-> h, callback |-> Head(handler[h].todo)]}

-----------------------------------------------------------------------------
(* The webhook, external: it answers, and the answer counts if the handler *)
(* still waits for it; or the callback or its answer is lost.              *)
Answered(x, code) ==
    /\ posted' = posted \ {x}
    /\ handler' = IF WaitsFor(x) THEN [handler EXCEPT ![x.by].heard = code] ELSE handler

Lost(x) ==
    /\ posted' = posted \ {x}
    /\ UNCHANGED handler

Webhook(x) ==
    /\ Lost(x) \/ \E code \in Outcomes : Answered(x, code)
    /\ UNCHANGED <<ledger, attempts, replies, had>>

-----------------------------------------------------------------------------
SubmitAny(h) ==
    \E p \in Payments, mode \in Modes, desired \in DesiredStatuses :
        Submit(h, p, mode, desired)

SetStatusAny(h) ==
    \E o \in Ops, s \in SettableStatuses :
        \E event \in {<<o, s>>} \cup ChosenIds : SetStatus(h, o, s, event)

\* What an emulator does with a request it has begun.
HandlerStep(h) ==
    \/ WakeUp(h) \/ PostCallback(h) \/ CallbackAnswered(h) \/ CallbackTimesOut(h)

EmulatorNext ==
    \/ \E h \in Handlers : SubmitAny(h) \/ SetStatusAny(h) \/ HandlerStep(h)
    \/ \E x \in posted : Webhook(x)

EmulatorSpec == EmulatorInit /\ [][EmulatorNext]_emulatorVars

-----------------------------------------------------------------------------
(* A submission is answered with 200 only if the ledger holds that very    *)
(* payment, and goes on holding it: bank_payments is written before any    *)
(* response and never for another payload.                                 *)
AnsweredIsCommitted ==
    \A p \in replies : Committed(p.op) /\ ledger[p.op].payment = p

(* Whatever the emulator tells about an operation, the ledger has shown,   *)
(* except for the two made-up statuses of conflicting_callback: a stale    *)
(* row of a delayed response, a repeated submission that asks for another  *)
(* status, or a status set meanwhile make a callback late, not false.      *)
CallbackTellsTheLedger ==
    LET told == {x.callback : x \in posted}
                    \cup UNION {{handler[h].todo[i] : i \in DOMAIN handler[h].todo}
                                    : h \in Handlers}
    IN  \A c \in told :
            \/ c.status \in had[c.op]
            \/ /\ "conflicting_callback" \in Modes
               /\ Committed(c.op)
               /\ c.event = AcceptedId(c.op) /\ c.status \in {"accepted", "rejected"}

(* A callback may overtake another one of the same handler only after the  *)
(* emulator has stopped waiting for the first: of every callback that is   *)
(* still travelling, either its handler waits for it, or an attempt was    *)
(* recorded.                                                               *)
TravellerIsAccountedFor ==
    \A x \in posted :
        WaitsFor(x) \/ attempts[<<x.callback.event, x.callback.status>>] # "no_row"

(* Every request the emulator has begun is finished and the loop is freed, *)
(* although the webhook may never answer.                                  *)
RequestsEnd ==
    \A h \in Handlers : handler[h].phase # "idle" ~> handler[h].phase = "idle"
=============================================================================
