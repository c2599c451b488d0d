-------------------------- MODULE PaymentLifecycle --------------------------
(***************************************************************************)
(* What the control plane promises about one payment operation, without    *)
(* saying how (README.md, docs/payment-lifecycle.md): it waits, it is      *)
(* authorised for sending once, the authorisation is spent on at most one  *)
(* call to the bank, uncertainty never puts it back to waiting, a person   *)
(* may have to look at it, and once it is closed it stays closed.          *)
(***************************************************************************)
CONSTANT Ops

VARIABLES
    phase,        \* phase[o]: "unknown", "waiting", "working", "review" or "closed"
    authorised    \* operations that may still be sent

vars == <<phase, authorised>>

Init ==
    /\ phase = [o \in Ops |-> "unknown"]
    /\ authorised = {}

Register(o) ==
    /\ phase[o] = "unknown"
    /\ phase' = [phase EXCEPT ![o] = "waiting"]
    /\ UNCHANGED authorised

Authorise(o) ==
    /\ phase[o] = "waiting"
    /\ phase' = [phase EXCEPT ![o] = "working"]
    /\ authorised' = authorised \cup {o}

(* The authorisation is spent even if the bank's answer never comes.       *)
Send(o) ==
    /\ o \in authorised
    /\ authorised' = authorised \ {o}
    /\ UNCHANGED phase

Review(o) ==
    /\ phase[o] \in {"waiting", "working"}
    /\ phase' = [phase EXCEPT ![o] = "review"]
    /\ UNCHANGED authorised

Close(o) ==
    /\ phase[o] \in {"working", "review"}
    /\ phase' = [phase EXCEPT ![o] = "closed"]
    /\ UNCHANGED authorised

Next == \E o \in Ops :
            Register(o) \/ Authorise(o) \/ Send(o) \/ Review(o) \/ Close(o)

Spec == Init /\ [][Next]_vars
=============================================================================
