---------------------------- MODULE MCRepository ----------------------------
(* Two operations and three event ids. Event e1 is announced for both      *)
(* operations with different payloads, so that whichever arrives second is *)
(* a conflict on another operation than the first.                         *)
EXTENDS IntegrationRepository

Callback(e, o, s, x) == [event |-> e, op |-> o, status |-> s, ext |-> x]

MCCallbacks ==
    {Callback("e1", "o1", "accepted", "x1"),
     Callback("e1", "o2", "rejected", NoExt),
     Callback("e2", "o1", "executed", NoExt),
     Callback("e3", "o2", "accepted", "x2")}

Call(s, source, x) == [to |-> s, source |-> source, ext |-> x]

MCCalls ==
    {Call("ready_to_send", "1c", NoExt),
     Call("sent", "bank_adapter", "x1"),
     Call("accepted", "bank_status_lookup", "x1"),
     Call("executed", "bank_status_lookup", NoExt),
     Call("rejected", "manual_resolution", NoExt),
     Call("returned", "manual_resolution", NoExt)}
=============================================================================
