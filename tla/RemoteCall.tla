----------------------------- MODULE RemoteCall -----------------------------
(***************************************************************************)
(* What msg_send_req_to_media_*_mailbox_sync promises its caller: the      *)
(* request is handled on the other CPU at most once, the caller gets the   *)
(* answer the handler gave, and a call that reports failure on its own     *)
(* account was never handled at all.                                       *)
(***************************************************************************)
CONSTANT Calls

VARIABLES outcome,     \* what the caller knows: idle, waiting, ok or fail
          service      \* what the handler has done: none, serving, ok or fail

vars == <<outcome, service>>

Init == /\ outcome = [m \in Calls |-> "idle"]
        /\ service = [m \in Calls |-> "none"]

Call(m) == /\ outcome[m] = "idle"
           /\ outcome' = [outcome EXCEPT ![m] = "waiting"]
           /\ UNCHANGED service

Serve(m) == /\ outcome[m] = "waiting" /\ service[m] = "none"
            /\ service' = [service EXCEPT ![m] = "serving"]
            /\ UNCHANGED outcome

Answer(m) == /\ service[m] = "serving"
             /\ \E r \in {"ok", "fail"} : service' = [service EXCEPT ![m] = r]
             /\ UNCHANGED outcome

Return(m) == /\ outcome[m] = "waiting"
             /\ \/ /\ service[m] \in {"ok", "fail"}
                   /\ outcome' = [outcome EXCEPT ![m] = service[m]]
                \/ /\ service[m] = "none"
                   /\ outcome' = [outcome EXCEPT ![m] = "fail"]
             /\ UNCHANGED service

Next == \E m \in Calls : Call(m) \/ Serve(m) \/ Answer(m) \/ Return(m)

Spec == Init /\ [][Next]_vars
=============================================================================
