--------------------------- MODULE ElementCallbacks ---------------------------
(***************************************************************************)
(* What an audio element promises to the functions it is made of: open,    *)
(* process and close are called one at a time and in turn.  Whatever open  *)
(* acquires is released by exactly one close, which follows also an open   *)
(* that failed, and process is called only between a successful open and   *)
(* the close that belongs to it.                                           *)
(***************************************************************************)
VARIABLE phase

Init == phase = "closed"

Open == phase = "closed" /\ phase' = "opening"
OpenReturns == phase = "opening" /\ phase' \in {"open", "failed"}
Process == phase = "open" /\ phase' = "processing"
ProcessReturns == phase = "processing" /\ phase' = "open"
Close == phase \in {"open", "failed"} /\ phase' = "closed"

Next == Open \/ OpenReturns \/ Process \/ ProcessReturns \/ Close

Spec == Init /\ [][Next]_phase
=============================================================================
