----------------------------- MODULE FrameLease -----------------------------
(***************************************************************************)
(* What the pool of encoded frames promises to the producer and to the     *)
(* modules that read: a frame is made by the producer alone, is lent to    *)
(* each module at most once after it was published, and is made anew only  *)
(* when nobody holds it any more.                                          *)
(***************************************************************************)
CONSTANTS Frame, Module

VARIABLES place,       \* of each frame: free, made or ready
          holders,     \* the modules it is lent to
          seen         \* the modules it was lent to since it is ready

vars == <<place, holders, seen>>

Init == /\ place = [f \in Frame |-> "free"]
        /\ holders = [f \in Frame |-> {}]
        /\ seen = [f \in Frame |-> {}]

(* The producer takes a frame that nobody holds: a free one, or one that is *)
(* ready and that no module is busy with.                                   *)
Make(f) == /\ place[f] \in {"free", "ready"}
           /\ holders[f] = {}
           /\ place' = [place EXCEPT ![f] = "made"]
           /\ seen' = [seen EXCEPT ![f] = {}]
           /\ UNCHANGED holders

Publish(f) == /\ place[f] = "made"
              /\ place' = [place EXCEPT ![f] = "ready"]
              /\ UNCHANGED <<holders, seen>>

Discard(f) == /\ place[f] = "made"
              /\ place' = [place EXCEPT ![f] = "free"]
              /\ UNCHANGED <<holders, seen>>

Lend(f, r) == /\ place[f] = "ready"
              /\ r \notin seen[f]
              /\ holders' = [holders EXCEPT ![f] = @ \cup {r}]
              /\ seen' = [seen EXCEPT ![f] = @ \cup {r}]
              /\ UNCHANGED place

(* A module gives a frame back.  When it was the last one that held it, the *)
(* frame may go back to the free ones.                                      *)
GiveBack(f, r) ==
    /\ r \in holders[f]
    /\ holders' = [holders EXCEPT ![f] = @ \ {r}]
    /\ \/ UNCHANGED <<place, seen>>
       \/ /\ holders[f] = {r}
          /\ place' = [place EXCEPT ![f] = "free"]
          /\ seen' = [seen EXCEPT ![f] = {}]

Next == \E f \in Frame :
            \/ Make(f) \/ Publish(f) \/ Discard(f)
            \/ \E r \in Module : Lend(f, r) \/ GiveBack(f, r)

Spec == Init /\ [][Next]_vars
=============================================================================
