--------------------------- MODULE MCMediaMailbox ---------------------------
(* Small instances of MediaMailbox for TLC.                                 *)
EXTENDS MediaMailbox

(* By the first letter of a message: which CPU sends it to which.           *)
MCFrom == [m \in Msgs |-> IF m \in {"a1", "a2"} THEN "app"
                          ELSE IF m = "n1" THEN "minor" ELSE "major"]
MCTo == [m \in Msgs |-> IF m \in {"a1", "a2", "n1"} THEN "major"
                        ELSE IF m = "m1" THEN "app" ELSE "minor"]
=============================================================================
