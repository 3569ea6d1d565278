---------------------------- MODULE FrameHandoff ----------------------------
(***************************************************************************)
(* What CPU1 and CPU0 agree on when a task of CPU1 shows a frame of PSRAM  *)
(* to CPU0: CPU0 works on the very frame that is lent, once at a time, and *)
(* has stopped to before CPU1 has the frame back.                          *)
(***************************************************************************)
CONSTANTS Frame, NoFrame

VARIABLES lent,     \* the frame CPU1 has shown and not got back
          used      \* the frame CPU0 works on

vars == <<lent, used>>

Init == lent = NoFrame /\ used = NoFrame

Lend(f) == /\ lent = NoFrame
           /\ lent' = f
           /\ UNCHANGED used

Use == /\ lent # NoFrame /\ used = NoFrame
       /\ used' = lent
       /\ UNCHANGED lent

Done == /\ used # NoFrame
        /\ used' = NoFrame
        /\ UNCHANGED lent

(* A frame may be given back unused.                                        *)
TakeBack == /\ lent # NoFrame /\ used = NoFrame
            /\ lent' = NoFrame
            /\ UNCHANGED used

Next == (\E f \in Frame : Lend(f)) \/ Use \/ Done \/ TakeBack

Spec == Init /\ [][Next]_vars
=============================================================================
