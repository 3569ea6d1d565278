--------------------------- MODULE MCFrameBuffer ---------------------------
(* Small instances of FrameBuffer for TLC.                                  *)
EXTENDS FrameBuffer

(* A pool of JPEG frames whose camera closes while modules are registered;  *)
(* one whose readers are closed by other tasks; a pool of H.264 frames.     *)
MCSettings ==
    {[takesBack |-> TRUE, clears |-> TRUE, closes |-> "idle"],
     [takesBack |-> TRUE, clears |-> FALSE, closes |-> "reading"],
     [takesBack |-> FALSE, clears |-> FALSE, closes |-> "idle"]}

(* The camera and a reader are closed at the same time.                     *)
MCBothClose == {[takesBack |-> TRUE, clears |-> TRUE, closes |-> "reading"]}
=============================================================================
