--------------------------- MODULE MCAudioElement ---------------------------
(* Small instances of AudioElement for TLC.                                 *)
EXTENDS AudioElement

(* The calls of an application that starts its element again after a stop.  *)
Restarting == {"RUN", "RESUME", "STOP", "WAIT"}
=============================================================================
