----------------------------- MODULE MCTransfer -----------------------------
(* Small instances of Transfer for TLC.                                     *)
EXTENDS Transfer

(* An application that waits for frames, on a system short of memory, and   *)
(* one that does not wait.                                                  *)
MCSettings == {[early |-> FALSE, fails |-> TRUE],
               [early |-> TRUE, fails |-> FALSE]}

MCEarly == {[early |-> TRUE, fails |-> FALSE]}
=============================================================================
