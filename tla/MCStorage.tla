----------------------------- MODULE MCStorage ------------------------------
(* Small instances of Storage for TLC.                                      *)
EXTENDS Storage

MCBoth == {TRUE, FALSE}
MCPatient == {FALSE}
=============================================================================
