----------------------------- MODULE MCRingBuf -----------------------------
(* Small instances of RingBuf for TLC.                                      *)
EXTENDS RingBuf
=============================================================================
