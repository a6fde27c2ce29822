---------------------------- MODULE MCEmailQueue ----------------------------
(* Small instances of EmailQueue for TLC.                                  *)
EXTENDS EmailQueue
=============================================================================
