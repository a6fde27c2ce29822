------------------------------ MODULE MCDeploy ------------------------------
(* Small instances of Deploy for TLC.                                      *)
EXTENDS Deploy
=============================================================================
