------------------------------ MODULE MCAccess ------------------------------
(* Small instances of Access for TLC.                                      *)
EXTENDS Access, TLC

Symmetric == Permutations(User) \cup Permutations(Group)
=============================================================================
