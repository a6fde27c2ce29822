---------------------------- MODULE MCManagedDb ----------------------------
EXTENDS ManagedDb, TLC

Symmetry == Permutations(App) \cup Permutations(Proc) \cup Permutations(AdminPw)
=============================================================================
