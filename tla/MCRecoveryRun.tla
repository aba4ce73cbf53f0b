---------------------------- MODULE MCRecoveryRun ----------------------------
(***************************************************************************)
(* Small instances of RecoveryRun.                                         *)
(***************************************************************************)
EXTENDS RecoveryRun, TLC

Symmetry == Permutations(Cases) \union Permutations(Runs) \union Permutations(Keys)
              \union Permutations(Requests)
=============================================================================
