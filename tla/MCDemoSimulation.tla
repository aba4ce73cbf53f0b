--------------------------- MODULE MCDemoSimulation ---------------------------
(***************************************************************************)
(* Small instances of DemoSimulation.                                      *)
(***************************************************************************)
EXTENDS DemoSimulation, TLC

Symmetry == Permutations(Requests) \union Permutations(Commands)
=============================================================================
