--------------------------- MODULE MCPolicyOverTime ---------------------------
(***************************************************************************)
(* Small instances of PolicyOverTime: PolicyConfig's defaults, with the    *)
(* caps lowered so that each can be reached before and after another.      *)
(***************************************************************************)
EXTENDS PolicyOverTime

MCEirvs == {99, 100}
MCPromises == {NoPromise, 5}
=============================================================================
