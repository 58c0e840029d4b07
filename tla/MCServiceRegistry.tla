-------------------------- MODULE MCServiceRegistry --------------------------
(***************************************************************************)
(* ServiceRegistry on a small instance: listener l1 follows only the name  *)
(* n1, any other listener every name.                                      *)
(***************************************************************************)
EXTENDS ServiceRegistry

CONSTANTS l1, n1

MCInterest == [l \in Listeners |-> IF l = l1 THEN {n1} ELSE Names]
=============================================================================
