------------------------------- MODULE MCSwap -------------------------------
(***************************************************************************)
(* Swap with two tenants, either of them old, standby or gated, and one    *)
(* ready file that all requests name.                                      *)
(***************************************************************************)
EXTENDS Swap

ASSUME TwoRoles == Cardinality(Tenants) >= 2

=============================================================================
