---------------------------- MODULE MCSlotTable ----------------------------
(***************************************************************************)
(* SlotTable with two slots and three names, so that the table can be full *)
(* and a name can find its slot taken.                                     *)
(***************************************************************************)
EXTENDS SlotTable, TLC

\* Names are only compared with each other.
Names == Permutations(Ids)

ASSUME TableCanBeFull == Cardinality(Ids) > MaxTenants

=============================================================================
