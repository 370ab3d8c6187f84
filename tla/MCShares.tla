------------------------------ MODULE MCShares ------------------------------
(***************************************************************************)
(* Two instances in one run, of which one moves, chosen at the start.      *)
(*                                                                         *)
(* "ticks": IdleShares with a small and a large share of a pool of 4:      *)
(* together they leave something (1 + 1) or exceed it, with a part that    *)
(* rounds to nothing (1 + 4) and without (4 + 4).                          *)
(*                                                                         *)
(* "ledger": Placement on a grid of 4 by 5 steps with three tenants, small,*)
(* middling and large requests, and one that is out of range on either     *)
(* side; and all lists of up to three members for Pair.                    *)
(***************************************************************************)
EXTENDS IdleShares, Pair, TLC

VARIABLE part

\* Names are only compared with each other.
Names == Permutations(Tenants) \cup Permutations(Workloads)

\* A ledger that stands still: somebody has a step of each.
Parked ==
    /\ ledger \in {Put(EmptyDict, {w}, [s |-> 1, t |-> 1]) : w \in Workloads}
    /\ phase = "idle" /\ job = NoJob

MCInit ==
    /\ Init
    /\ \/ part = "ticks" /\ Parked
       \/ part = "ledger" /\ LedgerInit

MCNext ==
    /\ \/ part = "ticks" /\ Next /\ UNCHANGED ledgerVars
       \/ part = "ledger" /\ LedgerNext /\ UNCHANGED vars
    /\ UNCHANGED part

MCSpec == MCInit /\ [][MCNext]_<<vars, ledgerVars, part>>

=============================================================================
