---------------------------- MODULE MCSliceLoop ----------------------------
(***************************************************************************)
(* SliceLoop with the deployed holds and lease in seconds, two steps from  *)
(* the contract to either bound, and two contracts for the name: what the  *)
(* loop keeps is kept by name, so one name is enough.                      *)
(***************************************************************************)
EXTENDS SliceLoop

\* A bound that is not the next step, and a lease that outlasts a round.
ASSUME RoomToMove == One - Lo >= 2 /\ Hi - One >= 2 /\ LeaseS > MaxSleep

=============================================================================
