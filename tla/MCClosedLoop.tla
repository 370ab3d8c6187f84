--------------------------- MODULE MCClosedLoop ---------------------------
(***************************************************************************)
(* ClosedLoop, in seconds.  The safety run is at the deployed defaults: the*)
(* steps 1.0, 0.7, 0.5, 0.4, --intervene-hold 2, --release-hold 3,         *)
(* --min-dwell 1, hence PROMOTE_AFTER_S 6, SPACE_AFTER_S 3 and SPACE_DWELL *)
(* 2, and a lease of 3.  The liveness run has one step less, and POSTs that*)
(* fail.  A round may come one or two seconds after the last.              *)
(***************************************************************************)
EXTENDS ClosedLoop

\* PROMOTE_AFTER_S, SPACE_AFTER_S and SPACE_DWELL are what main() computes.
ASSUME Derived ==
    /\ PromoteAfter = IF MinDwell * MaxLevel * 2 > 4 THEN MinDwell * MaxLevel * 2 ELSE 4
    /\ SpaceAfter * 2 = PromoteAfter
    /\ SpaceDwell = IF MinDwell * 2 > 2 THEN MinDwell * 2 ELSE 2

=============================================================================
