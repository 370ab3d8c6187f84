--------------------------- MODULE MCRatioLease ---------------------------
(***************************************************************************)
(* RatioLease on two devices with one calling thread beside the feeder's.  *)
(* The request of the lender's last renewal may be any; after Horizon it   *)
(* is silent, as a killed process is, and the clock goes on to MaxClock,   *)
(* past the end of every lease.                                            *)
(***************************************************************************)
EXTENDS RatioLease

\* The bounds leave room for the last lease to run out.
ASSUME LeasesEnd == \A ttl \in Leases \cup {DefaultLease} : Horizon + ttl <= MaxClock

=============================================================================
