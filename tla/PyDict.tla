------------------------------ MODULE PyDict ------------------------------
(***************************************************************************)
(* The Python dictionaries of the controller (feeder, registry, priority), *)
(* as functions whose DOMAIN is the set of keys present.                   *)
(***************************************************************************)

\* {}
EmptyDict == [k \in {} |-> k]

\* d[k] = v, for every k of S
Put(d, S, v) == [k \in DOMAIN d \cup S |-> IF k \in S THEN v ELSE d[k]]

\* d.pop(k, None), for every k of S
Drop(d, S) == [k \in DOMAIN d \ S |-> d[k]]

=============================================================================
