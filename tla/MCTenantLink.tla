---------------------------- MODULE MCTenantLink ----------------------------
(* Three instances in one run: who takes part is chosen at the start.  The       *)
(* gate's protocol is about one tenant and two threads at a time, a pass about   *)
(* two armed tenants, and the broadcast needs two others.                        *)
EXTENDS Priority

CONSTANTS t1, t2, t3

VARIABLE cast

Casts == {[all |-> {t1, t2, t3}, gated |-> {}, callers |-> {}, broadcasts |-> TRUE],
          [all |-> {t1, t2}, gated |-> {t1}, callers |-> Threads, broadcasts |-> TRUE],
          [all |-> {t1, t2}, gated |-> {t1, t2}, callers |-> {Http}, broadcasts |-> FALSE]}

WithinCast ==
    /\ feeder' \cup up' \subseteq cast.all
    /\ \A c \in Threads : op'[c].t \in (IF c \in cast.callers THEN cast.gated ELSE {}) \cup {Nobody}
    /\ ~cast.broadcasts => req' = NoReq /\ urgent' = {}

MCInit == Init /\ cast \in Casts
MCNext == Next /\ WithinCast /\ UNCHANGED cast

MCSpec ==
    /\ MCInit
    /\ [][MCNext]_<<vars, cast>>
    /\ WF_vars(Feeds /\ UNCHANGED broadcast)

=============================================================================
