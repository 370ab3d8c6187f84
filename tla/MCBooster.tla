----------------------------- MODULE MCBooster -----------------------------
(***************************************************************************)
(* Booster on one device ID, with room for a watcher that an earlier       *)
(* disable() has not waited for, in two instances of which one is chosen   *)
(* at the start: two pods get the name one after the other, and the plugin *)
(* has registered each before it goes on; or one pod, which does not wait  *)
(* for its registrations and is registered by hand in any state (the       *)
(* booster polls there, and nothing waits to be placed).                   *)
(***************************************************************************)
EXTENDS Booster

VARIABLE orderly

\* What a step of the instance keeps to.
WithinInstance ==
    \A n \in Names :
        IF orderly
        THEN /\ pod'[n].no = pod[n].no /\ pod'[n] # pod[n] => toRegister[n] = {}
             /\ n \in DOMAIN reg' /\ reg'[n].pid => pod[n].is = "up" \/ reg' = reg
        ELSE pod'[n].no <= 1 /\ pending' = 0 /\ http' # "event"

MCInit == Init /\ orderly \in BOOLEAN
MCNext == Next /\ WithinInstance /\ UNCHANGED orderly

MCSpec == MCInit /\ [][MCNext]_<<vars, orderly>> /\ Fairness

=============================================================================
